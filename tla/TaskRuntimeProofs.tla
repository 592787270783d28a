--------------------------- MODULE TaskRuntimeProofs ---------------------------
(***************************************************************************)
(* RetryJustified and ResultJustified of TaskRuntime for every number of   *)
(* workers, handlers and rows, and under every fault; the refinement: what  *)
(* TaskRuntime does to an execution chain is a behaviour of RetryChain;     *)
(* and, last, what TaskRuntimeOnce needs about the scheduler's goroutines.  *)
(***************************************************************************)
EXTENDS TaskRuntime, TLAPS

(* A goroutine that dispatches or cancels holds an existing row, and one    *)
(* past Pick holds a worker; the trigger side only holds rows it created.   *)
Holds(t) ==
    /\ thr[t].pc \in {"pick", "write", "send", "fail", "notify", "cancel"}
          => thr[t].id \in Ids /\ Exists(thr[t].id)
    /\ thr[t].pc \in {"write", "send", "fail"} => thr[t].w \in Workers
    /\ t \in Creators /\ thr[t].pc # "idle"
          => /\ thr[t].pc \in {"pick", "write", "send", "fail"}
             /\ rows[thr[t].id].parent = 0

(* A report in the hands of a handler is about an existing row, and a final *)
(* one tells how an execution really ended. Behind the retry decision the   *)
(* row has budget left.                                                    *)
Reports(r) ==
    /\ thr[r].awaited => thr[r].pc # "idle"
    /\ thr[r].pc # "idle" =>
          /\ thr[r].src \in Ids /\ Exists(thr[r].src)
          /\ thr[r].from \in Workers
          /\ thr[r].st # "none"
          /\ thr[r].st # "running" => <<thr[r].from, thr[r].src, thr[r].st>> \in ended
    /\ thr[r].pc \in {"retry", "create"} => thr[r].st # "running"
    /\ thr[r].pc = "create" => retryWanted(thr[r].src, thr[r].st)

ThreadsOK == /\ \A t \in Threads : Holds(t)
             /\ \A r \in Reporters : Reports(r)
             /\ \A i \in scan : Exists(i)

(* Workers only know existing rows, and what they hold as a final status,   *)
(* in memory or in the local store, is how an execution ended.             *)
InboxOK == \A w \in Workers, i \in Ids : <<w, i>> \in inbox => Exists(i)

ExecOK ==
    \A w \in Workers, i \in Ids :
        /\ exec[w][i].pc # "none" => Exists(i)
        /\ exec[w][i].pc \in {"finished", "waitFinal"} =>
              exec[w][i].out # "none" /\ <<w, i, exec[w][i].out>> \in ended

BufOK ==
    \A w \in Workers, i \in Ids :
        buf[w][i] # "none" => Exists(i) /\ <<w, i, buf[w][i]>> \in ended

WorkersOK == InboxOK /\ ExecOK /\ BufOK

(* An absent row has no parent.                                            *)
RowsOK == /\ RetryJustified
          /\ ResultJustified
          /\ \A i \in Ids : ~Exists(i) => rows[i].parent = 0

(* What the scheduler's goroutines hold, what the workers know and what the *)
(* rows say agree: the invariant that every step of TaskRuntime preserves.  *)
IInv == TypeOK /\ ThreadsOK /\ WorkersOK /\ RowsOK

--------------------------------------------------------------------------------
(* No statement of the repository deletes a row, or changes the parent or   *)
(* the retry count of one; the history of executions grows.                *)
Grows == /\ \A i \in Ids : Exists(i) =>
               /\ Exists(i)'
               /\ rows'[i].parent = rows[i].parent
               /\ rows'[i].retryCount = rows[i].retryCount
         /\ ended \subseteq ended'

(* Behind the lemma: the only rewrite of a whole row is CreateInstance, at a *)
(* fresh id, and no UPDATE writes the empty status.                         *)
LEMMA StepGrows == IInv /\ [Next]_vars => Grows
<1> SUFFICES ASSUME IInv, [Next]_vars PROVE Grows
  OBVIOUS
<1> USE DEF IInv
<1>u. UNCHANGED rows /\ ended \subseteq ended' => Grows
  BY DEF Grows, Exists
<1>1. ASSUME NEW c \in Creators, Trigger(c) PROVE Grows
  <2>1. CASE TriggerCreate(c)
    BY <2>1 DEF TriggerCreate, Grows, Exists, CreateInstance, Fresh, TypeOK, Rows
  <2>2. CASE TriggerWrite(c)
    BY <2>2 DEF TriggerWrite, Grows, Exists, UpdateInstanceDispatch, TypeOK, Rows
  <2>3. CASE TriggerFail(c)
    BY <2>3 DEF TriggerFail, Grows, Exists, UpdateInstanceResult, TypeOK, Rows
  <2> QED
    BY <1>1, <1>u, <2>1, <2>2, <2>3 DEF Trigger, TriggerNoWorker, TriggerPick, TriggerSend
<1>2. ASSUME NEW i \in Ids, RetryFallsDue(i) PROVE Grows
  BY <1>2 DEF RetryFallsDue, Grows, Exists, TypeOK, Rows
<1>3. CASE Retry
  <2>1. CASE RetryWrite
    BY <2>1 DEF RetryWrite, Grows, Exists, UpdateInstanceDispatch, TypeOK, Rows
  <2>2. CASE RetryFail
    BY <2>2 DEF RetryFail, Grows, Exists, UpdateInstanceStatus, TypeOK, Rows
  <2> QED
    BY <1>3, <1>u, <2>1, <2>2 DEF Retry, RetryScan, RetryDone, RetryNext, RetryPick,
       RetryNoWorker, RetrySend
<1>4. ASSUME NEW r \in Reporters, ReportStatus(r) PROVE Grows
  <2>1. CASE ReportResult(r)
    BY <2>1, ZenonT(60) DEF ReportResult, Grows, Exists, UpdateInstanceResult, TypeOK, Rows,
       ThreadsOK, Reports, At
  <2>2. CASE ReportCreate(r)
    BY <2>2 DEF ReportCreate, Grows, Exists, CreateInstance, Fresh, TypeOK, Rows
  <2>3. CASE ReportNoWorker(r)
    BY <2>3 DEF ReportNoWorker, Grows, Exists, UpdateInstanceStatus, TypeOK, Rows
  <2>4. CASE ReportWrite(r)
    BY <2>4 DEF ReportWrite, Grows, Exists, UpdateInstanceDispatch, TypeOK, Rows
  <2>5. CASE ReportFail(r)
    BY <2>5 DEF ReportFail, Grows, Exists, UpdateInstanceStatus, TypeOK, Rows
  <2> QED
    BY <1>4, <1>u, <2>1, <2>2, <2>3, <2>4, <2>5, Zenon DEF ReportStatus, ReportRead,
       ReportDecide, ReportPick, ReportSend, ReportAbort
<1>5. ASSUME NEW c \in Cancellers, CancelWrite(c) PROVE Grows
  BY <1>5 DEF CancelWrite, Grows, Exists, UpdateInstanceResult, TypeOK, Rows
<1> QED
  BY <1>1, <1>2, <1>3, <1>4, <1>5, <1>u, ZenonT(60)
     DEF Next, ReportTimeout, CancelRead, CancelNotify,
     Worker, RunStart, RunReportRunning, RunExecute, RunReportFinal, FlushSend, EvictDedup,
     SchedulerCrash, WorkerCrash, vars

--------------------------------------------------------------------------------
(* Types: what each way of writing a variable leaves in it.                *)

(* An update at two indices stays within a two-level function type.          *)
LEMMA Update2 ==
    ASSUME NEW A, NEW B, NEW C, NEW f \in [A -> [B -> C]],
           NEW a \in A, NEW b \in B, NEW c \in C
    PROVE  [f EXCEPT ![a][b] = c] \in [A -> [B -> C]]
<1>1. [f[a] EXCEPT ![b] = c] \in [B -> C]
  OBVIOUS
<1> QED
  BY <1>1

(* A goroutine that moves on keeps its type.                                 *)
LEMMA GotoType ==
    ASSUME TypeOK, NEW t \in Threads, NEW pc \in PCs, Goto(t, pc)
    PROVE  thr' \in [Threads -> ThreadStates]
<1>1. thr[t] \in ThreadStates
  BY DEF TypeOK
<1>2. [thr[t] EXCEPT !.pc = pc] \in ThreadStates
  BY <1>1 DEF ThreadStates
<1> QED
  BY <1>2 DEF Goto, TypeOK

(* Pick writes the worker into the goroutine.                                *)
LEMMA PickType ==
    ASSUME TypeOK, NEW t \in Threads, NEW w \in Workers,
           thr' = [thr EXCEPT ![t].pc = "write", ![t].w = w]
    PROVE  thr' \in [Threads -> ThreadStates]
<1>1. thr[t] \in ThreadStates
  BY DEF TypeOK
<1>2. [[thr[t] EXCEPT !.pc = "write"] EXCEPT !.w = w] \in ThreadStates
  BY <1>1, Zenon DEF ThreadStates, PCs
<1> QED
  BY <1>2 DEF TypeOK

(* A goroutine that takes up a row keeps its type.                           *)
LEMMA HoldType ==
    ASSUME TypeOK, NEW t \in Threads, NEW i \in Ids,
           thr' = [thr EXCEPT ![t].pc = "pick", ![t].id = i]
    PROVE  thr' \in [Threads -> ThreadStates]
<1>1. thr[t] \in ThreadStates
  BY DEF TypeOK
<1>2. [[thr[t] EXCEPT !.pc = "pick"] EXCEPT !.id = i] \in ThreadStates
  BY <1>1, Zenon DEF ThreadStates, PCs
<1> QED
  BY <1>2 DEF TypeOK

(* A goroutine may be set to any goroutine state.                            *)
LEMMA SetType ==
    ASSUME TypeOK, NEW t \in Threads, NEW new \in ThreadStates,
           thr' = [thr EXCEPT ![t] = new]
    PROVE  thr' \in [Threads -> ThreadStates]
BY DEF TypeOK

(* The idle goroutine has its type.                                          *)
LEMMA IdleType == Idle \in ThreadStates
BY DEF Idle, ThreadStates, PCs

(* A goroutine that ends keeps its type.                                     *)
LEMMA StopType ==
    ASSUME TypeOK, NEW t \in Threads, Stop(t)
    PROVE  thr' \in [Threads -> ThreadStates]
BY IdleType DEF TypeOK, Stop

(* The retry loop between two instances keeps its type.                      *)
LEMMA ContinueType ==
    ASSUME TypeOK, Continue
    PROVE  thr' \in [Threads -> ThreadStates]
BY Zenon DEF TypeOK, Continue, Idle, ThreadStates, PCs, Threads

(* A handler that takes up a report has its type.                            *)
LEMMA HandleType ==
    ASSUME TypeOK, NEW r \in Reporters, NEW w \in Workers, NEW i \in Ids,
           NEW s \in {"running"} \cup Outcomes, NEW b \in BOOLEAN, Handle(r, w, i, s, b)
    PROVE  thr' \in [Threads -> ThreadStates]
BY Zenon DEF TypeOK, Handle, Idle, ThreadStates, PCs, Threads

(* UpdateInstanceStatus and UpdateInstanceResult keep the table in its type. *)
LEMMA StatusType ==
    ASSUME TypeOK, NEW i \in Ids, NEW s \in Statuses,
           rows' = [rows EXCEPT ![i].status = s]
    PROVE  rows' \in [Ids -> Rows]
BY ZenonT(60) DEF TypeOK, Rows

(* UpdateInstanceDispatch keeps the table in its type.                       *)
LEMMA DispatchType ==
    ASSUME TypeOK, NEW i \in Ids, NEW w \in Workers, UpdateInstanceDispatch(i, w)
    PROVE  rows' \in [Ids -> Rows]
BY ZenonT(60) DEF TypeOK, UpdateInstanceDispatch, Rows, Statuses

(* CreateInstance keeps the table in its type.                               *)
LEMMA CreateType ==
    ASSUME TypeOK, NEW i \in Ids, NEW s \in Statuses, NEW n \in Nat,
           NEW d \in BOOLEAN, NEW p \in Ids \cup {0}, CreateInstance(i, s, n, d, p)
    PROVE  rows' \in [Ids -> Rows]
BY DEF TypeOK, CreateInstance, Rows

(* Handler.run moves an execution within its type.                           *)
LEMMA RunType ==
    ASSUME TypeOK, NEW w \in Workers, NEW i \in Ids, NEW pc \in RunPCs
    PROVE  [exec EXCEPT ![w][i].pc = pc] \in [Workers -> [Ids -> Runs]]
<1>1. exec[w][i] \in Runs
  BY DEF TypeOK
<1>2. [exec[w][i] EXCEPT !.pc = pc] \in Runs
  BY <1>1 DEF Runs
<1>3. [exec EXCEPT ![w][i] = [exec[w][i] EXCEPT !.pc = pc]] \in [Workers -> [Ids -> Runs]]
  BY <1>2, Update2 DEF TypeOK
<1> QED
  BY <1>3

(* Reply writes the execution or the file the handler's report came from,  *)
(* or nothing.                                                             *)
LEMMA ReplyCases ==
    ASSUME IInv, NEW r \in Reporters, NEW ok \in BOOLEAN, Reply(r, ok)
    PROVE  /\ \/ exec' = exec
              \/ /\ thr[r].from \in Workers /\ thr[r].src \in Ids
                 /\ Exists(thr[r].src)
                 /\ \E pc \in {"executing", "done"} :
                       exec' = [exec EXCEPT ![thr[r].from][thr[r].src].pc = pc]
           /\ \/ buf' = buf
              \/ /\ thr[r].from \in Workers /\ thr[r].src \in Ids
                 /\ \E s \in {"none"} \cup Outcomes :
                       /\ buf' = [buf EXCEPT ![thr[r].from][thr[r].src] = s]
                       /\ s # "none" => /\ Exists(thr[r].src)
                                        /\ <<thr[r].from, thr[r].src, s>> \in ended
<1>1. CASE ~thr[r].awaited
  BY <1>1 DEF Reply
<1>2. CASE thr[r].awaited
  <2>1. /\ thr[r].from \in Workers /\ thr[r].src \in Ids
        /\ thr[r].st \in {"running"} \cup Outcomes
        /\ Exists(thr[r].src)
        /\ thr[r].st # "running" => <<thr[r].from, thr[r].src, thr[r].st>> \in ended
    BY <1>2 DEF IInv, ThreadsOK, Reports, TypeOK, ThreadStates, Threads
  <2> QED
    BY <1>2, <2>1, Zenon DEF Reply
<1> QED
  BY <1>1, <1>2, Zenon

(* The reply of a report leaves executions and files in their types.         *)
LEMMA ReplyType ==
    ASSUME IInv, NEW r \in Reporters, NEW ok \in BOOLEAN, Reply(r, ok)
    PROVE  /\ exec' \in [Workers -> [Ids -> Runs]]
           /\ buf' \in [Workers -> [Ids -> {"none"} \cup Outcomes]]
<1>1. TypeOK
  BY DEF IInv
<1> DEFINE w == thr[r].from  i == thr[r].src
<1>2. exec' \in [Workers -> [Ids -> Runs]]
  <2>1. CASE exec' = exec
    BY <1>1, <2>1 DEF TypeOK
  <2>2. ASSUME w \in Workers, i \in Ids, NEW pc \in RunPCs,
               exec' = [exec EXCEPT ![w][i].pc = pc]
        PROVE  exec' \in [Workers -> [Ids -> Runs]]
    BY <1>1, <2>2, RunType, Zenon
  <2> QED
    BY <2>1, <2>2, ReplyCases, Zenon DEF RunPCs
<1>3. buf' \in [Workers -> [Ids -> {"none"} \cup Outcomes]]
  <2>1. CASE buf' = buf
    BY <1>1, <2>1 DEF TypeOK
  <2>2. ASSUME w \in Workers, i \in Ids, NEW s \in {"none"} \cup Outcomes,
               buf' = [buf EXCEPT ![w][i] = s]
        PROVE  buf' \in [Workers -> [Ids -> {"none"} \cup Outcomes]]
    BY <1>1, <2>2, Update2 DEF TypeOK
  <2> QED
    BY <2>1, <2>2, ReplyCases, Zenon
<1> QED
  BY <1>2, <1>3

(* Behind the lemma: every column, field and file is written with a value of *)
(* its type; see the lemmas above, one for each way of writing.              *)
LEMMA StepTypeOK == IInv /\ [Next]_vars => TypeOK'
<1> SUFFICES ASSUME IInv, [Next]_vars PROVE TypeOK'
  OBVIOUS
<1>t. TypeOK
  BY DEF IInv
<1>p. /\ {"pick", "write", "send", "fail", "result", "retry", "create", "cancel"} \subseteq PCs
      /\ {"pending", "failed", "retry_waiting", "cancelled", "running"} \subseteq Statuses
      /\ Outcomes \subseteq Statuses
      /\ \A t \in Creators \cup Reporters \cup Cancellers \cup {Retrier} : t \in Threads
  BY Parameters DEF PCs, Statuses, Terminal, Threads
<1>h. \A t \in Threads : Holds(t)
  BY DEF IInv, ThreadsOK
<1>r. \A r \in Reporters : Reports(r)
  BY DEF IInv, ThreadsOK
<1>d. \A t \in Threads : DispatchOK(t) /\ At(t, "send") => inbox' \subseteq Workers \X Ids
  BY <1>t, <1>h DEF Holds, DispatchOK, At, TypeOK
<1>e. \A t \in Threads : DispatchErr(t) /\ At(t, "send") => inbox' \subseteq Workers \X Ids
  BY <1>t, <1>d DEF DispatchErr, TypeOK
<1>1. ASSUME NEW c \in Creators, TriggerCreate(c) PROVE TypeOK'
  <2>1. PICK i \in Ids :
           /\ CreateInstance(i, "pending", 0, TRUE, 0)
           /\ thr' = [thr EXCEPT ![c] = [Idle EXCEPT !.pc = "pick", !.id = i]]
    BY <1>1, Zenon DEF TriggerCreate
  <2>2. [Idle EXCEPT !.pc = "pick", !.id = i] \in ThreadStates
    BY Zenon DEF Idle, ThreadStates, PCs
  <2> QED
    BY <1>1, <1>t, <1>p, <2>1, <2>2, CreateType, SetType, Zenon DEF TriggerCreate, TypeOK
<1>2. ASSUME NEW c \in Creators, TriggerNoWorker(c) PROVE TypeOK'
  BY <1>2, <1>t, <1>p, StopType DEF TriggerNoWorker, TypeOK
<1>3. ASSUME NEW c \in Creators, TriggerPick(c) PROVE TypeOK'
  BY <1>3, <1>t, <1>p, PickType, Zenon DEF TriggerPick, TypeOK
<1>4. ASSUME NEW c \in Creators, TriggerWrite(c) PROVE TypeOK'
  <2>1. rows' \in [Ids -> Rows]
    BY <1>4, <1>t, <1>p, <1>h, DispatchType DEF TriggerWrite, TypeOK, Holds, At
  <2> QED
    BY <1>4, <1>t, <1>p, <2>1, GotoType DEF TriggerWrite, TypeOK
<1>5. ASSUME NEW c \in Creators, TriggerSend(c) PROVE TypeOK'
  BY <1>5, <1>t, <1>p, <1>d, <1>e, GotoType, StopType DEF TriggerSend, TypeOK
<1>6. ASSUME NEW c \in Creators, TriggerFail(c) PROVE TypeOK'
  <2>1. rows' \in [Ids -> Rows]
    BY <1>6, <1>t, <1>p, <1>h, StatusType
       DEF TriggerFail, TypeOK, Holds, At, UpdateInstanceResult
  <2> QED
    BY <1>6, <1>t, <1>p, <2>1, StopType DEF TriggerFail, TypeOK
<1>7. ASSUME NEW i \in Ids, RetryFallsDue(i) PROVE TypeOK'
  BY <1>7, <1>t, ZenonT(60) DEF RetryFallsDue, TypeOK, Rows
<1>8. CASE RetryScan
  BY <1>8, <1>t, ContinueType DEF RetryScan, DueRetries, TypeOK
<1>9. CASE RetryDone
  BY <1>9, <1>t, <1>p, StopType DEF RetryDone, TypeOK
<1>10. CASE RetryNext
  <2>1. PICK i \in scan :
           /\ scan' = scan \ {i}
           /\ \/ thr' = [thr EXCEPT ![Retrier].pc = "pick", ![Retrier].id = i]
              \/ UNCHANGED thr
    BY <1>10 DEF RetryNext
  <2>2. i \in Ids /\ thr' \in [Threads -> ThreadStates]
    BY <1>t, <1>p, <2>1, HoldType, Zenon DEF TypeOK
  <2> QED
    BY <1>10, <1>t, <2>1, <2>2 DEF RetryNext, TypeOK
<1>11. CASE RetryPick
  BY <1>11, <1>t, <1>p, PickType, Zenon DEF RetryPick, TypeOK
<1>12. CASE RetryNoWorker
  BY <1>12, <1>t, <1>p, StopType, ContinueType DEF RetryNoWorker, TypeOK
<1>13. CASE RetryWrite
  <2>1. rows' \in [Ids -> Rows]
    BY <1>13, <1>t, <1>p, <1>h, DispatchType DEF RetryWrite, TypeOK, Holds, At
  <2> QED
    BY <1>13, <1>t, <1>p, <2>1, GotoType, ContinueType DEF RetryWrite, TypeOK
<1>14. CASE RetrySend
  BY <1>14, <1>t, <1>p, <1>d, <1>e, GotoType, ContinueType DEF RetrySend, TypeOK
<1>15. CASE RetryFail
  <2>1. rows' \in [Ids -> Rows]
    BY <1>15, <1>t, <1>p, <1>h, StatusType
       DEF RetryFail, TypeOK, Holds, At, UpdateInstanceStatus
  <2> QED
    BY <1>15, <1>t, <2>1, ContinueType DEF RetryFail, TypeOK
<1>16. ASSUME NEW r \in Reporters, ReportRead(r) PROVE TypeOK'
  BY <1>16, <1>t, <1>p, StopType, GotoType, ReplyType, Zenon DEF ReportRead, TypeOK
<1>17. ASSUME NEW r \in Reporters, ReportResult(r) PROVE TypeOK'
  <2>1. thr[r].src \in Ids /\ thr[r].st \in Statuses
    BY <1>17, <1>t, <1>p, <1>r, Zenon DEF ReportResult, At, Reports, TypeOK, ThreadStates
  <2>2. rows' \in [Ids -> Rows]
    BY <1>17, <1>t, <2>1, StatusType, Zenon DEF ReportResult, UpdateInstanceResult
  <2> QED
    BY <1>17, <1>t, <1>p, <2>2, StopType, GotoType, ReplyType, Zenon DEF ReportResult, TypeOK
<1>18. ASSUME NEW r \in Reporters, ReportDecide(r) PROVE TypeOK'
  BY <1>18, <1>t, <1>p, StopType, GotoType, ReplyType, Zenon DEF ReportDecide, TypeOK
<1>19. ASSUME NEW r \in Reporters, ReportCreate(r) PROVE TypeOK'
  <2>1. PICK i \in Ids :
           /\ CreateInstance(i, IF Backoff THEN "retry_waiting" ELSE "pending",
                             rows[thr[r].src].retryCount + 1, ~Backoff, thr[r].src)
           /\ IF Backoff
              THEN (\E ok \in BOOLEAN : Reply(r, ok)) /\ Stop(r)
              ELSE /\ thr' = [thr EXCEPT ![r].pc = "pick", ![r].id = i]
                   /\ UNCHANGED <<exec, buf>>
    BY <1>19, Zenon DEF ReportCreate
  <2>2. thr[r].src \in Ids /\ rows[thr[r].src].retryCount + 1 \in Nat
    <3>1. thr[r].src \in Ids
      BY <1>19, <1>r, Zenon DEF ReportCreate, At, Reports
    <3>2. rows[thr[r].src] \in Rows
      BY <1>t, <3>1 DEF TypeOK
    <3> QED
      BY <3>1, <3>2 DEF Rows
  <2>3. rows' \in [Ids -> Rows]
    BY <1>t, <1>p, <2>1, <2>2, CreateType, Parameters, Zenon
  <2> QED
    BY <1>19, <1>t, <1>p, <2>1, <2>3, StopType, HoldType, ReplyType, Zenon
       DEF ReportCreate, TypeOK
<1>20. ASSUME NEW r \in Reporters, ReportPick(r) PROVE TypeOK'
  BY <1>20, <1>t, <1>p, PickType, Zenon DEF ReportPick, TypeOK
<1>21. ASSUME NEW r \in Reporters, ReportNoWorker(r) PROVE TypeOK'
  <2>1. rows' \in [Ids -> Rows]
    BY <1>21, <1>t, <1>p, <1>h, StatusType
       DEF ReportNoWorker, TypeOK, Holds, At, UpdateInstanceStatus
  <2> QED
    BY <1>21, <1>t, <1>p, <2>1, StopType, ReplyType, Zenon DEF ReportNoWorker, TypeOK
<1>22. ASSUME NEW r \in Reporters, ReportWrite(r) PROVE TypeOK'
  <2>1. rows' \in [Ids -> Rows]
    BY <1>22, <1>t, <1>p, <1>h, DispatchType DEF ReportWrite, TypeOK, Holds, At
  <2> QED
    BY <1>22, <1>t, <1>p, <2>1, GotoType DEF ReportWrite, TypeOK
<1>23. ASSUME NEW r \in Reporters, ReportSend(r) PROVE TypeOK'
  BY <1>23, <1>t, <1>p, <1>d, <1>e, GotoType, StopType, ReplyType, Zenon DEF ReportSend, TypeOK
<1>24. ASSUME NEW r \in Reporters, ReportFail(r) PROVE TypeOK'
  <2>1. rows' \in [Ids -> Rows]
    BY <1>24, <1>t, <1>p, <1>h, StatusType
       DEF ReportFail, TypeOK, Holds, At, UpdateInstanceStatus
  <2> QED
    BY <1>24, <1>t, <1>p, <2>1, StopType, ReplyType, Zenon DEF ReportFail, TypeOK
<1>25. ASSUME NEW r \in Reporters, ReportAbort(r) PROVE TypeOK'
  BY <1>25, <1>t, <1>p, StopType, ReplyType, Zenon DEF ReportAbort, TypeOK
<1>26. ASSUME NEW r \in Reporters, ReportTimeout(r) PROVE TypeOK'
  <2>1. thr[r] \in ThreadStates
    BY <1>t, <1>p DEF TypeOK
  <2>2. [thr[r] EXCEPT !.awaited = FALSE] \in ThreadStates
    BY <2>1, Zenon DEF ThreadStates
  <2> QED
    BY <1>26, <1>t, <1>p, <2>2, SetType, ReplyType, Zenon DEF ReportTimeout, TypeOK
<1>27. ASSUME NEW c \in Cancellers, NEW i \in Ids, CancelRead(c, i) PROVE TypeOK'
  <2>1. [Idle EXCEPT !.pc = "notify", !.id = i, !.w = rows[i].worker] \in ThreadStates
    BY <1>t, Zenon DEF Idle, ThreadStates, PCs, TypeOK, Rows
  <2> QED
    BY <1>27, <1>t, <1>p, <2>1, SetType DEF CancelRead, TypeOK
<1>28. ASSUME NEW c \in Cancellers, CancelNotify(c) PROVE TypeOK'
  <2> DEFINE w == thr[c].w  i == thr[c].id
  <2>1. CASE UNCHANGED exec
    BY <1>28, <1>t, <1>p, <2>1, GotoType DEF CancelNotify, TypeOK
  <2>2. CASE w \in Workers /\ exec' = [exec EXCEPT ![w][i].out = "failed"]
    <3>1. i \in Ids
      BY <1>28, <1>p, <1>h, Zenon DEF CancelNotify, Holds, At
    <3>2. exec[w][i] \in Runs
      BY <1>t, <2>2, <3>1 DEF TypeOK
    <3>3. [exec[w][i] EXCEPT !.out = "failed"] \in Runs
      BY <3>2, Parameters DEF Runs
    <3>4. [exec EXCEPT ![w][i] = [exec[w][i] EXCEPT !.out = "failed"]]
             \in [Workers -> [Ids -> Runs]]
      BY <1>t, <2>2, <3>1, <3>3, Update2, Zenon DEF TypeOK
    <3> QED
      BY <1>28, <1>t, <1>p, <2>2, <3>4, GotoType, ZenonT(60) DEF CancelNotify, TypeOK
  <2> QED
    BY <1>28, <2>1, <2>2 DEF CancelNotify
<1>29. ASSUME NEW c \in Cancellers, CancelWrite(c) PROVE TypeOK'
  <2>1. rows' \in [Ids -> Rows]
    BY <1>29, <1>t, <1>p, <1>h, StatusType
       DEF CancelWrite, TypeOK, Holds, At, UpdateInstanceResult
  <2> QED
    BY <1>29, <1>t, <1>p, <2>1, StopType DEF CancelWrite, TypeOK
<1>30. ASSUME NEW w \in Workers, NEW i \in Ids, RunStart(w, i) PROVE TypeOK'
  BY <1>30, <1>t, RunType, Zenon DEF RunStart, TypeOK, RunPCs
<1>31. ASSUME NEW w \in Workers, NEW i \in Ids, RunReportRunning(w, i) PROVE TypeOK'
  <2>1. exec' \in [Workers -> [Ids -> Runs]]
    <3>1. /\ [exec EXCEPT ![w][i].pc = "waitRunning"] \in [Workers -> [Ids -> Runs]]
          /\ [exec EXCEPT ![w][i].pc = "executing"] \in [Workers -> [Ids -> Runs]]
      BY <1>t, RunType, Zenon DEF RunPCs
    <3> QED
      BY <1>31, <3>1, Zenon DEF RunReportRunning
  <2>2. thr' \in [Threads -> ThreadStates]
    BY <1>31, <1>t, HandleType, Zenon DEF RunReportRunning, TypeOK
  <2> QED
    BY <1>31, <1>t, <2>1, <2>2 DEF RunReportRunning, TypeOK
<1>32. ASSUME NEW w \in Workers, NEW i \in Ids, RunExecute(w, i) PROVE TypeOK'
  <2>1. PICK o \in Outcomes :
           /\ exec' = [exec EXCEPT ![w][i] = [pc |-> "finished", out |-> o]]
           /\ ended' = ended \cup {<<w, i, o>>}
    BY <1>32, Zenon DEF RunExecute
  <2>2. [pc |-> "finished", out |-> o] \in Runs
    BY DEF Runs, RunPCs
  <2>3. exec' \in [Workers -> [Ids -> Runs]]
    BY <1>t, <2>1, <2>2, Update2 DEF TypeOK
  <2> QED
    BY <1>32, <1>t, <2>1, <2>3 DEF RunExecute, TypeOK
<1>33. ASSUME NEW w \in Workers, NEW i \in Ids, RunReportFinal(w, i) PROVE TypeOK'
  <2>1. exec' \in [Workers -> [Ids -> Runs]]
    <3>1. /\ [exec EXCEPT ![w][i].pc = "waitFinal"] \in [Workers -> [Ids -> Runs]]
          /\ [exec EXCEPT ![w][i].pc = "done"] \in [Workers -> [Ids -> Runs]]
      BY <1>t, RunType, Zenon DEF RunPCs
    <3> QED
      BY <1>33, <3>1, Zenon DEF RunReportFinal
  <2>2. exec[w][i].out \in Outcomes
    <3>1. exec[w][i] \in Runs
      BY <1>t DEF TypeOK
    <3>2. exec[w][i].out # "none"
      BY <1>33, Zenon DEF RunReportFinal, IInv, WorkersOK, ExecOK
    <3> QED
      BY <3>1, <3>2 DEF Runs
  <2>3. thr' \in [Threads -> ThreadStates]
    BY <1>33, <1>t, <2>2, HandleType, Zenon DEF RunReportFinal, TypeOK
  <2>4. buf' \in [Workers -> [Ids -> {"none"} \cup Outcomes]]
    <3>1. [buf EXCEPT ![w][i] = exec[w][i].out]
             \in [Workers -> [Ids -> {"none"} \cup Outcomes]]
      BY <1>t, <2>2, Update2 DEF TypeOK
    <3> QED
      BY <1>33, <1>t, <3>1, Zenon DEF RunReportFinal, TypeOK
  <2> QED
    BY <1>33, <1>t, <2>1, <2>3, <2>4 DEF RunReportFinal, TypeOK
<1>34. ASSUME NEW w \in Workers, NEW i \in Ids, FlushSend(w, i) PROVE TypeOK'
  <2>1. buf[w][i] \in Outcomes
    BY <1>34, <1>t DEF FlushSend, TypeOK
  <2> QED
    BY <1>34, <1>t, <2>1, HandleType, Zenon DEF FlushSend, TypeOK
<1>35. ASSUME NEW w \in Workers, NEW i \in Ids, EvictDedup(w, i) PROVE TypeOK'
  <2>1. NoRun \in Runs
    BY DEF NoRun, Runs, RunPCs
  <2> QED
    BY <1>35, <1>t, <2>1, Update2 DEF EvictDedup, TypeOK
<1>36. CASE SchedulerCrash
  <2>1. \A w \in Workers, i \in Ids : exec[w][i] \in Runs
    BY <1>t DEF TypeOK
  <2>2. exec' \in [Workers -> [Ids -> Runs]]
    <3>1. \A w \in Workers, i \in Ids, pc \in RunPCs : [exec[w][i] EXCEPT !.pc = pc] \in Runs
      BY <2>1 DEF Runs
    <3>2. \A w \in Workers, i \in Ids :
             (IF exec[w][i].pc = "waitRunning" THEN "executing"
              ELSE IF exec[w][i].pc = "waitFinal" THEN "done" ELSE exec[w][i].pc) \in RunPCs
      BY <2>1 DEF Runs, RunPCs
    <3> QED
      BY <1>36, <3>1, <3>2 DEF SchedulerCrash
  <2>3. buf' \in [Workers -> [Ids -> {"none"} \cup Outcomes]]
    BY <1>36, <1>t, <2>1 DEF SchedulerCrash, Runs, TypeOK
  <2> QED
    BY <1>36, <1>t, <2>2, <2>3, IdleType DEF SchedulerCrash, TypeOK
<1>37. ASSUME NEW w \in Workers, WorkerCrash(w) PROVE TypeOK'
  <2>1. \A t \in Threads : [thr[t] EXCEPT !.awaited = FALSE] \in ThreadStates
    <3>1. \A t \in Threads : thr[t] \in ThreadStates
      BY <1>t DEF TypeOK
    <3> QED
      BY <3>1, Zenon DEF ThreadStates
  <2>2. thr' \in [Threads -> ThreadStates]
    BY <1>37, <1>t, <2>1 DEF WorkerCrash, TypeOK
  <2>3. exec' \in [Workers -> [Ids -> Runs]]
    BY <1>37, <1>t DEF WorkerCrash, TypeOK, NoRun, Runs, RunPCs
  <2> QED
    BY <1>37, <1>t, <2>2, <2>3 DEF WorkerCrash, TypeOK
<1>38. CASE UNCHANGED vars
  BY <1>38, <1>t DEF vars, TypeOK
<1> QED
  BY <1>1, <1>2, <1>3, <1>4, <1>5, <1>6, <1>7, <1>8, <1>9, <1>10, <1>11, <1>12,
     <1>13, <1>14, <1>15, <1>16, <1>17, <1>18, <1>19, <1>20, <1>21, <1>22, <1>23,
     <1>24, <1>25, <1>26, <1>27, <1>28, <1>29, <1>30, <1>31, <1>32, <1>33, <1>34,
     <1>35, <1>36, <1>37, <1>38
     DEF Next, Trigger, Retry, ReportStatus, Worker

--------------------------------------------------------------------------------
(* Goroutines.                                                             *)

(* A goroutine that does not move, or whose client at most stops waiting,   *)
(* keeps what it holds: rows do not disappear under it.                    *)
LEMMA ThreadFrame ==
    ASSUME IInv, Grows, NEW t \in Threads,
           thr'[t].pc = thr[t].pc, thr'[t].id = thr[t].id, thr'[t].w = thr[t].w,
           thr'[t].src = thr[t].src, thr'[t].from = thr[t].from, thr'[t].st = thr[t].st,
           thr'[t].awaited => thr[t].awaited
    PROVE  Holds(t)' /\ (t \in Reporters => Reports(t)')
<1>1. Holds(t) /\ (t \in Reporters => Reports(t))
  BY DEF IInv, ThreadsOK
<1>2. Holds(t)'
  BY <1>1 DEF Holds, Grows
<1>3. ASSUME t \in Reporters PROVE Reports(t)'
  BY <1>1, <1>3 DEF Reports, Grows, retryWanted
<1> QED
  BY <1>2, <1>3

(* A step of one goroutine is a matter of that goroutine alone.            *)
LEMMA OneThread ==
    ASSUME IInv, Grows, NEW t \in Threads,
           \A u \in Threads \ {t} : thr'[u] = thr[u],
           Holds(t)', t \in Reporters => Reports(t)',
           \A i \in scan' : Exists(i)'
    PROVE  ThreadsOK'
<1>1. \A u \in Threads \ {t} : Holds(u)' /\ (u \in Reporters => Reports(u)')
  BY ThreadFrame
<1>2. Reporters \subseteq Threads
  BY DEF Threads
<1> QED
  BY <1>1, <1>2 DEF ThreadsOK

(* The retry loop's snapshot only holds rows that exist.                   *)
LEMMA ScanFrame ==
    ASSUME IInv, Grows, scan' \subseteq scan
    PROVE  \A i \in scan' : Exists(i)'
BY DEF IInv, TypeOK, ThreadsOK, Grows

(* A goroutine that ends holds nothing.                                    *)
LEMMA StopThread ==
    ASSUME IInv, Grows, NEW t \in Threads, Stop(t), scan' \subseteq scan
    PROVE  ThreadsOK'
<1>1. thr'[t] = Idle /\ \A u \in Threads \ {t} : thr'[u] = thr[u]
  BY DEF IInv, TypeOK, Stop
<1>2. Holds(t)' /\ Reports(t)'
  BY <1>1 DEF Holds, Reports, Idle
<1> QED
  BY <1>1, <1>2, OneThread, ScanFrame

(* The retry loop between two instances holds nothing.                     *)
LEMMA ContinueThread ==
    ASSUME IInv, Grows, Continue, \A i \in scan' : Exists(i)'
    PROVE  ThreadsOK'
<1>1. /\ Retrier \in Threads
      /\ Retrier \notin Creators /\ Retrier \notin Reporters
  BY ThreadsDistinct DEF Threads
<1>2. /\ thr'[Retrier].pc = "next"
      /\ \A u \in Threads \ {Retrier} : thr'[u] = thr[u]
  BY <1>1 DEF IInv, TypeOK, Continue, Idle
<1>3. Holds(Retrier)'
  BY <1>1, <1>2 DEF Holds
<1> QED
  BY <1>1, <1>2, <1>3, OneThread

(* A goroutine that has picked a worker holds it, with the row.            *)
LEMMA PickThread ==
    ASSUME IInv, Grows, NEW t \in Threads, At(t, "pick"), NEW w \in Workers,
           thr' = [thr EXCEPT ![t].pc = "write", ![t].w = w], scan' = scan
    PROVE  ThreadsOK'
<1>1. thr[t] \in ThreadStates
  BY DEF IInv, TypeOK
<1>2. /\ thr'[t] = [thr[t] EXCEPT !.pc = "write", !.w = w]
      /\ \A u \in Threads \ {t} : thr'[u] = thr[u]
  BY DEF IInv, TypeOK
<1>3. /\ thr'[t].pc = "write" /\ thr'[t].w = w /\ thr'[t].id = thr[t].id
      /\ thr'[t].src = thr[t].src /\ thr'[t].from = thr[t].from
      /\ thr'[t].st = thr[t].st
  <2> DEFINE mid == [thr[t] EXCEPT !.pc = "write"]
  <2>1. /\ mid \in ThreadStates
        /\ mid.pc = "write" /\ mid.id = thr[t].id /\ mid.src = thr[t].src
        /\ mid.from = thr[t].from /\ mid.st = thr[t].st
    BY <1>1 DEF ThreadStates, PCs
  <2>2. thr'[t] = [mid EXCEPT !.w = w]
    BY <1>1, <1>2 DEF ThreadStates
  <2> HIDE DEF mid
  <2> QED
    BY <2>1, <2>2 DEF ThreadStates
<1>4. Holds(t) /\ (t \in Reporters => Reports(t))
  BY DEF IInv, ThreadsOK
<1>5. Holds(t)'
  BY <1>3, <1>4 DEF Holds, Grows, At
<1>6. ASSUME t \in Reporters PROVE Reports(t)'
  BY <1>3, <1>4, <1>6, Zenon DEF Reports, Grows, At
<1> QED
  BY <1>2, <1>5, <1>6, OneThread, ScanFrame, Zenon

(* A goroutine that goes on with its dispatch or its cancellation keeps the *)
(* row and the worker it has.                                              *)
LEMMA AdvanceThread ==
    ASSUME IInv, Grows, NEW t \in Threads, NEW pc, Goto(t, pc), scan' = scan,
           \/ At(t, "write") /\ pc = "send"
           \/ At(t, "send") /\ pc = "fail"
           \/ At(t, "notify") /\ pc = "cancel" /\ t \in Cancellers
    PROVE  ThreadsOK'
<1>1. thr[t] \in ThreadStates
  BY DEF IInv, TypeOK
<1>2. /\ thr'[t] = [thr[t] EXCEPT !.pc = pc]
      /\ \A u \in Threads \ {t} : thr'[u] = thr[u]
  BY DEF IInv, TypeOK, Goto
<1>3. /\ thr'[t].pc = pc /\ thr'[t].w = thr[t].w /\ thr'[t].id = thr[t].id
      /\ thr'[t].src = thr[t].src /\ thr'[t].from = thr[t].from
      /\ thr'[t].st = thr[t].st
  BY <1>1, <1>2 DEF ThreadStates
<1>4. Holds(t) /\ (t \in Reporters => Reports(t))
  BY DEF IInv, ThreadsOK
<1>5. t \in Cancellers => t \notin Creators /\ t \notin Reporters
  BY ThreadsDistinct
<1>6. Holds(t)'
  BY <1>3, <1>4, <1>5 DEF Holds, Grows, At
<1>7. ASSUME t \in Reporters PROVE Reports(t)'
  BY <1>3, <1>4, <1>7 DEF Reports, Grows, At
<1> QED
  BY <1>2, <1>6, <1>7, OneThread, ScanFrame

(* A handler that goes on with its report keeps the report.                *)
LEMMA HandlerGoes ==
    ASSUME IInv, Grows, NEW r \in Reporters, NEW pc, Goto(r, pc), scan' = scan,
           \/ At(r, "read") /\ pc = "result"
           \/ At(r, "result") /\ pc = "retry" /\ thr[r].st # "running"
           \/ At(r, "retry") /\ pc = "create" /\ retryWanted(thr[r].src, thr[r].st)
    PROVE  ThreadsOK'
<1>1. r \in Threads /\ r \notin Creators
  BY ThreadsDistinct DEF Threads
<1>2. thr[r] \in ThreadStates
  BY <1>1 DEF IInv, TypeOK
<1>3. /\ thr'[r] = [thr[r] EXCEPT !.pc = pc]
      /\ \A u \in Threads \ {r} : thr'[u] = thr[u]
  BY <1>1 DEF IInv, TypeOK, Goto
<1>4. /\ thr'[r].pc = pc /\ thr'[r].src = thr[r].src
      /\ thr'[r].from = thr[r].from /\ thr'[r].st = thr[r].st
  BY <1>2, <1>3 DEF ThreadStates
<1>5. Reports(r)
  BY DEF IInv, ThreadsOK
<1>6. Holds(r)'
  BY <1>1, <1>4 DEF Holds
<1>7. Reports(r)'
  BY <1>4, <1>5 DEF Reports, Grows, At, retryWanted
<1> QED
  BY <1>1, <1>3, <1>6, <1>7, OneThread, ScanFrame

(* A handler that takes a report up holds it as the worker sent it.        *)
LEMMA HandleThread ==
    ASSUME IInv, Grows, NEW r \in Reporters, NEW w \in Workers, NEW i \in Ids,
           NEW s, NEW b, Handle(r, w, i, s, b), scan' = scan,
           Exists(i), s # "none", s # "running" => <<w, i, s>> \in ended
    PROVE  ThreadsOK'
<1>1. r \in Threads /\ r \notin Creators
  BY ThreadsDistinct DEF Threads
<1>2. /\ thr'[r].pc = "read" /\ thr'[r].src = i /\ thr'[r].from = w /\ thr'[r].st = s
      /\ \A u \in Threads \ {r} : thr'[u] = thr[u]
  BY <1>1 DEF IInv, TypeOK, Handle, Idle
<1>3. Holds(r)'
  BY <1>1, <1>2 DEF Holds
<1>4. Reports(r)'
  BY <1>2 DEF Reports, Grows
<1> QED
  BY <1>1, <1>2, <1>3, <1>4, OneThread, ScanFrame

(* Behind the lemma: each step moves one goroutine, which hands on what it  *)
(* holds, and restarts only take things away.                              *)
LEMMA StepThreadsOK == IInv /\ [Next]_vars => ThreadsOK'
<1> SUFFICES ASSUME IInv, [Next]_vars PROVE ThreadsOK'
  OBVIOUS
<1>g. Grows
  BY StepGrows
<1>t. TypeOK
  BY DEF IInv
<1>m. \A t \in Creators \cup Reporters \cup Cancellers \cup {Retrier} : t \in Threads
  BY DEF Threads
<1>n. /\ \A c \in Creators : c \notin Reporters
      /\ \A c \in Cancellers : c \notin Reporters /\ c \notin Creators
      /\ \A r \in Reporters : r \notin Creators
      /\ Retrier \notin Creators /\ Retrier \notin Reporters
  BY ThreadsDistinct
<1>u. UNCHANGED <<thr, scan>> => ThreadsOK'
  <2> SUFFICES ASSUME UNCHANGED <<thr, scan>> PROVE ThreadsOK'
    OBVIOUS
  <2>1. \A t \in Threads : Holds(t)' /\ (t \in Reporters => Reports(t)')
    BY <1>g, ThreadFrame
  <2> QED
    BY <1>g, <1>m, <2>1, ScanFrame DEF ThreadsOK
<1>1. ASSUME NEW c \in Creators, TriggerCreate(c) PROVE ThreadsOK'
  <2>1. PICK i \in Ids :
           /\ CreateInstance(i, "pending", 0, TRUE, 0)
           /\ thr' = [thr EXCEPT ![c] = [Idle EXCEPT !.pc = "pick", !.id = i]]
    BY <1>1, Zenon DEF TriggerCreate
  <2>2. /\ thr'[c].pc = "pick" /\ thr'[c].id = i
        /\ \A u \in Threads \ {c} : thr'[u] = thr[u]
    BY <1>t, <1>m, <2>1 DEF TypeOK, Idle
  <2>3. Exists(i)' /\ rows'[i].parent = 0
    BY <1>t, <2>1 DEF TypeOK, CreateInstance, Exists
  <2>4. Holds(c)'
    BY <2>2, <2>3 DEF Holds
  <2> QED
    BY <1>1, <1>g, <1>m, <1>n, <2>2, <2>4, OneThread, ScanFrame DEF TriggerCreate
<1>2. ASSUME NEW c \in Creators, TriggerNoWorker(c) PROVE ThreadsOK'
  BY <1>2, <1>g, <1>m, StopThread DEF TriggerNoWorker
<1>3. ASSUME NEW c \in Creators, TriggerPick(c) PROVE ThreadsOK'
  BY <1>3, <1>g, <1>m, PickThread, Zenon DEF TriggerPick
<1>4. ASSUME NEW c \in Creators, TriggerWrite(c) PROVE ThreadsOK'
  BY <1>4, <1>g, <1>m, AdvanceThread DEF TriggerWrite
<1>5. ASSUME NEW c \in Creators, TriggerSend(c) PROVE ThreadsOK'
  BY <1>5, <1>g, <1>m, AdvanceThread, StopThread DEF TriggerSend
<1>6. ASSUME NEW c \in Creators, TriggerFail(c) PROVE ThreadsOK'
  BY <1>6, <1>g, <1>m, StopThread DEF TriggerFail
<1>7. ASSUME NEW i \in Ids, RetryFallsDue(i) PROVE ThreadsOK'
  BY <1>7, <1>u DEF RetryFallsDue
<1>8. CASE RetryScan
  <2>1. \A i \in scan' : Exists(i)'
    BY <1>8, <1>g DEF RetryScan, DueRetries, Grows, Exists
  <2> QED
    BY <1>8, <1>g, <2>1, ContinueThread DEF RetryScan
<1>9. CASE RetryDone
  BY <1>9, <1>g, <1>m, StopThread DEF RetryDone
<1>10. CASE RetryNext
  <2>1. PICK i \in scan :
           /\ scan' = scan \ {i}
           /\ \/ thr' = [thr EXCEPT ![Retrier].pc = "pick", ![Retrier].id = i]
              \/ UNCHANGED thr
    BY <1>10 DEF RetryNext
  <2>2. i \in Ids /\ Exists(i)' /\ scan' \subseteq scan
    BY <1>t, <1>g, <2>1 DEF IInv, ThreadsOK, Grows, TypeOK
  <2>3. CASE thr' = [thr EXCEPT ![Retrier].pc = "pick", ![Retrier].id = i]
    <3>1. thr[Retrier] \in ThreadStates
      BY <1>t, <1>m DEF TypeOK
    <3>2. /\ thr'[Retrier] = [thr[Retrier] EXCEPT !.pc = "pick", !.id = i]
          /\ \A u \in Threads \ {Retrier} : thr'[u] = thr[u]
      BY <1>t, <1>m, <2>3, Zenon DEF TypeOK
    <3>3. thr'[Retrier].pc = "pick" /\ thr'[Retrier].id = i
      BY <3>1, <3>2 DEF ThreadStates
    <3>4. Holds(Retrier)'
      BY <1>n, <2>2, <3>3 DEF Holds
    <3> QED
      BY <1>g, <1>m, <1>n, <2>2, <3>2, <3>4, OneThread, ScanFrame
  <2>4. CASE UNCHANGED thr
    <3>1. \A t \in Threads : Holds(t)' /\ (t \in Reporters => Reports(t)')
      BY <1>g, <2>4, ThreadFrame
    <3> QED
      BY <1>g, <1>m, <2>2, <3>1, ScanFrame DEF ThreadsOK
  <2> QED
    BY <2>1, <2>3, <2>4
<1>11. CASE RetryPick
  BY <1>11, <1>g, <1>m, PickThread, Zenon DEF RetryPick
<1>12. CASE RetryNoWorker
  BY <1>12, <1>g, <1>m, StopThread, ContinueThread, ScanFrame DEF RetryNoWorker
<1>13. CASE RetryWrite
  BY <1>13, <1>g, <1>m, AdvanceThread, ContinueThread, ScanFrame DEF RetryWrite
<1>14. CASE RetrySend
  BY <1>14, <1>g, <1>m, AdvanceThread, ContinueThread, ScanFrame DEF RetrySend
<1>15. CASE RetryFail
  BY <1>15, <1>g, ContinueThread, ScanFrame DEF RetryFail
<1>16. ASSUME NEW r \in Reporters, ReportRead(r) PROVE ThreadsOK'
  BY <1>16, <1>g, <1>m, StopThread, HandlerGoes, Zenon DEF ReportRead
<1>17. ASSUME NEW r \in Reporters, ReportResult(r) PROVE ThreadsOK'
  BY <1>17, <1>g, <1>m, StopThread, HandlerGoes, Zenon DEF ReportResult
<1>18. ASSUME NEW r \in Reporters, ReportDecide(r) PROVE ThreadsOK'
  BY <1>18, <1>g, <1>m, StopThread, HandlerGoes, Zenon DEF ReportDecide
<1>19. ASSUME NEW r \in Reporters, ReportCreate(r) PROVE ThreadsOK'
  <2>1. PICK i \in Ids :
           /\ CreateInstance(i, IF Backoff THEN "retry_waiting" ELSE "pending",
                             rows[thr[r].src].retryCount + 1, ~Backoff, thr[r].src)
           /\ IF Backoff THEN Stop(r)
              ELSE thr' = [thr EXCEPT ![r].pc = "pick", ![r].id = i]
    BY <1>19, Zenon DEF ReportCreate
  <2>2. CASE Backoff
    BY <1>19, <1>g, <1>m, <2>1, <2>2, StopThread DEF ReportCreate
  <2>3. CASE ~Backoff
    <3>1. thr[r] \in ThreadStates
      BY <1>t, <1>m DEF TypeOK
    <3>2. /\ thr'[r] = [thr[r] EXCEPT !.pc = "pick", !.id = i]
          /\ \A u \in Threads \ {r} : thr'[u] = thr[u]
      BY <1>t, <1>m, <2>1, <2>3, Zenon DEF TypeOK
    <3>3. /\ thr'[r].pc = "pick" /\ thr'[r].id = i /\ thr'[r].src = thr[r].src
          /\ thr'[r].from = thr[r].from /\ thr'[r].st = thr[r].st
      BY <3>1, <3>2 DEF ThreadStates
    <3>4. Exists(i)'
      BY <1>t, <2>1, <2>3 DEF TypeOK, CreateInstance, Exists
    <3>5. Holds(r)'
      BY <1>n, <3>3, <3>4 DEF Holds
    <3>6. Reports(r)
      BY DEF IInv, ThreadsOK
    <3>7. Reports(r)'
      BY <1>19, <1>g, <3>3, <3>6 DEF Reports, Grows, ReportCreate, At
    <3> QED
      BY <1>19, <1>g, <1>m, <3>2, <3>5, <3>7, OneThread, ScanFrame DEF ReportCreate
  <2> QED
    BY <2>2, <2>3
<1>20. ASSUME NEW r \in Reporters, ReportPick(r) PROVE ThreadsOK'
  BY <1>20, <1>g, <1>m, PickThread, Zenon DEF ReportPick
<1>21. ASSUME NEW r \in Reporters, ReportNoWorker(r) PROVE ThreadsOK'
  BY <1>21, <1>g, <1>m, StopThread DEF ReportNoWorker
<1>22. ASSUME NEW r \in Reporters, ReportWrite(r) PROVE ThreadsOK'
  BY <1>22, <1>g, <1>m, AdvanceThread DEF ReportWrite
<1>23. ASSUME NEW r \in Reporters, ReportSend(r) PROVE ThreadsOK'
  BY <1>23, <1>g, <1>m, AdvanceThread, StopThread, Zenon DEF ReportSend
<1>24. ASSUME NEW r \in Reporters, ReportFail(r) PROVE ThreadsOK'
  BY <1>24, <1>g, <1>m, StopThread DEF ReportFail
<1>25. ASSUME NEW r \in Reporters, ReportAbort(r) PROVE ThreadsOK'
  BY <1>25, <1>g, <1>m, StopThread DEF ReportAbort
<1>26. ASSUME NEW r \in Reporters, ReportTimeout(r) PROVE ThreadsOK'
  <2>1. thr[r] \in ThreadStates
    BY <1>t, <1>m DEF TypeOK
  <2>2. /\ thr'[r] = [thr[r] EXCEPT !.awaited = FALSE]
        /\ \A u \in Threads \ {r} : thr'[u] = thr[u]
    BY <1>26, <1>t, <1>m, Zenon DEF TypeOK, ReportTimeout
  <2>3. /\ thr'[r].pc = thr[r].pc /\ thr'[r].id = thr[r].id /\ thr'[r].w = thr[r].w
        /\ thr'[r].src = thr[r].src /\ thr'[r].from = thr[r].from
        /\ thr'[r].st = thr[r].st /\ thr'[r].awaited = FALSE
    BY <2>1, <2>2 DEF ThreadStates
  <2>4. Holds(r)' /\ Reports(r)'
    BY <1>g, <1>m, <2>3, ThreadFrame
  <2> QED
    BY <1>26, <1>g, <1>m, <2>2, <2>4, OneThread, ScanFrame DEF ReportTimeout
<1>27. ASSUME NEW c \in Cancellers, NEW i \in Ids, CancelRead(c, i) PROVE ThreadsOK'
  <2>1. /\ thr'[c].pc = "notify" /\ thr'[c].id = i
        /\ \A u \in Threads \ {c} : thr'[u] = thr[u]
    BY <1>27, <1>t, <1>m DEF TypeOK, CancelRead, Idle
  <2>2. Holds(c)'
    BY <1>27, <1>g, <1>n, <2>1 DEF Holds, CancelRead, Grows
  <2> QED
    BY <1>27, <1>g, <1>m, <1>n, <2>1, <2>2, OneThread, ScanFrame DEF CancelRead
<1>28. ASSUME NEW c \in Cancellers, CancelNotify(c) PROVE ThreadsOK'
  BY <1>28, <1>g, <1>m, AdvanceThread DEF CancelNotify
<1>29. ASSUME NEW c \in Cancellers, CancelWrite(c) PROVE ThreadsOK'
  BY <1>29, <1>g, <1>m, StopThread DEF CancelWrite
<1>30. ASSUME NEW w \in Workers, NEW i \in Ids, RunStart(w, i) PROVE ThreadsOK'
  BY <1>30, <1>u DEF RunStart
<1>31. ASSUME NEW w \in Workers, NEW i \in Ids, RunReportRunning(w, i) PROVE ThreadsOK'
  <2>1. Exists(i)
    BY <1>31, Zenon DEF IInv, WorkersOK, ExecOK, RunReportRunning
  <2> QED
    BY <1>31, <1>g, <1>u, <2>1, HandleThread, Zenon DEF RunReportRunning
<1>32. ASSUME NEW w \in Workers, NEW i \in Ids, RunExecute(w, i) PROVE ThreadsOK'
  BY <1>32, <1>u DEF RunExecute
<1>33. ASSUME NEW w \in Workers, NEW i \in Ids, RunReportFinal(w, i) PROVE ThreadsOK'
  <2>1. Exists(i) /\ exec[w][i].out # "none" /\ <<w, i, exec[w][i].out>> \in ended
    BY <1>33 DEF IInv, WorkersOK, ExecOK, RunReportFinal
  <2> QED
    BY <1>33, <1>g, <1>u, <2>1, HandleThread, Zenon DEF RunReportFinal
<1>34. ASSUME NEW w \in Workers, NEW i \in Ids, FlushSend(w, i) PROVE ThreadsOK'
  <2>1. Exists(i) /\ <<w, i, buf[w][i]>> \in ended
    BY <1>34 DEF IInv, WorkersOK, BufOK, FlushSend
  <2> QED
    BY <1>34, <1>g, <2>1, HandleThread, Zenon DEF FlushSend
<1>35. ASSUME NEW w \in Workers, NEW i \in Ids, EvictDedup(w, i) PROVE ThreadsOK'
  BY <1>35, <1>u DEF EvictDedup
<1>36. CASE SchedulerCrash
  BY <1>36 DEF SchedulerCrash, ThreadsOK, Holds, Reports, Idle, Threads
<1>37. ASSUME NEW w \in Workers, WorkerCrash(w) PROVE ThreadsOK'
  <2>1. ASSUME NEW t \in Threads PROVE Holds(t)' /\ (t \in Reporters => Reports(t)')
    <3>1. thr[t] \in ThreadStates
      BY <1>t DEF TypeOK
    <3>2. thr'[t] = IF thr[t].from = w THEN [thr[t] EXCEPT !.awaited = FALSE] ELSE thr[t]
      BY <1>37 DEF WorkerCrash
    <3>3. /\ thr'[t].pc = thr[t].pc /\ thr'[t].id = thr[t].id /\ thr'[t].w = thr[t].w
          /\ thr'[t].src = thr[t].src /\ thr'[t].from = thr[t].from
          /\ thr'[t].st = thr[t].st /\ (thr'[t].awaited => thr[t].awaited)
      BY <3>1, <3>2 DEF ThreadStates
    <3> QED
      BY <1>g, <3>3, ThreadFrame
  <2> QED
    BY <1>37, <1>g, <1>m, <2>1, ScanFrame DEF WorkerCrash, ThreadsOK
<1>38. CASE UNCHANGED vars
  BY <1>38, <1>u DEF vars
<1> QED
  BY <1>1, <1>2, <1>3, <1>4, <1>5, <1>6, <1>7, <1>8, <1>9, <1>10, <1>11, <1>12,
     <1>13, <1>14, <1>15, <1>16, <1>17, <1>18, <1>19, <1>20, <1>21, <1>22, <1>23,
     <1>24, <1>25, <1>26, <1>27, <1>28, <1>29, <1>30, <1>31, <1>32, <1>33, <1>34,
     <1>35, <1>36, <1>37, <1>38
     DEF Next, Trigger, Retry, ReportStatus, Worker

--------------------------------------------------------------------------------
(* Workers.                                                                *)

(* A request that leaves the inbox, or one sent for a row the dispatcher    *)
(* holds, leaves only requests for existing rows.                          *)
LEMMA InboxKept ==
    ASSUME IInv, Grows, inbox' \subseteq inbox
    PROVE  InboxOK'
BY DEF IInv, WorkersOK, InboxOK, Grows

(* Dispatch adds a request for the row the dispatcher holds.                 *)
LEMMA InboxSent ==
    ASSUME IInv, Grows, NEW t \in Threads, At(t, "send"), DispatchOK(t)
    PROVE  InboxOK'
<1>1. thr[t].id \in Ids /\ Exists(thr[t].id)
  BY DEF IInv, ThreadsOK, Holds, At
<1> QED
  BY <1>1 DEF IInv, WorkersOK, InboxOK, Grows, DispatchOK

(* A failed Dispatch adds a request for an existing row, or none.            *)
LEMMA InboxFailed ==
    ASSUME IInv, Grows, NEW t \in Threads, At(t, "send"), DispatchErr(t)
    PROVE  InboxOK'
BY InboxKept, InboxSent DEF DispatchErr

(* Executions that do not move stay true while rows and history grow.        *)
LEMMA ExecKept ==
    ASSUME IInv, Grows, UNCHANGED exec
    PROVE  ExecOK'
BY DEF IInv, WorkersOK, ExecOK, Grows

(* Handler.run moves an execution; only Execute makes it finished.           *)
LEMMA ExecMoves ==
    ASSUME IInv, Grows, NEW v \in Workers, NEW j \in Ids, NEW pc \in RunPCs, Exists(j),
           exec' = [exec EXCEPT ![v][j].pc = pc],
           pc # "finished", pc = "waitFinal" => exec[v][j].pc = "finished"
    PROVE  ExecOK'
<1> SUFFICES ASSUME NEW w \in Workers, NEW i \in Ids
             PROVE  /\ exec'[w][i].pc # "none" => Exists(i)'
                    /\ exec'[w][i].pc \in {"finished", "waitFinal"} =>
                          exec'[w][i].out # "none" /\ <<w, i, exec'[w][i].out>> \in ended'
  BY DEF ExecOK
<1>1. exec[w][i] \in Runs
  BY DEF IInv, TypeOK
<1>2. CASE w = v /\ i = j
  <2>1. exec'[w][i] = [exec[w][i] EXCEPT !.pc = pc]
    BY <1>2 DEF IInv, TypeOK
  <2>2. exec'[w][i].pc = pc /\ exec'[w][i].out = exec[w][i].out
    BY <1>1, <2>1 DEF Runs
  <2> QED
    BY <1>2, <2>2 DEF IInv, WorkersOK, ExecOK, Grows
<1>3. CASE ~(w = v /\ i = j)
  <2>1. exec'[w][i] = exec[w][i]
    BY <1>3 DEF IInv, TypeOK
  <2> QED
    BY <2>1 DEF IInv, WorkersOK, ExecOK, Grows
<1> QED
  BY <1>2, <1>3

(* Buffered reports stay true while rows and history grow.                   *)
LEMMA BufKept ==
    ASSUME IInv, Grows, UNCHANGED buf
    PROVE  BufOK'
BY DEF IInv, WorkersOK, BufOK, Grows

(* Buffer and Remove leave a true report, or none.                           *)
LEMMA BufSet ==
    ASSUME IInv, Grows, NEW v \in Workers, NEW j \in Ids, NEW s,
           buf' = [buf EXCEPT ![v][j] = s],
           s # "none" => Exists(j) /\ <<v, j, s>> \in ended
    PROVE  BufOK'
<1> SUFFICES ASSUME NEW w \in Workers, NEW i \in Ids, buf'[w][i] # "none"
             PROVE  Exists(i)' /\ <<w, i, buf'[w][i]>> \in ended'
  BY DEF BufOK
<1>1. buf'[w][i] = IF w = v /\ i = j THEN s ELSE buf[w][i]
  BY DEF IInv, TypeOK
<1> QED
  BY <1>1 DEF IInv, WorkersOK, BufOK, Grows

(* Reply: what it tells the worker or leaves in the local store is true.   *)
LEMMA ReplyOK ==
    ASSUME IInv, Grows, NEW r \in Reporters, NEW ok \in BOOLEAN, Reply(r, ok)
    PROVE  ExecOK' /\ BufOK'
<1> DEFINE w == thr[r].from  i == thr[r].src
<1>1. ExecOK'
  <2>1. ASSUME w \in Workers, i \in Ids, Exists(i), NEW pc \in {"executing", "done"},
               exec' = [exec EXCEPT ![w][i].pc = pc]
        PROVE  ExecOK'
    BY <2>1, ExecMoves, ZenonT(60) DEF RunPCs
  <2> QED
    BY <2>1, ReplyCases, ExecKept, ZenonT(60)
<1>2. BufOK'
  <2>1. ASSUME w \in Workers, i \in Ids, NEW s \in {"none"} \cup Outcomes,
               buf' = [buf EXCEPT ![w][i] = s],
               s # "none" => Exists(i) /\ <<w, i, s>> \in ended
        PROVE  BufOK'
    BY <2>1, BufSet, Zenon
  <2> QED
    BY <2>1, ReplyCases, BufKept, Zenon
<1> QED
  BY <1>1, <1>2

(* Behind the lemma: only RunExecute makes a result, and all copies of it    *)
(* (in run, in the report, in the file) are made from it.                    *)
LEMMA StepWorkersOK == IInv /\ [Next]_vars => WorkersOK'
<1> SUFFICES ASSUME IInv, [Next]_vars PROVE WorkersOK'
  OBVIOUS
<1>g. Grows
  BY StepGrows
<1>t. TypeOK
  BY DEF IInv
<1>m. \A t \in Creators \cup Reporters \cup Cancellers \cup {Retrier} : t \in Threads
  BY DEF Threads
<1>u. UNCHANGED <<exec, buf>> => ExecOK' /\ BufOK'
  BY <1>g, ExecKept, BufKept
<1>i. UNCHANGED inbox => InboxOK'
  BY <1>g, InboxKept
<1>1. ASSUME NEW c \in Creators, Trigger(c) PROVE WorkersOK'
  <2>1. CASE TriggerSend(c)
    BY <1>g, <1>m, <1>u, <2>1, InboxSent, InboxFailed DEF TriggerSend, WorkersOK
  <2> QED
    BY <1>1, <1>u, <1>i, <2>1, Zenon DEF Trigger, TriggerCreate, TriggerNoWorker, TriggerPick,
       TriggerWrite, TriggerFail, WorkersOK
<1>2. ASSUME NEW i \in Ids, RetryFallsDue(i) PROVE WorkersOK'
  BY <1>2, <1>u, <1>i DEF RetryFallsDue, WorkersOK
<1>3. CASE Retry
  <2>1. CASE RetrySend
    BY <1>g, <1>m, <1>u, <2>1, InboxSent, InboxFailed DEF RetrySend, WorkersOK
  <2> QED
    BY <1>3, <1>u, <1>i, <2>1 DEF Retry, RetryScan, RetryDone, RetryNext, RetryPick,
       RetryNoWorker, RetryWrite, RetryFail, WorkersOK
<1>4. ASSUME NEW r \in Reporters, ReportStatus(r) \/ ReportTimeout(r) PROVE WorkersOK'
  <2>1. CASE ReportSend(r)
    <3>1. InboxOK'
      BY <1>g, <1>m, <2>1, InboxSent, InboxFailed, Zenon DEF ReportSend
    <3> QED
      BY <1>g, <1>u, <2>1, <3>1, ReplyOK, Zenon DEF ReportSend, WorkersOK
  <2>2. CASE ReportCreate(r)
    BY <1>g, <1>u, <1>i, <2>2, ReplyOK, Zenon DEF ReportCreate, WorkersOK
  <2>3. ASSUME UNCHANGED inbox, Reply(r, TRUE) \/ Reply(r, FALSE) \/ UNCHANGED <<exec, buf>>
        PROVE  WorkersOK'
    BY <1>g, <1>u, <1>i, <2>3, ReplyOK, ZenonT(60) DEF WorkersOK
  <2> QED
    BY <1>4, <2>1, <2>2, <2>3, Zenon DEF ReportStatus, ReportTimeout, ReportRead, ReportResult,
       ReportDecide, ReportPick, ReportNoWorker, ReportWrite, ReportFail, ReportAbort
<1>5. ASSUME NEW c \in Cancellers, NEW i \in Ids, CancelRead(c, i) PROVE WorkersOK'
  BY <1>5, <1>u, <1>i DEF CancelRead, WorkersOK
<1>6. ASSUME NEW c \in Cancellers, CancelNotify(c) PROVE WorkersOK'
  <2> DEFINE v == thr[c].w  j == thr[c].id
  <2>1. CASE UNCHANGED exec
    BY <1>6, <1>u, <1>i, <2>1 DEF CancelNotify, WorkersOK
  <2>2. CASE /\ v \in Workers /\ exec[v][j].pc = "executing"
             /\ exec' = [exec EXCEPT ![v][j].out = "failed"]
    <3>1. j \in Ids
      BY <1>6, <1>m, Zenon DEF CancelNotify, IInv, ThreadsOK, Holds, At
    <3>2. ASSUME NEW w \in Workers, NEW i \in Ids
          PROVE  /\ exec'[w][i].pc = exec[w][i].pc
                 /\ exec[w][i].pc # "executing" => exec'[w][i] = exec[w][i]
      <4>1. exec[w][i] \in Runs
        BY <1>t DEF TypeOK
      <4>2. CASE w = v /\ i = j
        <5>1. exec'[w][i] = [exec[w][i] EXCEPT !.out = "failed"]
          BY <1>t, <2>2, <4>2, Zenon DEF TypeOK
        <5> QED
          BY <2>2, <4>1, <4>2, <5>1, Zenon DEF Runs
      <4>3. CASE ~(w = v /\ i = j)
        BY <1>t, <2>2, <3>1, <4>3, Zenon DEF TypeOK
      <4> QED
        BY <4>2, <4>3
    <3>3. ExecOK'
      BY <1>g, <3>2, ZenonT(60) DEF IInv, WorkersOK, ExecOK, Grows
    <3> QED
      BY <1>6, <1>g, <1>i, <3>3, BufKept DEF CancelNotify, WorkersOK
  <2> QED
    BY <1>6, <2>1, <2>2, Zenon DEF CancelNotify
<1>7. ASSUME NEW c \in Cancellers, CancelWrite(c) PROVE WorkersOK'
  BY <1>7, <1>u, <1>i DEF CancelWrite, WorkersOK
<1>8. ASSUME NEW w \in Workers, NEW i \in Ids, RunStart(w, i) PROVE WorkersOK'
  <2>1. Exists(i)
    BY <1>8 DEF RunStart, IInv, WorkersOK, InboxOK
  <2>2. InboxOK' /\ BufOK'
    BY <1>8, <1>g, InboxKept, BufKept DEF RunStart
  <2>3. ExecOK'
    BY <1>8, <1>g, <2>1, ExecKept, ExecMoves, Zenon DEF RunStart, RunPCs
  <2> QED
    BY <2>2, <2>3 DEF WorkersOK
<1>9. ASSUME NEW w \in Workers, NEW i \in Ids, RunReportRunning(w, i) PROVE WorkersOK'
  <2>1. Exists(i)
    BY <1>9, Zenon DEF RunReportRunning, IInv, WorkersOK, ExecOK
  <2>2. InboxOK' /\ BufOK'
    BY <1>9, <1>g, InboxKept, BufKept DEF RunReportRunning
  <2>3. ASSUME NEW pc \in {"waitRunning", "executing"},
               exec' = [exec EXCEPT ![w][i].pc = pc]
        PROVE  ExecOK'
    BY <1>g, <2>1, <2>3, ExecMoves, Zenon DEF RunPCs
  <2> QED
    BY <1>9, <2>2, <2>3, Zenon DEF WorkersOK, RunReportRunning
<1>10. ASSUME NEW w \in Workers, NEW i \in Ids, RunExecute(w, i) PROVE WorkersOK'
  <2>1. PICK o \in Outcomes :
           /\ exec' = [exec EXCEPT ![w][i] = [pc |-> "finished", out |-> o]]
           /\ ended' = ended \cup {<<w, i, o>>}
    BY <1>10, Zenon DEF RunExecute
  <2>2. o # "none" /\ Exists(i)
    BY <1>10, Parameters, Zenon DEF RunExecute, IInv, WorkersOK, ExecOK
  <2>3. InboxOK' /\ BufOK'
    BY <1>10, <1>g, InboxKept, BufKept DEF RunExecute
  <2>4. \A v \in Workers, j \in Ids :
           exec'[v][j] = IF v = w /\ j = i THEN [pc |-> "finished", out |-> o] ELSE exec[v][j]
    BY <1>t, <2>1 DEF TypeOK
  <2>5. ExecOK'
    BY <1>g, <2>1, <2>2, <2>4 DEF IInv, WorkersOK, ExecOK, Grows
  <2> QED
    BY <2>3, <2>5 DEF WorkersOK
<1>11. ASSUME NEW w \in Workers, NEW i \in Ids, RunReportFinal(w, i) PROVE WorkersOK'
  <2>1. Exists(i) /\ exec[w][i].out # "none" /\ <<w, i, exec[w][i].out>> \in ended
    BY <1>11 DEF RunReportFinal, IInv, WorkersOK, ExecOK
  <2>2. InboxOK'
    BY <1>11, <1>g, InboxKept DEF RunReportFinal
  <2>3. ASSUME NEW pc \in {"waitFinal", "done"}, exec' = [exec EXCEPT ![w][i].pc = pc]
        PROVE  ExecOK'
    BY <1>11, <1>g, <2>1, <2>3, ExecMoves, Zenon DEF RunPCs, RunReportFinal
  <2>4. BufOK'
    <3>1. CASE buf' = [buf EXCEPT ![w][i] = exec[w][i].out]
      BY <1>g, <2>1, <3>1, BufSet, Zenon
    <3> QED
      BY <1>11, <1>g, <3>1, BufKept, Zenon DEF RunReportFinal
  <2> QED
    BY <1>11, <2>2, <2>3, <2>4, Zenon DEF WorkersOK, RunReportFinal
<1>12. ASSUME NEW w \in Workers, NEW i \in Ids, FlushSend(w, i) PROVE WorkersOK'
  BY <1>12, <1>u, <1>i DEF FlushSend, WorkersOK
<1>13. ASSUME NEW w \in Workers, NEW i \in Ids, EvictDedup(w, i) PROVE WorkersOK'
  <2>1. \A v \in Workers, j \in Ids :
           exec'[v][j] = IF v = w /\ j = i THEN NoRun ELSE exec[v][j]
    BY <1>13, <1>t DEF TypeOK, EvictDedup
  <2>2. ExecOK'
    BY <1>g, <2>1 DEF IInv, WorkersOK, ExecOK, Grows, NoRun
  <2> QED
    BY <1>13, <1>g, <1>i, <2>2, BufKept DEF EvictDedup, WorkersOK
<1>14. CASE SchedulerCrash
  <2>1. ASSUME NEW w \in Workers, NEW i \in Ids
        PROVE  /\ exec'[w][i].out = exec[w][i].out
               /\ exec'[w][i].pc \in {"executing", "done", exec[w][i].pc}
               /\ exec[w][i].pc = "none" => exec'[w][i].pc = "none"
    <3>1. exec[w][i] \in Runs
      BY <1>t DEF TypeOK
    <3>2. \E pc \in {"executing", "done", exec[w][i].pc} :
             /\ exec'[w][i] = [exec[w][i] EXCEPT !.pc = pc]
             /\ exec[w][i].pc = "none" => pc = "none"
      BY <1>14, Zenon DEF SchedulerCrash
    <3> QED
      BY <3>1, <3>2 DEF Runs
  <2>2. ExecOK'
    BY <1>g, <2>1 DEF IInv, WorkersOK, ExecOK, Grows
  <2>3. \A w \in Workers, i \in Ids :
           buf'[w][i] = IF exec[w][i].pc = "waitFinal" THEN exec[w][i].out ELSE buf[w][i]
    BY <1>14 DEF SchedulerCrash
  <2>4. BufOK'
    BY <1>g, <2>3 DEF IInv, WorkersOK, ExecOK, BufOK, Grows
  <2> QED
    BY <1>14, <1>i, <2>2, <2>4 DEF SchedulerCrash, WorkersOK
<1>15. ASSUME NEW w \in Workers, WorkerCrash(w) PROVE WorkersOK'
  <2>1. \A v \in Workers, j \in Ids : exec'[v][j] = IF v = w THEN NoRun ELSE exec[v][j]
    BY <1>15, <1>t DEF TypeOK, WorkerCrash
  <2>2. ExecOK'
    BY <1>g, <2>1 DEF IInv, WorkersOK, ExecOK, Grows, NoRun
  <2>3. inbox' \subseteq inbox
    BY <1>15 DEF WorkerCrash
  <2> QED
    BY <1>15, <1>g, <2>2, <2>3, InboxKept, BufKept DEF WorkerCrash, WorkersOK
<1>16. CASE UNCHANGED vars
  BY <1>16, <1>u, <1>i DEF vars, WorkersOK
<1> QED
  BY <1>1, <1>2, <1>3, <1>4, <1>5, <1>6, <1>7, <1>8, <1>9, <1>10, <1>11, <1>12,
     <1>13, <1>14, <1>15, <1>16 DEF Next, Worker

--------------------------------------------------------------------------------
(* Rows.                                                                   *)

(* A step that creates no row and moves rows only to statuses they may have *)
(* keeps every retry and every result justified.                           *)
LEMMA RowsKept ==
    ASSUME IInv, Grows,
           \A i \in Ids : /\ rows'[i].parent = rows[i].parent
                          /\ rows'[i].retryCount = rows[i].retryCount
                          /\ Exists(i)' => Exists(i),
           \A i \in Ids : \/ rows'[i].status = rows[i].status
                          \/ rows'[i].status \notin {"success", "timeout", "failed"}
                          \/ rows'[i].status = "failed" /\ rows[i].parent = 0
                          \/ EndedWith(i, rows'[i].status)
    PROVE  RowsOK'
<1>1. \A o : \A i \in Ids : EndedWith(i, o) => EndedWith(i, o)'
  BY DEF EndedWith, Grows
<1>2. \A i \in Ids : rows[i].parent \in Ids \cup {0}
  BY DEF IInv, TypeOK, Rows
<1>3. RetryJustified'
  BY <1>1, <1>2 DEF IInv, RowsOK, RetryJustified, Grows
<1>4. ResultJustified'
  BY <1>1 DEF IInv, RowsOK, ResultJustified
<1>5. \A i \in Ids : ~Exists(i)' => rows'[i].parent = 0
  BY DEF IInv, RowsOK, Grows
<1> QED
  BY <1>3, <1>4, <1>5 DEF RowsOK

(* A step that leaves the table alone keeps it justified.                    *)
LEMMA RowsSame ==
    ASSUME IInv, Grows, UNCHANGED rows
    PROVE  RowsOK'
BY RowsKept DEF Exists

(* UpdateInstanceStatus, UpdateInstanceResult: a final status needs its execution. *)
LEMMA RowsStatus ==
    ASSUME IInv, Grows, NEW j \in Ids, NEW s \in Statuses, Exists(j),
           rows' = [rows EXCEPT ![j].status = s],
           \/ s \notin {"success", "timeout", "failed"}
           \/ s = "failed" /\ rows[j].parent = 0
           \/ EndedWith(j, s)
    PROVE  RowsOK'
<1>1. \A i \in Ids : rows[i] \in Rows
  BY DEF IInv, TypeOK
<1>2. \A i \in Ids : rows'[i] = IF i = j THEN [rows[i] EXCEPT !.status = s] ELSE rows[i]
  BY DEF IInv, TypeOK
<1>3. \A i \in Ids : /\ rows'[i].parent = rows[i].parent
                     /\ rows'[i].retryCount = rows[i].retryCount
                     /\ rows'[i].status = IF i = j THEN s ELSE rows[i].status
  BY <1>1, <1>2 DEF Rows
<1> QED
  BY <1>3, RowsKept DEF Exists

(* UpdateInstanceDispatch settles nothing.                                   *)
LEMMA RowsDispatch ==
    ASSUME IInv, Grows, NEW j \in Ids, NEW w \in Workers, Exists(j),
           UpdateInstanceDispatch(j, w)
    PROVE  RowsOK'
<1>1. \A i \in Ids : rows[i] \in Rows
  BY DEF IInv, TypeOK
<1>2. /\ \A i \in Ids \ {j} : rows'[i] = rows[i]
      /\ rows'[j] = [[rows[j] EXCEPT !.status = "dispatched"] EXCEPT !.worker = w]
  BY DEF IInv, TypeOK, UpdateInstanceDispatch
<1>3. \A i \in Ids : /\ rows'[i].parent = rows[i].parent
                     /\ rows'[i].retryCount = rows[i].retryCount
                     /\ rows'[i].status = IF i = j THEN "dispatched" ELSE rows[i].status
  <2>1. /\ [rows[j] EXCEPT !.status = "dispatched"] \in Rows
        /\ [rows[j] EXCEPT !.status = "dispatched"].status = "dispatched"
        /\ [rows[j] EXCEPT !.status = "dispatched"].parent = rows[j].parent
        /\ [rows[j] EXCEPT !.status = "dispatched"].retryCount = rows[j].retryCount
    BY <1>1 DEF Rows, Statuses
  <2> DEFINE mid == [rows[j] EXCEPT !.status = "dispatched"]
  <2>2. rows'[j] = [mid EXCEPT !.worker = w] /\ mid \in Rows
    BY <1>2, <2>1
  <2>3. /\ mid.status = "dispatched" /\ mid.parent = rows[j].parent
        /\ mid.retryCount = rows[j].retryCount
    BY <2>1
  <2> HIDE DEF mid
  <2> QED
    BY <1>2, <2>2, <2>3 DEF Rows
<1> QED
  BY <1>3, RowsKept DEF Exists

(* retryIfNeeded: the new row is a root, or answers an execution that ended *)
(* in a status the policy retries, with budget left.                       *)
LEMMA RowsCreate ==
    ASSUME IInv, Grows, NEW j \in Ids, Fresh(j), NEW s \in {"pending", "retry_waiting"},
           NEW n \in Nat, NEW d \in BOOLEAN, NEW p \in Ids \cup {0},
           CreateInstance(j, s, n, d, p),
           p # 0 => /\ Exists(p) /\ n = rows[p].retryCount + 1 /\ n <= MaxRetry
                    /\ \E o \in RetryOn : EndedWith(p, o)
    PROVE  RowsOK'
<1>1. \A o : \A i \in Ids : EndedWith(i, o) => EndedWith(i, o)'
  BY DEF EndedWith, Grows
<1>2. \A i \in Ids : rows[i].parent \in Ids \cup {0}
  BY DEF IInv, TypeOK, Rows
<1>3. /\ \A i \in Ids \ {j} : rows'[i] = rows[i]
      /\ rows'[j].status = s /\ rows'[j].parent = p /\ rows'[j].retryCount = n
  BY DEF IInv, TypeOK, CreateInstance
<1>4. ~Exists(j)
  BY DEF Fresh
<1>5. RetryJustified'
  <2>1. \A i \in Ids : rows'[i].parent \in Ids \cup {0}
    BY <1>2, <1>3, Zenon
  <2> SUFFICES ASSUME NEW i \in Ids, NEW q \in Ids, rows'[i].parent = q, q # 0
               PROVE  /\ Exists(q)'
                      /\ rows'[i].retryCount = rows'[q].retryCount + 1
                      /\ rows'[i].retryCount <= MaxRetry
                      /\ \E o \in RetryOn : EndedWith(q, o)'
    BY <2>1, Zenon DEF RetryJustified
  <2>2. CASE i = j
    BY <1>1, <1>3, <2>2 DEF Grows
  <2>3. CASE i # j
    BY <1>1, <1>3, <2>3 DEF IInv, RowsOK, RetryJustified, Grows
  <2> QED
    BY <2>2, <2>3
<1>6. ResultJustified'
  BY <1>1, <1>3, Zenon DEF IInv, RowsOK, ResultJustified
<1>7. \A i \in Ids : ~Exists(i)' => rows'[i].parent = 0
  BY <1>3, Zenon DEF IInv, RowsOK, Grows, Exists
<1> QED
  BY <1>5, <1>6, <1>7 DEF RowsOK

(* Behind the lemma: a handler only writes a final status it was told, and  *)
(* only creates a retry behind the decision.                               *)
LEMMA StepRowsOK == IInv /\ [Next]_vars => RowsOK'
<1> SUFFICES ASSUME IInv, [Next]_vars PROVE RowsOK'
  OBVIOUS
<1>g. Grows
  BY StepGrows
<1>t. TypeOK
  BY DEF IInv
<1>m. \A t \in Creators \cup Reporters \cup Cancellers \cup {Retrier} : t \in Threads
  BY DEF Threads
<1>h. \A t \in Threads : Holds(t)
  BY DEF IInv, ThreadsOK
<1>p. {"pending", "failed", "retry_waiting", "cancelled", "running"} \subseteq Statuses
  BY DEF Statuses, Terminal
<1>u. UNCHANGED rows => RowsOK'
  BY <1>g, RowsSame
<1>1. ASSUME NEW c \in Creators, Trigger(c) PROVE RowsOK'
  <2>1. CASE TriggerCreate(c)
    BY <1>g, <2>1, RowsCreate, Zenon DEF TriggerCreate
  <2>2. CASE TriggerWrite(c)
    BY <1>g, <1>m, <1>h, <1>u, <2>2, RowsDispatch DEF TriggerWrite, Holds, At
  <2>3. CASE TriggerFail(c)
    BY <1>g, <1>m, <1>h, <1>p, <1>u, <2>3, RowsStatus
       DEF TriggerFail, Holds, At, UpdateInstanceResult
  <2> QED
    BY <1>1, <1>u, <2>1, <2>2, <2>3 DEF Trigger, TriggerNoWorker, TriggerPick, TriggerSend
<1>2. ASSUME NEW j \in Ids, RetryFallsDue(j) PROVE RowsOK'
  <2>1. \A i \in Ids : rows[i] \in Rows
    BY <1>t DEF TypeOK
  <2>2. \A i \in Ids : rows'[i] = IF i = j THEN [rows[i] EXCEPT !.due = TRUE] ELSE rows[i]
    BY <1>2, <1>t, Zenon DEF TypeOK, RetryFallsDue
  <2>3. \A i \in Ids : /\ rows'[i].parent = rows[i].parent
                       /\ rows'[i].retryCount = rows[i].retryCount
                       /\ rows'[i].status = rows[i].status
    BY <2>1, <2>2, Zenon DEF Rows
  <2> QED
    BY <1>g, <2>3, RowsKept DEF Exists
<1>3. CASE Retry
  <2>1. CASE RetryWrite
    BY <1>g, <1>m, <1>h, <1>u, <2>1, RowsDispatch DEF RetryWrite, Holds, At
  <2>2. CASE RetryFail
    BY <1>g, <1>m, <1>h, <1>p, <1>u, <2>2, RowsStatus
       DEF RetryFail, Holds, At, UpdateInstanceStatus
  <2> QED
    BY <1>3, <1>u, <2>1, <2>2 DEF Retry, RetryScan, RetryDone, RetryNext, RetryPick,
       RetryNoWorker, RetrySend
<1>4. ASSUME NEW r \in Reporters, ReportStatus(r) PROVE RowsOK'
  <2>r. Reports(r)
    BY DEF IInv, ThreadsOK
  <2>s. thr[r].st \in {"none", "running"} \cup Outcomes
    BY <1>t, <1>m DEF TypeOK, ThreadStates
  <2>1. CASE ReportResult(r)
    <3>1. /\ thr[r].src \in Ids /\ Exists(thr[r].src)
          /\ thr[r].st = "running" \/ EndedWith(thr[r].src, thr[r].st)
      BY <2>1, <2>r, Zenon DEF ReportResult, At, Reports, EndedWith
    <3>2. thr[r].st \in Statuses
      BY <1>p, <2>s, Parameters, Zenon DEF Statuses, Terminal
    <3> QED
      BY <1>g, <2>1, <3>1, <3>2, RowsStatus, Zenon DEF ReportResult, UpdateInstanceResult
  <2>2. CASE ReportCreate(r)
    <3> DEFINE p == thr[r].src
    <3>1. /\ p \in Ids /\ Exists(p) /\ retryWanted(p, thr[r].st)
          /\ EndedWith(p, thr[r].st)
      BY <2>2, <2>r DEF ReportCreate, At, Reports, EndedWith
    <3>2. rows[p].retryCount \in Nat
      <4>1. rows[p] \in Rows
        BY <1>t, <3>1 DEF TypeOK
      <4> QED
        BY <4>1 DEF Rows
    <3>3. /\ rows[p].retryCount + 1 \in Nat /\ rows[p].retryCount + 1 <= MaxRetry
          /\ \E o \in RetryOn : EndedWith(p, o)
      BY <3>1, <3>2, Parameters DEF retryWanted
    <3>4. PICK j \in Ids :
             /\ Fresh(j)
             /\ CreateInstance(j, IF Backoff THEN "retry_waiting" ELSE "pending",
                               rows[p].retryCount + 1, ~Backoff, p)
      BY <2>2 DEF ReportCreate
    <3> HIDE DEF p
    <3> QED
      BY <1>g, <3>1, <3>3, <3>4, RowsCreate, Zenon
  <2>3. CASE ReportNoWorker(r)
    BY <1>g, <1>m, <1>h, <1>p, <1>u, <2>3, RowsStatus
       DEF ReportNoWorker, Holds, At, UpdateInstanceStatus
  <2>4. CASE ReportWrite(r)
    BY <1>g, <1>m, <1>h, <2>4, RowsDispatch DEF ReportWrite, Holds, At
  <2>5. CASE ReportFail(r)
    BY <1>g, <1>m, <1>h, <1>p, <1>u, <2>5, RowsStatus
       DEF ReportFail, Holds, At, UpdateInstanceStatus
  <2> QED
    BY <1>4, <1>u, <2>1, <2>2, <2>3, <2>4, <2>5, Zenon DEF ReportStatus, ReportRead,
       ReportDecide, ReportPick, ReportSend, ReportAbort
<1>5. ASSUME NEW c \in Cancellers, CancelWrite(c) PROVE RowsOK'
  BY <1>5, <1>g, <1>m, <1>h, <1>p, <1>u, RowsStatus
     DEF CancelWrite, Holds, At, UpdateInstanceResult
<1> QED
  BY <1>1, <1>2, <1>3, <1>4, <1>5, <1>u, ZenonT(60)
     DEF Next, ReportTimeout, CancelRead, CancelNotify,
     Worker, RunStart, RunReportRunning, RunExecute, RunReportFinal, FlushSend, EvictDedup,
     SchedulerCrash, WorkerCrash, vars

--------------------------------------------------------------------------------
(* The theorems.                                                           *)

(* Before the scheduler and the workers have done anything, there is no    *)
(* row, no report and no execution.                                        *)
LEMMA InitIInv == Init => IInv
<1> SUFFICES ASSUME Init PROVE IInv
  OBVIOUS
<1>1. TypeOK
  BY IdleType, Parameters DEF Init, TypeOK, NoRow, Rows, Statuses, NoRun, Runs, RunPCs
<1>2. ThreadsOK
  BY DEF Init, ThreadsOK, Holds, Reports, Idle, Threads
<1>3. WorkersOK
  BY DEF Init, WorkersOK, InboxOK, ExecOK, BufOK, NoRun
<1>4. RowsOK
  BY DEF Init, RowsOK, RetryJustified, ResultJustified, NoRow
<1> QED
  BY <1>1, <1>2, <1>3, <1>4 DEF IInv

(* IInv is an inductive invariant of the rows, the goroutines and the workers. *)
THEOREM Inductive == Spec => []IInv
<1>1. IInv /\ [Next]_vars => IInv'
  BY StepTypeOK, StepThreadsOK, StepWorkersOK, StepRowsOK DEF IInv
<1> QED
  BY <1>1, InitIInv, PTL DEF Spec

(* Every table column, goroutine and execution stays within its type, for any *)
(* number of workers, rows and handlers and under every fault.               *)
THEOREM TypeCorrect == Spec => []TypeOK
<1>1. IInv => TypeOK
  BY DEF IInv
<1> QED
  BY <1>1, Inductive, PTL

(* retryIfNeeded, for any number of workers, rows and handlers and under every *)
(* fault: a retry row answers a real execution of its parent that ended in a *)
(* retried status, is one attempt further, and is within task.MaxRetry.      *)
THEOREM RetriesJustified == Spec => []RetryJustified
<1>1. IInv => RetryJustified
  BY DEF IInv, RowsOK
<1> QED
  BY <1>1, Inductive, PTL

(* UpdateInstanceResult, for any number of workers, rows and handlers and under *)
(* every fault: success and timeout on record, and failed on a retry row, are *)
(* how some execution of the instance really ended.                          *)
THEOREM ResultsJustified == Spec => []ResultJustified
<1>1. IInv => ResultJustified
  BY DEF IInv, RowsOK
<1> QED
  BY <1>1, Inductive, PTL

--------------------------------------------------------------------------------
(* TaskRuntime implements RetryChain: whatever the goroutines, the workers   *)
(* and the faults between them do, the rows only ever move as attempts of    *)
(* a retry chain do.                                                       *)

(* A step that writes neither a row nor the history of executions is not    *)
(* seen by the chain.                                                      *)
LEMMA ChainSame ==
    ASSUME UNCHANGED <<rows, ended>>
    PROVE  UNCHANGED Chain!chainVars
BY DEF Chain!chainVars, Attempt, Shown, Results, Exists, EndedWith

(* UpdateInstanceStatus, UpdateInstanceDispatch, UpdateInstanceResult: a     *)
(* status the row has earned, written to an existing row.                  *)
LEMMA ChainRecord ==
    ASSUME NEW j \in Ids, Exists(j), UNCHANGED ended,
           \A i \in Ids : /\ Exists(i)' <=> Exists(i)
                          /\ rows'[i].parent = rows[i].parent
                          /\ rows'[i].retryCount = rows[i].retryCount,
           \A i \in Ids \ {j} : rows'[i].status = rows[i].status,
           NEW s, rows'[j].status = s,
           isTerminalStatus(s) => \/ s = "cancelled"
                                  \/ s \in Outcomes /\ EndedWith(j, s)
                                  \/ s = "failed" /\ rows[j].parent = 0
    PROVE  Chain!Next
<1> DEFINE v == IF isTerminalStatus(s) THEN s ELSE "open"
<1>1. [i \in Ids |-> Attempt(i)]' = [i \in Ids |-> Attempt(i)]
  BY DEF Attempt, Exists
<1>2. [i \in Ids |-> Results(i)]' = [i \in Ids |-> Results(i)]
  BY DEF Results, EndedWith
<1>3. [i \in Ids |-> Shown(i)]' = [[i \in Ids |-> Shown(i)] EXCEPT ![j] = v]
  BY Zenon DEF Shown
<1>4. v \in {"open", "cancelled"} \cup Outcomes
  BY Parameters DEF isTerminalStatus, Terminal
<1>5. Chain!Known(j)
  BY Zenon DEF Chain!Known, Attempt, Exists
<1>6. Chain!Earned(j, v)
  BY Zenon DEF Chain!Earned, Attempt, Results
<1>7. Chain!Record(j, v)
  BY <1>1, <1>2, <1>3, <1>5, <1>6, Zenon DEF Chain!Record
<1> QED
  BY <1>4, <1>7, Zenon DEF Chain!Next

(* CreateInstance at a fresh id extends the chain, and leaves what is on     *)
(* record as it was.                                                       *)
LEMMA ChainCreate ==
    ASSUME TypeOK, UNCHANGED ended, NEW j \in Ids, Fresh(j),
           NEW s \in {"pending", "retry_waiting"}, NEW n, NEW d, NEW p,
           CreateInstance(j, s, n, d, p)
    PROVE  /\ ~Chain!Known(j)
           /\ [i \in Ids |-> Attempt(i)]' =
                 [[i \in Ids |-> Attempt(i)] EXCEPT ![j] = [known |-> TRUE, n |-> n, of |-> p]]
           /\ [i \in Ids |-> Results(i)]' = [i \in Ids |-> Results(i)]
           /\ [i \in Ids |-> Shown(i)]' = [i \in Ids |-> Shown(i)]
<1>1. /\ \A i \in Ids \ {j} : rows'[i] = rows[i]
      /\ rows'[j].status = s /\ rows'[j].parent = p /\ rows'[j].retryCount = n
  BY DEF TypeOK, CreateInstance
<1>2. rows[j].status = "none" /\ ~Exists(j)
  BY DEF Fresh, Exists
<1>3. ~Chain!Known(j)
  BY <1>2, Zenon DEF Chain!Known, Attempt
<1>4. [i \in Ids |-> Attempt(i)]' =
         [[i \in Ids |-> Attempt(i)] EXCEPT ![j] = [known |-> TRUE, n |-> n, of |-> p]]
  BY <1>1, Zenon DEF Attempt, Exists
<1>5. [i \in Ids |-> Results(i)]' = [i \in Ids |-> Results(i)]
  BY DEF Results, EndedWith
<1>6. [i \in Ids |-> Shown(i)]' = [i \in Ids |-> Shown(i)]
  BY <1>1, <1>2 DEF Shown, isTerminalStatus, Terminal
<1> QED
  BY <1>3, <1>4, <1>5, <1>6

(* The trigger loop and the engine callback start a chain.                 *)
LEMMA ChainStart ==
    ASSUME IInv, NEW c \in Creators, TriggerCreate(c)
    PROVE  Chain!Next
<1>1. PICK j \in Ids : Fresh(j) /\ CreateInstance(j, "pending", 0, TRUE, 0)
  BY Zenon DEF TriggerCreate
<1>2. Chain!Start(j)
  BY <1>1, ChainCreate, Zenon DEF IInv, TriggerCreate, Chain!Start
<1> QED
  BY <1>2 DEF Chain!Next

(* retryIfNeeded extends a chain by one attempt that was called for.       *)
LEMMA ChainAgain ==
    ASSUME IInv, NEW r \in Reporters, ReportCreate(r)
    PROVE  Chain!Next
<1> DEFINE p == thr[r].src
           n == rows[p].retryCount + 1
           s == IF Backoff THEN "retry_waiting" ELSE "pending"
<1>1. Reports(r)
  BY DEF IInv, ThreadsOK
<1>2. /\ p \in Ids /\ Exists(p) /\ retryWanted(p, thr[r].st)
      /\ EndedWith(p, thr[r].st)
  BY <1>1 DEF ReportCreate, At, Reports, EndedWith
<1>3. thr[r].st \in Results(p) \cap RetryOn
  BY <1>2, Parameters DEF retryWanted, Results, IInv, TypeOK, ThreadStates, Threads,
     isRetryableStatus, Retryable
<1>4. PICK j \in Ids : Fresh(j) /\ CreateInstance(j, s, n, ~Backoff, p)
  BY DEF ReportCreate
<1>5. UNCHANGED ended
  BY DEF ReportCreate
<1>6. s \in {"pending", "retry_waiting"}
  OBVIOUS
<1>7. Attempt(p).known /\ Attempt(p).n = rows[p].retryCount /\ rows[p].retryCount < MaxRetry
  BY <1>2 DEF Attempt, retryWanted
<1> HIDE DEF n, p, s
<1>8. /\ ~Chain!Known(j)
      /\ [i \in Ids |-> Attempt(i)]' =
            [[i \in Ids |-> Attempt(i)] EXCEPT ![j] = [known |-> TRUE, n |-> n, of |-> p]]
      /\ [i \in Ids |-> Results(i)]' = [i \in Ids |-> Results(i)]
      /\ [i \in Ids |-> Shown(i)]' = [i \in Ids |-> Shown(i)]
  BY <1>4, <1>5, <1>6, ChainCreate DEF IInv
<1>9. Chain!Again(j, p)
  <2>1. Chain!Known(p)
    BY <1>2, <1>7 DEF Chain!Known
  <2> QED
    BY <1>2, <1>3, <1>7, <1>8, <2>1, Zenon DEF Chain!Again, n
<1> QED
  BY <1>2, <1>9 DEF Chain!Next

(* Handler.run: the end of an execution is one more way the attempt ended.  *)
LEMMA ChainFinish ==
    ASSUME IInv, NEW w \in Workers, NEW j \in Ids, RunExecute(w, j)
    PROVE  Chain!Next
<1>1. PICK o \in Outcomes : ended' = ended \cup {<<w, j, o>>}
  BY DEF RunExecute
<1>2. Exists(j)
  BY Zenon DEF IInv, WorkersOK, ExecOK, RunExecute
<1>3. UNCHANGED rows
  BY DEF RunExecute
<1>4. \A i \in Ids : Results(i)' = IF i = j THEN Results(j) \cup {o} ELSE Results(i)
  BY <1>1, Zenon DEF Results, EndedWith
<1>5. [i \in Ids |-> Results(i)]' =
         [[i \in Ids |-> Results(i)] EXCEPT ![j] = @ \cup {o}]
  BY <1>4, Zenon
<1>6. /\ [i \in Ids |-> Attempt(i)]' = [i \in Ids |-> Attempt(i)]
      /\ [i \in Ids |-> Shown(i)]' = [i \in Ids |-> Shown(i)]
  BY <1>3, Zenon DEF Attempt, Shown, Exists
<1>7. Chain!Known(j)
  BY <1>2 DEF Chain!Known, Attempt
<1>8. Chain!Finish(j, o)
  BY <1>5, <1>6, <1>7 DEF Chain!Finish
<1> QED
  BY <1>8 DEF Chain!Next

(* UpdateInstanceStatus and UpdateInstanceResult write what was earned.     *)
LEMMA ChainStatus ==
    ASSUME TypeOK, UNCHANGED ended, NEW j \in Ids, Exists(j),
           NEW s \in Statuses \ {"none"}, rows' = [rows EXCEPT ![j].status = s],
           isTerminalStatus(s) => \/ s = "cancelled"
                                  \/ s \in Outcomes /\ EndedWith(j, s)
                                  \/ s = "failed" /\ rows[j].parent = 0
    PROVE  Chain!Next
<1>1. \A i \in Ids : rows[i] \in Rows
  BY DEF TypeOK
<1>2. \A i \in Ids : rows'[i] = IF i = j THEN [rows[i] EXCEPT !.status = s] ELSE rows[i]
  BY DEF TypeOK
<1>3. \A i \in Ids : /\ rows'[i].parent = rows[i].parent
                     /\ rows'[i].retryCount = rows[i].retryCount
                     /\ rows'[i].status = IF i = j THEN s ELSE rows[i].status
  BY <1>1, <1>2 DEF Rows
<1>4. \A i \in Ids : Exists(i)' <=> Exists(i)
  BY <1>3 DEF Exists
<1> QED
  BY <1>3, <1>4, ChainRecord

(* UpdateInstanceDispatch reopens the row or leaves it open.               *)
LEMMA ChainDispatch ==
    ASSUME TypeOK, UNCHANGED ended, NEW j \in Ids, Exists(j), NEW w,
           UpdateInstanceDispatch(j, w)
    PROVE  Chain!Next
<1>1. rows \in [Ids -> Rows] /\ rows[j] \in Rows
  BY DEF TypeOK
<1> DEFINE mid == [rows[j] EXCEPT !.status = "dispatched"]
<1>2. rows'[j] = [mid EXCEPT !.worker = w] /\ \A i \in Ids \ {j} : rows'[i] = rows[i]
  BY <1>1 DEF UpdateInstanceDispatch
<1>3. /\ mid.status = "dispatched" /\ mid.parent = rows[j].parent
      /\ mid.retryCount = rows[j].retryCount /\ mid \in Rows
  BY <1>1 DEF Rows, Statuses
<1> HIDE DEF mid
<1>4. /\ rows'[j].status = "dispatched" /\ rows'[j].parent = rows[j].parent
      /\ rows'[j].retryCount = rows[j].retryCount
  BY <1>2, <1>3 DEF Rows
<1>5. \A i \in Ids : Exists(i)' <=> Exists(i)
  BY <1>2, <1>4, Zenon DEF Exists
<1>6. ~isTerminalStatus("dispatched")
  BY DEF isTerminalStatus, Terminal
<1> QED
  BY <1>2, <1>4, <1>5, <1>6, ChainRecord, Zenon

ChainStep == Chain!Next \/ UNCHANGED Chain!chainVars

(* Behind the lemma: only the trigger side writes a failed it was not told, *)
(* and it only holds rows it created itself, which have no parent.         *)
LEMMA StepChain == IInv /\ [Next]_vars => [Chain!Next]_(Chain!chainVars)
<1> SUFFICES ASSUME IInv, [Next]_vars PROVE ChainStep
  BY DEF ChainStep
<1>t. TypeOK
  BY DEF IInv
<1>m. \A t \in Creators \cup Reporters \cup Cancellers \cup {Retrier} : t \in Threads
  BY DEF Threads
<1>h. \A t \in Threads : Holds(t)
  BY DEF IInv, ThreadsOK
<1>p. /\ {"failed", "retry_waiting", "cancelled", "running"} \subseteq Statuses \ {"none"}
      /\ ~isTerminalStatus("retry_waiting") /\ ~isTerminalStatus("running")
  BY DEF Statuses, Terminal, isTerminalStatus
<1>u. UNCHANGED <<rows, ended>> => UNCHANGED Chain!chainVars
  BY ChainSame
<1> USE DEF ChainStep
<1>1. ASSUME NEW c \in Creators, Trigger(c) PROVE ChainStep
  <2>1. CASE TriggerCreate(c)
    BY <2>1, ChainStart
  <2>2. CASE TriggerWrite(c)
    BY <1>t, <1>m, <1>h, <1>u, <2>2, ChainDispatch DEF TriggerWrite, Holds, At
  <2>3. CASE TriggerFail(c)
    BY <1>t, <1>m, <1>h, <1>p, <1>u, <2>3, ChainStatus
       DEF TriggerFail, Holds, At, UpdateInstanceResult
  <2> QED
    BY <1>1, <1>u, <2>1, <2>2, <2>3 DEF Trigger, TriggerNoWorker, TriggerPick, TriggerSend
<1>2. ASSUME NEW j \in Ids, RetryFallsDue(j) PROVE ChainStep
  <2>1. \A i \in Ids : rows[i] \in Rows
    BY <1>t DEF TypeOK
  <2>2. \A i \in Ids : rows'[i] = IF i = j THEN [rows[i] EXCEPT !.due = TRUE] ELSE rows[i]
    BY <1>2, <1>t, Zenon DEF TypeOK, RetryFallsDue
  <2>3. \A i \in Ids : /\ rows'[i].parent = rows[i].parent
                       /\ rows'[i].retryCount = rows[i].retryCount
                       /\ rows'[i].status = rows[i].status
    BY <2>1, <2>2, Zenon DEF Rows
  <2>4. \A i \in Ids : Attempt(i)' = Attempt(i) /\ Shown(i)' = Shown(i) /\ Results(i)' = Results(i)
    BY <1>2, <2>3 DEF Attempt, Shown, Exists, Results, EndedWith, RetryFallsDue
  <2> QED
    BY <2>4 DEF Chain!chainVars
<1>3. CASE Retry
  <2>1. CASE RetryWrite
    BY <1>t, <1>m, <1>h, <1>u, <2>1, ChainDispatch DEF RetryWrite, Holds, At
  <2>2. CASE RetryFail
    BY <1>t, <1>m, <1>h, <1>p, <1>u, <2>2, ChainStatus
       DEF RetryFail, Holds, At, UpdateInstanceStatus
  <2> QED
    BY <1>3, <1>u, <2>1, <2>2 DEF Retry, RetryScan, RetryDone, RetryNext, RetryPick,
       RetryNoWorker, RetrySend
<1>4. ASSUME NEW r \in Reporters, ReportStatus(r) PROVE ChainStep
  <2>1. CASE ReportResult(r)
    <3>1. Reports(r)
      BY DEF IInv, ThreadsOK
    <3>2. thr[r].st \in {"running"} \cup Outcomes
      BY <1>t, <1>m, <2>1, <3>1, Zenon DEF TypeOK, ThreadStates, ReportResult, At, Reports
    <3>3. /\ thr[r].src \in Ids /\ Exists(thr[r].src)
          /\ thr[r].st = "running" \/ EndedWith(thr[r].src, thr[r].st)
      BY <2>1, <3>1, Zenon DEF ReportResult, At, Reports, EndedWith
    <3>4. thr[r].st \in Statuses \ {"none"}
      BY <3>2, Parameters, Zenon DEF Statuses, Terminal
    <3> QED
      BY <1>t, <1>p, <2>1, <3>2, <3>3, <3>4, ChainStatus, Zenon
         DEF ReportResult, UpdateInstanceResult
  <2>2. CASE ReportCreate(r)
    BY <2>2, ChainAgain
  <2>3. CASE ReportNoWorker(r)
    BY <1>t, <1>m, <1>h, <1>p, <1>u, <2>3, ChainStatus
       DEF ReportNoWorker, Holds, At, UpdateInstanceStatus
  <2>4. CASE ReportWrite(r)
    BY <1>t, <1>m, <1>h, <2>4, ChainDispatch, Zenon DEF ReportWrite, Holds, At
  <2>5. CASE ReportFail(r)
    BY <1>t, <1>m, <1>h, <1>p, <1>u, <2>5, ChainStatus
       DEF ReportFail, Holds, At, UpdateInstanceStatus
  <2> QED
    BY <1>4, <1>u, <2>1, <2>2, <2>3, <2>4, <2>5, Zenon DEF ReportStatus, ReportRead,
       ReportDecide, ReportPick, ReportSend, ReportAbort
<1>5. ASSUME NEW c \in Cancellers, CancelWrite(c) PROVE ChainStep
  BY <1>5, <1>t, <1>m, <1>h, <1>p, <1>u, ChainStatus
     DEF CancelWrite, Holds, At, UpdateInstanceResult
<1>6. ASSUME NEW w \in Workers, NEW i \in Ids, Worker(w, i) PROVE ChainStep
  BY <1>6, <1>u, ChainFinish, Zenon
     DEF Worker, RunStart, RunReportRunning, RunReportFinal, FlushSend
<1> HIDE DEF ChainStep
<1>7. UNCHANGED rows /\ UNCHANGED ended => ChainStep
  BY <1>u DEF ChainStep
<1>8. ASSUME NEW r \in Reporters, ReportTimeout(r) PROVE ChainStep
  BY <1>7, <1>8 DEF ReportTimeout
<1>9. ASSUME NEW c \in Cancellers, \/ \E i \in Ids : CancelRead(c, i)
                                   \/ CancelNotify(c)
      PROVE  ChainStep
  BY <1>7, <1>9, Zenon DEF CancelRead, CancelNotify
<1>10. ASSUME NEW w \in Workers, \/ WorkerCrash(w)
                                 \/ \E i \in Ids : EvictDedup(w, i)
       PROVE  ChainStep
  BY <1>7, <1>10, Zenon DEF WorkerCrash, EvictDedup
<1>11. SchedulerCrash \/ UNCHANGED vars => ChainStep
  BY <1>7 DEF SchedulerCrash, vars
<1> QED
  BY <1>1, <1>2, <1>3, <1>4, <1>5, <1>6, <1>8, <1>9, <1>10, <1>11, Zenon DEF Next

(* The empty table is the empty chain.                                     *)
LEMMA InitChain == Init => Chain!Init
<1> SUFFICES ASSUME Init PROVE Chain!Init
  OBVIOUS
<1>1. \A i \in Ids : rows[i].status = "none"
  BY DEF Init, NoRow
<1>2. \A i \in Ids : Attempt(i) = Chain!Absent
  BY <1>1, Zenon DEF Attempt, Exists, Chain!Absent
<1>3. \A i \in Ids : Results(i) = {} /\ Shown(i) = "open"
  BY <1>1 DEF Init, Results, EndedWith, Shown, isTerminalStatus, Terminal
<1> QED
  BY <1>2, <1>3 DEF Chain!Init

(* For any number of workers, rows, handlers and cancels and under every    *)
(* fault, the scheduler and the workers implement the retry chain: retries  *)
(* answer real executions within task.MaxRetry, and results on record were  *)
(* earned.                                                                 *)
THEOREM Implements == Spec => ImplementsChain
<1> QED
  BY Inductive, StepChain, InitChain, PTL DEF Spec, ImplementsChain, Chain!Spec

--------------------------------------------------------------------------------
(* Towards one retry and one execution (TaskRuntimeOnce): the invariant, and    *)
(* that each goroutine of the scheduler takes, lists, marks and sends an         *)
(* instance in order.                                                       *)

(* The faults that repeat work already under way: a report or a dispatch    *)
(* given up by the caller and carried on by the callee, and a worker that   *)
(* forgets what it was doing while the scheduler still handles its report.  *)
Repeating == {"report_timeout", "dispatch_timeout", "worker_crash"}

(* The goroutines that dispatch.                                           *)
Dispatchers == Creators \cup {Retrier} \cup Reporters

(* Goroutine t has instance i in hand and may yet send it to a worker.      *)
Dispatching(t, i) == /\ thr[t].pc \in {"pick", "write", "send", "fail"}
                     /\ thr[t].id = i

(* Worker w has got instance i and has not forgotten it.                   *)
Knows(w, i) == \/ <<w, i>> \in inbox
               \/ exec[w][i].pc # "none"
               \/ buf[w][i] # "none"

(* An instance may be sent by one goroutine at a time: the retry loop takes *)
(* a waiting row that is in nobody else's hands.                           *)
OneDispatcher ==
    \A i \in Ids : \A t \in Dispatchers : Dispatching(t, i) =>
        /\ \A u \in Dispatchers : Dispatching(u, i) => t = u
        /\ i \notin scan
        /\ rows[i].status = "retry_waiting" =>
              t = Retrier /\ thr[t].pc \in {"pick", "write"}

(* What a worker has got will not be sent again, and no other worker has it. *)
HandedOver ==
    \A i \in Ids : \A w \in Workers : Knows(w, i) =>
        /\ \A t \in Dispatchers : ~Dispatching(t, i)
        /\ i \notin scan
        /\ rows[i].status # "retry_waiting"
        /\ \A v \in Workers : Knows(v, i) => v = w

DispatchInv == OneDispatcher /\ HandedOver

(* A worker's goroutine and its local store take turns over an instance.   *)
StoreInv ==
    \A w \in Workers, i \in Ids :
        /\ <<w, i>> \in inbox => exec[w][i].pc = "none" /\ buf[w][i] = "none"
        /\ buf[w][i] # "none" => exec[w][i].pc \in {"done", "none"}

(* Every handler answers the one goroutine that waits for it.              *)
Waited(r) ==
    LET p == exec[thr[r].from][thr[r].src].pc IN
    /\ thr[r].awaited
    /\ IF thr[r].flush
       THEN /\ thr[r].st # "running"
            /\ buf[thr[r].from][thr[r].src] # "none"
            /\ p \in {"done", "none"}
       ELSE p = IF thr[r].st = "running" THEN "waitRunning" ELSE "waitFinal"

HandlerInv ==
    \A r \in Reporters : thr[r].pc # "idle" =>
        /\ Waited(r)
        /\ \A q \in Reporters :
              thr[q].pc # "idle" /\ thr[q].src = thr[r].src => q = r

(* Nobody will run the instance again, and its run, if any, is over.       *)
Closed(i) == /\ i \notin scan
             /\ \A t \in Dispatchers : ~Dispatching(t, i)
             /\ \A w \in Workers : /\ <<w, i>> \notin inbox
                                   /\ exec[w][i].pc \in {"none", "waitFinal", "done"}

Over(i) == isTerminalStatus(rows[i].status) /\ Closed(i)

(* A retry is decided and created once, by the handler that settled the row. *)
RetryInv ==
    /\ \A r \in Reporters, i \in Ids :
          thr[r].pc \in {"retry", "create"} /\ thr[r].src = i => Over(i)
    /\ \A i, j \in Ids : ChildOf(j, i) =>
          /\ Over(i)
          /\ \A r \in Reporters :
                thr[r].src = i => thr[r].pc \notin {"result", "retry", "create"}
    /\ AtMostOneRetry

OnceInv == IInv /\ DispatchInv /\ StoreInv /\ HandlerInv /\ RetryInv

(* Without cancels, the rows still to be dispatched or reported are open.   *)
OpenInv ==
    /\ \A t \in Dispatchers, i \in Ids :
          Dispatching(t, i) => ~isTerminalStatus(rows[i].status)
    /\ \A i \in scan : ~isTerminalStatus(rows[i].status)
    /\ \A r \in Reporters :
          thr[r].pc = "result" => ~isTerminalStatus(rows[thr[r].src].status)

--------------------------------------------------------------------------------
(* What the steps do, field by field.                                      *)

(* A handler keeps its report.                                             *)
SameReport(r) == /\ thr'[r].src = thr[r].src /\ thr'[r].from = thr[r].from
                 /\ thr'[r].st = thr[r].st /\ thr'[r].awaited = thr[r].awaited
                 /\ thr'[r].flush = thr[r].flush

(* Only goroutine t moves.                                                 *)
Only(t) == \A u \in Threads \ {t} : thr'[u] = thr[u]

(* A goroutine that moves on keeps its report, its row and its worker.     *)
LEMMA GotoMoves ==
    ASSUME TypeOK, NEW t \in Threads, NEW pc, Goto(t, pc)
    PROVE  /\ Only(t) /\ SameReport(t) /\ thr'[t].pc = pc
           /\ thr'[t].id = thr[t].id /\ thr'[t].w = thr[t].w
<1>1. thr[t] \in ThreadStates
  BY DEF TypeOK
<1>2. thr'[t] = [thr[t] EXCEPT !.pc = pc] /\ Only(t)
  BY DEF TypeOK, Goto, Only
<1> QED
  BY <1>1, <1>2 DEF ThreadStates, SameReport

(* Pick gives a goroutine its worker.                                      *)
LEMMA PickMoves ==
    ASSUME TypeOK, NEW t \in Threads, NEW w \in Workers,
           thr' = [thr EXCEPT ![t].pc = "write", ![t].w = w]
    PROVE  /\ Only(t) /\ SameReport(t) /\ thr'[t].pc = "write"
           /\ thr'[t].id = thr[t].id /\ thr'[t].w = w
<1>1. thr[t] \in ThreadStates
  BY DEF TypeOK
<1> DEFINE mid == [thr[t] EXCEPT !.pc = "write"]
<1>2. /\ mid \in ThreadStates
      /\ mid.pc = "write" /\ mid.id = thr[t].id /\ mid.src = thr[t].src
      /\ mid.from = thr[t].from /\ mid.st = thr[t].st
      /\ mid.awaited = thr[t].awaited /\ mid.flush = thr[t].flush
  BY <1>1 DEF ThreadStates, PCs
<1>3. thr'[t] = [mid EXCEPT !.w = w] /\ Only(t)
  BY <1>1 DEF ThreadStates, TypeOK, Only
<1> HIDE DEF mid
<1> QED
  BY <1>2, <1>3 DEF ThreadStates, SameReport

(* A goroutine takes up a row.                                             *)
LEMMA HoldMoves ==
    ASSUME TypeOK, NEW t \in Threads, NEW i \in Ids,
           thr' = [thr EXCEPT ![t].pc = "pick", ![t].id = i]
    PROVE  /\ Only(t) /\ SameReport(t) /\ thr'[t].pc = "pick"
           /\ thr'[t].id = i
<1>1. thr[t] \in ThreadStates
  BY DEF TypeOK
<1> DEFINE mid == [thr[t] EXCEPT !.pc = "pick"]
<1>2. /\ mid \in ThreadStates
      /\ mid.pc = "pick" /\ mid.src = thr[t].src
      /\ mid.from = thr[t].from /\ mid.st = thr[t].st
      /\ mid.awaited = thr[t].awaited /\ mid.flush = thr[t].flush
  BY <1>1 DEF ThreadStates, PCs
<1>3. thr'[t] = [mid EXCEPT !.id = i] /\ Only(t)
  BY <1>1 DEF ThreadStates, TypeOK, Only
<1> HIDE DEF mid
<1> QED
  BY <1>2, <1>3 DEF ThreadStates, SameReport

(* A goroutine that ends is idle.                                          *)
LEMMA StopMoves ==
    ASSUME TypeOK, NEW t \in Threads, Stop(t)
    PROVE  Only(t) /\ thr'[t].pc = "idle"
BY DEF TypeOK, Stop, Only, Idle

(* The retry loop turns to its next row.                                   *)
LEMMA ContinueMoves ==
    ASSUME TypeOK, Continue
    PROVE  Only(Retrier) /\ thr'[Retrier].pc = "next"
BY DEF TypeOK, Continue, Only, Idle, Threads

(* A handler takes up a report.                                            *)
LEMMA HandleMoves ==
    ASSUME TypeOK, NEW r \in Reporters, NEW w, NEW i, NEW s, NEW b \in BOOLEAN,
           Handle(r, w, i, s, b)
    PROVE  /\ Only(r) /\ thr[r].pc = "idle" /\ thr'[r].pc = "read"
           /\ thr'[r].src = i /\ thr'[r].from = w /\ thr'[r].st = s
           /\ thr'[r].awaited /\ thr'[r].flush = b
BY DEF TypeOK, Handle, Only, Idle, Threads, At

(* One status is written.                                                  *)
Puts(j, s) == /\ \A i \in Ids \ {j} : rows'[i] = rows[i]
              /\ rows'[j].status = s /\ rows'[j].parent = rows[j].parent

(* UpdateInstanceStatus, UpdateInstanceResult.                             *)
LEMMA StatusPuts ==
    ASSUME TypeOK, NEW j \in Ids, NEW s, rows' = [rows EXCEPT ![j].status = s]
    PROVE  Puts(j, s)
<1>1. rows[j] \in Rows
  BY DEF TypeOK
<1>2. rows'[j] = [rows[j] EXCEPT !.status = s] /\ \A i \in Ids \ {j} : rows'[i] = rows[i]
  BY DEF TypeOK
<1> QED
  BY <1>1, <1>2 DEF Rows, Puts

(* UpdateInstanceDispatch.                                                 *)
LEMMA DispatchPuts ==
    ASSUME TypeOK, NEW j \in Ids, NEW w \in Workers, UpdateInstanceDispatch(j, w)
    PROVE  Puts(j, "dispatched")
<1>1. rows[j] \in Rows
  BY DEF TypeOK
<1> DEFINE mid == [rows[j] EXCEPT !.status = "dispatched"]
<1>2. mid \in Rows /\ mid.status = "dispatched" /\ mid.parent = rows[j].parent
  BY <1>1 DEF Rows, Statuses
<1>3. rows'[j] = [mid EXCEPT !.worker = w] /\ \A i \in Ids \ {j} : rows'[i] = rows[i]
  BY <1>1 DEF Rows, TypeOK, UpdateInstanceDispatch
<1> HIDE DEF mid
<1> QED
  BY <1>2, <1>3 DEF Rows, Puts

--------------------------------------------------------------------------------
(* How instances change hands.                                             *)

(* A goroutine takes an instance from the snapshot of the retry loop, or    *)
(* creates it.                                                             *)
Taken ==
    \A t \in Dispatchers, i \in Ids : Dispatching(t, i)' /\ ~Dispatching(t, i) =>
        \/ t = Retrier /\ i \in scan \ scan' /\ rows' = rows /\ thr'[t].pc = "pick"
        \/ /\ ~Exists(i) /\ rows'[i].status = "pending" /\ i \notin scan'
           /\ \A u \in Dispatchers \ {t} : ~Dispatching(u, i)'

(* The snapshot is taken of waiting rows, between two dispatches.          *)
Listed ==
    \A i \in scan' \ scan : rows[i].status = "retry_waiting" /\ ~Dispatching(Retrier, i)'

(* A row is left to the retry loop by the goroutine that gives it up, or    *)
(* from the start.                                                         *)
Deferred ==
    \A i \in Ids : rows'[i].status = "retry_waiting" /\ rows[i].status # "retry_waiting" =>
        \/ \E t \in Dispatchers : Dispatching(t, i) /\ ~Dispatching(t, i)'
        \/ ~Exists(i) /\ \A t \in Dispatchers : ~Dispatching(t, i)'

(* The retry loop marks a row before it sends it.                          *)
Marked ==
    \A i \in Ids : /\ Dispatching(Retrier, i) /\ Dispatching(Retrier, i)'
                  /\ thr[Retrier].pc \in {"pick", "write"}
                  /\ thr'[Retrier].pc \notin {"pick", "write"}
                  => rows'[i].status # "retry_waiting"

(* A worker gets to know an instance from the goroutine that sends it.     *)
Sent ==
    \A w \in Workers, i \in Ids : Knows(w, i)' /\ ~Knows(w, i) =>
        \E t \in Dispatchers : /\ Dispatching(t, i) /\ ~Dispatching(t, i)'
                              /\ thr[t].pc = "send" /\ thr[t].w = w
                              /\ UNCHANGED <<rows, scan>>

(* Runs begin with a request.                                              *)
Begun ==
    \A w \in Workers, i \in Ids :
        /\ <<w, i>> \in inbox' \ inbox => \E t \in Dispatchers : Dispatching(t, i)
        /\ \/ exec'[w][i].pc \in {"none", "waitFinal", "done"}
           \/ exec[w][i].pc \notin {"none", "waitFinal", "done"}
           \/ <<w, i>> \in inbox

(* Who writes the status of a row: its dispatcher, the handler of a report  *)
(* about it, a user's cancel.                                              *)
Writer(i) == \/ \E t \in Dispatchers : Dispatching(t, i)
             \/ \E r \in Reporters : thr[r].pc = "result" /\ thr[r].src = i
             \/ /\ \E c \in Cancellers : thr[c].pc = "cancel" /\ thr[c].id = i
                /\ rows'[i].status = "cancelled"

Written ==
    \A i \in Ids : rows'[i].status # rows[i].status =>
        (~Exists(i) /\ ~isTerminalStatus(rows'[i].status)) \/ Writer(i)

(* Who settles a row is done with it.                                      *)
Settled ==
    \A i \in Ids : isTerminalStatus(rows'[i].status) /\ ~isTerminalStatus(rows[i].status) =>
        \/ \E t \in Dispatchers : Dispatching(t, i) /\ ~Dispatching(t, i)'
        \/ \E r \in Reporters : /\ thr[r].pc = "result" /\ thr[r].src = i
                                /\ thr'[r].pc # "result"
        \/ \E c \in Cancellers : thr[c].pc = "cancel"

Orderly == /\ Taken /\ Listed /\ Deferred /\ Marked
           /\ Sent /\ Begun /\ Written /\ Settled

(* Holders of an instance hold an existing one.                            *)
LEMMA HeldExists ==
    ASSUME IInv, NEW i \in Ids
    PROVE  /\ \A t \in Dispatchers : Dispatching(t, i) => Exists(i)
           /\ \A w \in Workers : Knows(w, i) => Exists(i)
<1>1. \A t \in Dispatchers : t \in Threads
  BY DEF Dispatchers, Threads
<1>2. \A t \in Dispatchers : Dispatching(t, i) => Exists(i)
  BY <1>1 DEF Dispatching, IInv, ThreadsOK, Holds
<1>3. \A w \in Workers : Knows(w, i) => Exists(i)
  BY Zenon DEF Knows, IInv, WorkersOK, InboxOK, ExecOK, BufOK
<1> QED
  BY <1>2, <1>3

(* One dispatcher and one worker per instance, from how instances change    *)
(* hands.                                                                  *)
LEMMA DispatchKept ==
    ASSUME IInv, DispatchInv, Taken, Listed, Deferred, Marked, Sent
    PROVE  DispatchInv'
<1>1. OneDispatcher'
  <2> SUFFICES ASSUME NEW i \in Ids, NEW t \in Dispatchers, Dispatching(t, i)'
               PROVE  /\ \A u \in Dispatchers : Dispatching(u, i)' => t = u
                      /\ i \notin scan'
                      /\ rows'[i].status = "retry_waiting" =>
                            t = Retrier /\ thr'[t].pc \in {"pick", "write"}
    BY DEF OneDispatcher
  <2>h. \A u \in Dispatchers : Dispatching(u, i) => Exists(i)
    BY HeldExists
  <2>o. \A u, v \in Dispatchers : Dispatching(u, i) =>
           /\ Dispatching(v, i) => u = v
           /\ i \notin scan
           /\ rows[i].status = "retry_waiting" =>
                 u = Retrier /\ thr[u].pc \in {"pick", "write"}
    BY DEF DispatchInv, OneDispatcher
  <2>1. CASE Dispatching(t, i)
    <3>1. ASSUME NEW u \in Dispatchers, Dispatching(u, i)' PROVE t = u
      <4>1. CASE Dispatching(u, i)
        BY <2>1, <2>o, <4>1
      <4>2. CASE ~Dispatching(u, i)
        BY <2>1, <2>h, <2>o, <3>1, <4>2 DEF Taken
      <4> QED
        BY <4>1, <4>2
    <3>2. i \notin scan'
      BY <2>1, <2>o DEF Listed
    <3>3. ASSUME rows'[i].status = "retry_waiting"
          PROVE  t = Retrier /\ thr'[t].pc \in {"pick", "write"}
      <4>1. rows[i].status = "retry_waiting"
        BY <2>1, <2>h, <2>o, <3>3 DEF Deferred
      <4> QED
        BY <2>1, <2>o, <3>3, <4>1, Zenon DEF Marked
    <3> QED
      BY <3>1, <3>2, <3>3
  <2>2. CASE ~Dispatching(t, i) /\ ~Exists(i)
    <3>1. /\ rows'[i].status = "pending" /\ i \notin scan'
          /\ \A u \in Dispatchers \ {t} : ~Dispatching(u, i)'
      BY <2>2 DEF Taken, IInv, ThreadsOK
    <3> QED
      BY <3>1
  <2>3. CASE ~Dispatching(t, i) /\ Exists(i)
    <3>1. t = Retrier /\ i \in scan \ scan' /\ rows' = rows /\ thr'[t].pc = "pick"
      BY <2>3 DEF Taken
    <3>2. ASSUME NEW u \in Dispatchers, Dispatching(u, i)' PROVE t = u
      BY <2>3, <2>o, <3>1, <3>2 DEF Taken
    <3> QED
      BY <3>1, <3>2
  <2> QED
    BY <2>1, <2>2, <2>3
<1>2. HandedOver'
  <2> SUFFICES ASSUME NEW i \in Ids, NEW w \in Workers, Knows(w, i)'
               PROVE  /\ \A t \in Dispatchers : ~Dispatching(t, i)'
                      /\ i \notin scan'
                      /\ rows'[i].status # "retry_waiting"
                      /\ \A v \in Workers : Knows(v, i)' => v = w
    BY Zenon DEF HandedOver
  <2>h. /\ \A u \in Dispatchers : Dispatching(u, i) => Exists(i)
        /\ \A v \in Workers : Knows(v, i) => Exists(i)
    BY HeldExists
  <2>k. \A v, x \in Workers : Knows(v, i) =>
           /\ \A t \in Dispatchers : ~Dispatching(t, i)
           /\ i \notin scan
           /\ rows[i].status # "retry_waiting"
           /\ Knows(x, i) => x = v
    BY DEF DispatchInv, HandedOver
  <2>1. CASE Knows(w, i)
    <3>1. Exists(i) /\ i \notin scan /\ \A t \in Dispatchers : ~Dispatching(t, i)
      BY <2>1, <2>h, <2>k
    <3>2. \A t \in Dispatchers : ~Dispatching(t, i)'
      BY <3>1 DEF Taken
    <3>3. i \notin scan' /\ rows'[i].status # "retry_waiting"
      BY <2>1, <2>k, <3>1, Zenon DEF Listed, Deferred
    <3>4. \A v \in Workers : Knows(v, i)' => v = w
      BY <2>1, <2>k, <3>1 DEF Sent
    <3> QED
      BY <3>2, <3>3, <3>4
  <2>2. CASE ~Knows(w, i)
    <3>1. PICK t \in Dispatchers : /\ Dispatching(t, i) /\ ~Dispatching(t, i)'
                                  /\ thr[t].pc = "send" /\ thr[t].w = w
                                  /\ UNCHANGED <<rows, scan>>
      BY <2>2 DEF Sent
    <3>2. /\ \A u \in Dispatchers : Dispatching(u, i) => u = t
          /\ i \notin scan /\ rows[i].status # "retry_waiting"
      BY <3>1 DEF DispatchInv, OneDispatcher
    <3>3. \A u \in Dispatchers : ~Dispatching(u, i)'
      BY <2>h, <3>1, <3>2, Zenon DEF Taken
    <3>4. \A v \in Workers : Knows(v, i)' => v = w
      <4>1. \A v \in Workers : ~Knows(v, i)
        BY <2>k, <3>1
      <4> QED
        BY <3>1, <3>2, <4>1 DEF Sent
    <3> QED
      BY <3>1, <3>2, <3>3, <3>4
  <2> QED
    BY <2>1, <2>2, Zenon
<1> QED
  BY <1>1, <1>2 DEF DispatchInv

(* A closed instance that does not wait for the retry loop stays closed.   *)
LEMMA ClosedKept ==
    ASSUME IInv, Taken, Listed, Begun, NEW i \in Ids, Closed(i),
           Exists(i), rows[i].status # "retry_waiting"
    PROVE  Closed(i)'
<1>1. i \notin scan'
  BY DEF Closed, Listed
<1>2. \A t \in Dispatchers : ~Dispatching(t, i)'
  BY DEF Closed, Taken
<1>3. \A w \in Workers : /\ <<w, i>> \notin inbox'
                         /\ exec'[w][i].pc \in {"none", "waitFinal", "done"}
  BY DEF Closed, Begun
<1> QED
  BY <1>1, <1>2, <1>3 DEF Closed

(* A settled and closed instance that nobody reports on stays that way.    *)
LEMMA OverKept ==
    ASSUME IInv, Taken, Listed, Begun, Written, NEW i \in Ids, Over(i),
           \A r \in Reporters : thr[r].src = i => thr[r].pc # "result"
    PROVE  Over(i)'
<1>1. isTerminalStatus(rows'[i].status)
  BY DEF Over, Closed, Written, Writer, isTerminalStatus, Terminal, Exists
<1>2. Exists(i) /\ rows[i].status # "retry_waiting"
  BY DEF Over, isTerminalStatus, Terminal, Exists
<1>3. Closed(i)'
  BY <1>2, ClosedKept DEF Over
<1> QED
  BY <1>1, <1>3 DEF Over

--------------------------------------------------------------------------------
(* Every step is orderly.                                                  *)

Busy == {"pick", "write", "send", "fail"}

(* No run begins and no worker gets to know an instance from a report.     *)
Quiet ==
    \A w \in Workers, i \in Ids :
        /\ exec'[w][i].pc # "none" \/ buf'[w][i] # "none"
              => exec[w][i].pc # "none" \/ buf[w][i] # "none"
        /\ \/ exec'[w][i].pc \in {"none", "waitFinal", "done"}
           \/ exec[w][i].pc \notin {"none", "waitFinal", "done"}

(* The goroutine that waits for handler r goes on, and no other.           *)
Replied(r) ==
    LET w == thr[r].from  i == thr[r].src  IN
    /\ \A v \in Workers, j \in Ids : v # w \/ j # i =>
          exec'[v][j].pc = exec[v][j].pc /\ buf'[v][j] = buf[v][j]
    /\ \/ /\ exec'[w][i].pc = exec[w][i].pc
          /\ exec[w][i].pc \in {"done", "none"} /\ buf[w][i] # "none"
       \/ /\ exec[w][i].pc = "waitRunning" /\ exec'[w][i].pc = "executing"
          /\ buf'[w][i] = buf[w][i]
       \/ exec[w][i].pc = "waitFinal" /\ exec'[w][i].pc = "done"

(* An execution moves on.                                                  *)
RunTo(w, i, pc) == exec' = [exec EXCEPT ![w][i].pc = pc]

(* No other execution moves.                                               *)
LEMMA RunMoves ==
    ASSUME TypeOK, NEW w \in Workers, NEW i \in Ids, NEW pc, RunTo(w, i, pc)
    PROVE  /\ exec'[w][i].pc = pc /\ exec'[w][i].out = exec[w][i].out
           /\ \A v \in Workers, j \in Ids : v # w \/ j # i => exec'[v][j] = exec[v][j]
<1>1. exec[w][i] \in Runs
  BY DEF TypeOK
<1>2. /\ exec'[w][i] = [exec[w][i] EXCEPT !.pc = pc]
      /\ \A v \in Workers, j \in Ids : v # w \/ j # i => exec'[v][j] = exec[v][j]
  BY Zenon DEF TypeOK, RunTo
<1> QED
  BY <1>1, <1>2 DEF Runs

(* Reply, when every handler is waited for.                                *)
LEMMA ReplyMoves ==
    ASSUME IInv, HandlerInv, NEW r \in Reporters, thr[r].pc # "idle",
           NEW ok \in BOOLEAN, Reply(r, ok)
    PROVE  /\ thr[r].from \in Workers /\ thr[r].src \in Ids /\ Replied(r)
<1>1. PICK w \in Workers, i \in Ids : w = thr[r].from /\ i = thr[r].src
  BY Zenon DEF IInv, ThreadsOK, Reports
<1>2. Waited(r) /\ thr[r].awaited
  BY Zenon DEF HandlerInv, Waited
<1>3. TypeOK
  BY DEF IInv
<1>4. \A v \in Workers, j \in Ids : v # w \/ j # i => buf'[v][j] = buf[v][j]
  BY <1>1, <1>2, <1>3 DEF Reply, TypeOK
<1>5. CASE thr[r].flush
  <2>1. exec' = exec
    BY <1>2, <1>5 DEF Reply
  <2>2. exec[w][i].pc \in {"done", "none"} /\ buf[w][i] # "none"
    BY <1>1, <1>2, <1>5, Zenon DEF Waited
  <2> QED
    BY <1>1, <1>4, <2>1, <2>2, Zenon DEF Replied
<1>6. CASE ~thr[r].flush /\ thr[r].st = "running"
  <2>1. RunTo(w, i, "executing") /\ buf' = buf
    BY <1>1, <1>2, <1>6 DEF Reply, RunTo
  <2>2. exec[w][i].pc = "waitRunning"
    BY <1>1, <1>2, <1>6, Zenon DEF Waited
  <2>3. /\ exec'[w][i].pc = "executing"
        /\ \A v \in Workers, j \in Ids : v # w \/ j # i => exec'[v][j] = exec[v][j]
    BY <1>3, <2>1, RunMoves
  <2> QED
    BY <1>1, <1>4, <2>1, <2>2, <2>3, Zenon DEF Replied
<1>7. CASE ~thr[r].flush /\ thr[r].st # "running"
  <2>1. RunTo(w, i, "done")
    BY <1>1, <1>2, <1>7 DEF Reply, RunTo
  <2>2. exec[w][i].pc = "waitFinal"
    BY <1>1, <1>2, <1>7, Zenon DEF Waited
  <2>3. /\ exec'[w][i].pc = "done"
        /\ \A v \in Workers, j \in Ids : v # w \/ j # i => exec'[v][j] = exec[v][j]
    BY <1>3, <2>1, RunMoves
  <2> QED
    BY <1>1, <1>4, <2>2, <2>3, Zenon DEF Replied
<1> QED
  BY <1>1, <1>5, <1>6, <1>7

(* A reply begins nothing.                                                 *)
LEMMA ReplyQuiet ==
    ASSUME NEW r \in Reporters, Replied(r)
    PROVE  Quiet
BY Zenon DEF Replied, Quiet

(* A goroutine that goes on with its own instance, or gives it up.         *)
LEMMA OneGoes ==
    ASSUME IInv, NEW t \in Dispatchers, Only(t), scan' \subseteq scan, Quiet,
           thr'[t].pc \in Busy => thr[t].pc \in Busy /\ thr'[t].id = thr[t].id,
           /\ thr[t].pc \in {"pick", "write"} /\ thr'[t].pc \in {"send", "fail"} /\ t = Retrier
              => rows'[thr[t].id].status = "dispatched",
           \/ rows' = rows
           \/ \E s : /\ thr[t].pc \in Busy /\ thr[t].id \in Ids /\ Puts(thr[t].id, s)
                     /\ s \in {"retry_waiting"} \cup Terminal => thr'[t].pc \notin Busy,
           \/ inbox' = inbox
           \/ /\ DispatchOK(t) /\ thr[t].pc = "send" /\ thr'[t].pc \notin Busy
              /\ UNCHANGED <<rows, scan>>
    PROVE  Orderly
<1>1. \A u \in Dispatchers \ {t} : thr'[u] = thr[u]
  BY DEF Only, Dispatchers, Threads
<1>2. \A u \in Dispatchers, i \in Ids : Dispatching(u, i)' => Dispatching(u, i)
  BY <1>1 DEF Dispatching, Busy
<1>3. \A i \in Ids : rows'[i].status # rows[i].status =>
         /\ Dispatching(t, i)
         /\ rows'[i].status \in {"retry_waiting"} \cup Terminal => ~Dispatching(t, i)'
  BY Zenon DEF Puts, Dispatching, Busy
<1>4. Taken /\ Listed
  BY <1>2, Zenon DEF Taken, Listed
<1>5. Deferred
  BY <1>3, Zenon DEF Deferred
<1>6. Marked
  <2>1. CASE t = Retrier
    BY <2>1 DEF Marked, Dispatching
  <2>2. CASE t # Retrier
    BY <1>1, <2>2, Zenon DEF Marked, Dispatchers
  <2> QED
    BY <2>1, <2>2
<1>7. ASSUME NEW w \in Workers, NEW i \in Ids, <<w, i>> \in inbox', <<w, i>> \notin inbox
      PROVE  /\ Dispatching(t, i) /\ ~Dispatching(t, i)'
             /\ thr[t].pc = "send" /\ thr[t].w = w /\ UNCHANGED <<rows, scan>>
  <2>1. /\ DispatchOK(t) /\ thr[t].pc = "send" /\ thr'[t].pc \notin Busy
        /\ UNCHANGED <<rows, scan>>
    BY <1>7, Zenon
  <2>2. w = thr[t].w /\ i = thr[t].id
    BY <1>7, <2>1 DEF DispatchOK
  <2> QED
    BY <2>1, <2>2 DEF Dispatching, Busy
<1>8. Sent
  BY <1>7, Zenon DEF Sent, Knows, Quiet
<1>9. Begun
  BY <1>7, Zenon DEF Begun, Quiet
<1>10. Written
  BY <1>3, Zenon DEF Written, Writer
<1>11. Settled
  BY <1>3, Zenon DEF Settled, isTerminalStatus
<1> QED
  BY <1>4, <1>5, <1>6, <1>8, <1>9, <1>10, <1>11 DEF Orderly

(* A step that moves no dispatcher, writes no row and begins nothing.      *)
LEMMA OthersGo ==
    ASSUME \A t \in Dispatchers, i \in Ids : Dispatching(t, i)' => Dispatching(t, i),
           thr'[Retrier].pc \in Busy => thr'[Retrier].pc = thr[Retrier].pc,
           scan' \subseteq scan, \A i \in Ids : rows'[i].status = rows[i].status,
           inbox' \subseteq inbox, Quiet
    PROVE  Orderly
<1>1. Taken /\ Listed /\ Deferred
  BY Zenon DEF Taken, Listed, Deferred
<1>2. Marked
  BY DEF Marked, Dispatching, Busy
<1>3. Sent /\ Begun
  BY Zenon DEF Sent, Begun, Quiet, Knows
<1>4. Written /\ Settled
  BY Zenon DEF Written, Settled
<1> QED
  BY <1>1, <1>2, <1>3, <1>4, Zenon DEF Orderly

(* CreateInstance: a new row in the hands of the goroutine that creates it, *)
(* or left to the retry loop.                                              *)
LEMMA CreateOrderly ==
    ASSUME IInv, NEW t \in Dispatchers, Only(t), thr[t].pc \notin Busy,
           NEW i \in Ids, ~Exists(i), \A j \in Ids \ {i} : rows'[j] = rows[j],
           \/ thr'[t].pc \in Busy /\ thr'[t].id = i /\ rows'[i].status = "pending"
           \/ thr'[t].pc \notin Busy /\ rows'[i].status = "retry_waiting",
           scan' = scan, inbox' = inbox, Quiet
    PROVE  Orderly
<1>1. \A u \in Dispatchers \ {t} : thr'[u] = thr[u]
  BY DEF Only, Dispatchers, Threads
<1>2. \A u \in Dispatchers : ~Dispatching(u, i)
  BY HeldExists
<1>3. i \notin scan
  BY Zenon DEF IInv, ThreadsOK
<1>4. Taken
  BY <1>1, <1>2, <1>3 DEF Taken, Dispatching, Busy
<1>5. Listed
  BY Zenon DEF Listed
<1>6. Deferred
  BY <1>1, <1>2, Zenon DEF Deferred, Dispatching, Busy
<1>7. Marked
  BY <1>1 DEF Marked, Dispatching, Dispatchers, Busy
<1>8. Sent /\ Begun
  BY Zenon DEF Sent, Begun, Knows, Quiet
<1>9. Written /\ Settled
  BY Zenon DEF Written, Settled, isTerminalStatus, Terminal
<1> QED
  BY <1>4, <1>5, <1>6, <1>7, <1>8, <1>9, Zenon DEF Orderly

(* No call is repeated.                                                    *)
Reliable == Faults \cap Repeating = {}

(* An error of Dispatch means that the worker did not get the request.     *)
LEMMA DispatchErrLost ==
    ASSUME Reliable, HandlerInv, NEW t, thr[t].pc # "idle", DispatchErr(t)
    PROVE  inbox' = inbox
<1>1. ~ContextDead(t)
  BY DEF ContextDead, HandlerInv, Waited
<1> QED
  BY <1>1, Zenon DEF DispatchErr, Reliable, Repeating

(* Unchanged executions and files begin nothing.                           *)
LEMMA SameQuiet ==
    ASSUME UNCHANGED <<exec, buf>>
    PROVE  Quiet
BY DEF Quiet

(* The trigger loop and the engine callback.                               *)
LEMMA TriggerOrderly ==
    ASSUME IInv, Reliable, HandlerInv, NEW c \in Creators, Trigger(c)
    PROVE  Orderly
<1>m. c \in Threads /\ c \in Dispatchers /\ c # Retrier
  BY ThreadsDistinct DEF Threads, Dispatchers
<1>t. TypeOK
  BY DEF IInv
<1>h. Holds(c)
  BY <1>m DEF IInv, ThreadsOK
<1>1. CASE TriggerCreate(c)
  <2>1. PICK i \in Ids :
           /\ Fresh(i) /\ CreateInstance(i, "pending", 0, TRUE, 0)
           /\ thr' = [thr EXCEPT ![c] = [Idle EXCEPT !.pc = "pick", !.id = i]]
    BY <1>1, Zenon DEF TriggerCreate
  <2>2. Only(c) /\ thr'[c].pc = "pick" /\ thr'[c].id = i
    BY <1>m, <1>t, <2>1 DEF TypeOK, Idle, Only
  <2>3. rows'[i].status = "pending" /\ \A j \in Ids \ {i} : rows'[j] = rows[j]
    BY <1>t, <2>1 DEF TypeOK, CreateInstance
  <2>4. Quiet /\ scan' = scan /\ inbox' = inbox /\ thr[c].pc = "idle"
    BY <1>1, SameQuiet DEF TriggerCreate, At
  <2>5. ~Exists(i)
    BY <2>1 DEF Fresh
  <2> QED
    BY <1>m, <2>2, <2>3, <2>4, <2>5, CreateOrderly DEF Busy
<1>2. CASE TriggerNoWorker(c)
  <2>1. Only(c) /\ thr'[c].pc = "idle" /\ Quiet
    BY <1>2, <1>m, <1>t, StopMoves, SameQuiet, Zenon DEF TriggerNoWorker
  <2> QED
    BY <1>2, <1>m, <2>1, OneGoes, Zenon DEF TriggerNoWorker, Busy
<1>3. CASE TriggerPick(c)
  <2>1. Only(c) /\ thr'[c].pc = "write" /\ thr'[c].id = thr[c].id /\ Quiet
    BY <1>3, <1>m, <1>t, PickMoves, SameQuiet, Zenon DEF TriggerPick
  <2> QED
    BY <1>3, <1>m, <2>1, OneGoes, Zenon DEF TriggerPick, Busy, At
<1>4. CASE TriggerWrite(c)
  <2>1. Only(c) /\ thr'[c].pc = "send" /\ thr'[c].id = thr[c].id /\ Quiet
    BY <1>4, <1>m, <1>t, GotoMoves, SameQuiet, Zenon DEF TriggerWrite
  <2>2. thr[c].id \in Ids /\ thr[c].w \in Workers
    BY <1>4, <1>h, Zenon DEF TriggerWrite, At, Holds
  <2>3. rows' = rows \/ Puts(thr[c].id, "dispatched")
    BY <1>4, <1>t, <2>2, DispatchPuts DEF TriggerWrite
  <2> QED
    <3>1. scan' = scan /\ inbox' = inbox /\ thr[c].pc = "write"
      BY <1>4 DEF TriggerWrite, At
    <3>2. "dispatched" \notin {"retry_waiting"} \cup Terminal
      BY DEF Terminal
    <3>3. thr[c].pc \in Busy /\ thr'[c].pc \in Busy
      BY <2>1, <3>1 DEF Busy
    <3> QED
      BY <1>m, <2>1, <2>2, <2>3, <3>1, <3>2, <3>3, OneGoes
<1>5. CASE TriggerSend(c)
  <2>q. Quiet
    BY <1>5, SameQuiet DEF TriggerSend
  <2>1. CASE DispatchOK(c) /\ Stop(c)
    <3>1. Only(c) /\ thr'[c].pc = "idle"
      BY <1>m, <1>t, <2>1, StopMoves
    <3> QED
      BY <1>5, <1>m, <2>q, <2>1, <3>1, OneGoes, Zenon DEF TriggerSend, Busy, At
  <2>2. CASE DispatchErr(c) /\ Goto(c, "fail")
    <3>1. Only(c) /\ thr'[c].pc = "fail" /\ thr'[c].id = thr[c].id
      BY <1>m, <1>t, <2>2, GotoMoves, Zenon
    <3>2. inbox' = inbox
      BY <1>5, <2>2, DispatchErrLost DEF TriggerSend, At
    <3> QED
      BY <1>5, <1>m, <2>q, <3>1, <3>2, OneGoes, Zenon DEF TriggerSend, Busy, At
  <2> QED
    BY <1>5, <2>1, <2>2 DEF TriggerSend
<1>6. CASE TriggerFail(c)
  <2>1. Only(c) /\ thr'[c].pc = "idle" /\ Quiet
    BY <1>6, <1>m, <1>t, StopMoves, SameQuiet, Zenon DEF TriggerFail
  <2>2. thr[c].id \in Ids
    BY <1>6, <1>h DEF TriggerFail, At, Holds
  <2>3. rows' = rows \/ Puts(thr[c].id, "failed")
    BY <1>6, <1>t, <2>2, StatusPuts DEF TriggerFail, UpdateInstanceResult
  <2> QED
    BY <1>6, <1>m, <2>1, <2>2, <2>3, OneGoes, Zenon DEF TriggerFail, Busy, At
<1> QED
  BY <1>1, <1>2, <1>3, <1>4, <1>5, <1>6 DEF Trigger

(* The retry loop.                                                         *)
LEMMA RetryOrderly ==
    ASSUME IInv, Reliable, HandlerInv, Retry
    PROVE  Orderly
<1>m. Retrier \in Threads /\ Retrier \in Dispatchers
  BY DEF Threads, Dispatchers
<1>t. TypeOK
  BY DEF IInv
<1>h. Holds(Retrier)
  BY <1>m DEF IInv, ThreadsOK
<1>q. CASE RetryScan
  <2>1. Only(Retrier) /\ thr'[Retrier].pc = "next"
    BY <1>q, <1>t, ContinueMoves DEF RetryScan
  <2>2. \A t \in Dispatchers, i \in Ids : Dispatching(t, i)' => Dispatching(t, i)
    BY <2>1 DEF Dispatching, Only, Dispatchers, Threads
  <2>3. Taken /\ Deferred
    BY <1>q, <2>2, Zenon DEF Taken, Deferred, RetryScan
  <2>4. Listed
    BY <1>q, <2>1 DEF Listed, RetryScan, DueRetries, Dispatching
  <2>5. Marked
    BY <2>1 DEF Marked, Dispatching
  <2>6. Sent /\ Begun
    BY <1>q, Zenon DEF Sent, Begun, Knows, RetryScan
  <2>7. Written /\ Settled
    BY <1>q, Zenon DEF Written, Settled, RetryScan
  <2> QED
    BY <2>3, <2>4, <2>5, <2>6, <2>7 DEF Orderly
<1>1. CASE RetryDone
  <2>1. Only(Retrier) /\ thr'[Retrier].pc = "idle" /\ Quiet
    BY <1>1, <1>m, <1>t, StopMoves, SameQuiet, Zenon DEF RetryDone
  <2> QED
    BY <1>1, <1>m, <2>1, OneGoes, Zenon DEF RetryDone, Busy
<1>2. CASE RetryNext
  <2>1. PICK i \in scan :
           /\ scan' = scan \ {i}
           /\ \/ thr' = [thr EXCEPT ![Retrier].pc = "pick", ![Retrier].id = i]
              \/ UNCHANGED thr
    BY <1>2 DEF RetryNext
  <2>2. i \in Ids /\ thr[Retrier].pc = "next"
    BY <1>2, <1>t DEF TypeOK, RetryNext, At
  <2>q. UNCHANGED <<rows, inbox, exec, buf>>
    BY <1>2 DEF RetryNext
  <2>3. CASE thr' = [thr EXCEPT ![Retrier].pc = "pick", ![Retrier].id = i]
    <3>1. Only(Retrier) /\ thr'[Retrier].pc = "pick" /\ thr'[Retrier].id = i
      BY <1>m, <1>t, <2>2, <2>3, HoldMoves, Zenon
    <3>2. \A u \in Dispatchers \ {Retrier} : thr'[u] = thr[u]
      BY <3>1 DEF Only, Dispatchers, Threads
    <3>3. Taken /\ Listed
      BY <2>1, <2>q, <3>1, <3>2 DEF Taken, Listed, Dispatching
    <3>4. Deferred /\ Written /\ Settled
      BY <2>q, Zenon DEF Deferred, Written, Settled
    <3>5. Marked
      BY <2>2 DEF Marked, Dispatching
    <3>6. Sent /\ Begun
      BY <2>q DEF Sent, Begun, Knows
    <3> QED
      BY <3>3, <3>4, <3>5, <3>6 DEF Orderly
  <2>4. CASE UNCHANGED thr
    <3>1. Only(Retrier) /\ thr'[Retrier].pc = "next" /\ Quiet
      BY <2>2, <2>4, <2>q, SameQuiet DEF Only
    <3> QED
      BY <1>m, <2>1, <2>q, <3>1, OneGoes DEF Busy
  <2> QED
    BY <2>1, <2>3, <2>4
<1>3. CASE RetryPick
  <2>1. /\ Only(Retrier) /\ thr'[Retrier].pc = "write"
        /\ thr'[Retrier].id = thr[Retrier].id /\ Quiet
    BY <1>3, <1>m, <1>t, PickMoves, SameQuiet, Zenon DEF RetryPick
  <2> QED
    BY <1>3, <1>m, <2>1, OneGoes, Zenon DEF RetryPick, Busy, At
<1>4. CASE RetryNoWorker
  <2>1. Only(Retrier) /\ thr'[Retrier].pc \in {"idle", "next"}
    BY <1>4, <1>m, <1>t, StopMoves, ContinueMoves DEF RetryNoWorker
  <2>2. scan' \subseteq scan /\ Quiet
    BY <1>4, SameQuiet DEF RetryNoWorker
  <2> QED
    BY <1>4, <1>m, <2>1, <2>2, OneGoes DEF RetryNoWorker, Busy
<1>5. CASE RetryWrite
  <2>1. thr[Retrier].id \in Ids /\ thr[Retrier].w \in Workers
    BY <1>5, <1>h, Zenon DEF RetryWrite, At, Holds
  <2>q. Quiet
    BY <1>5, SameQuiet DEF RetryWrite
  <2>2. CASE /\ UpdateInstanceDispatch(thr[Retrier].id, thr[Retrier].w)
             /\ Goto(Retrier, "send")
    <3>1. /\ Only(Retrier) /\ thr'[Retrier].pc = "send"
          /\ thr'[Retrier].id = thr[Retrier].id
      BY <1>m, <1>t, <2>2, GotoMoves
    <3>2. Puts(thr[Retrier].id, "dispatched")
      BY <1>t, <2>1, <2>2, DispatchPuts
    <3>3. rows'[thr[Retrier].id].status = "dispatched"
      BY <3>2 DEF Puts
    <3> QED
      BY <1>5, <1>m, <2>1, <2>q, <3>1, <3>2, <3>3, OneGoes, Zenon
         DEF RetryWrite, Busy, At, Terminal
  <2>3. CASE UNCHANGED rows /\ Continue
    <3>1. Only(Retrier) /\ thr'[Retrier].pc = "next"
      BY <1>t, <2>3, ContinueMoves
    <3> QED
      BY <1>5, <1>m, <2>3, <2>q, <3>1, OneGoes, Zenon DEF RetryWrite, Busy
  <2> QED
    BY <1>5, <2>2, <2>3 DEF RetryWrite
<1>6. CASE RetrySend
  <2>q. Quiet
    BY <1>6, SameQuiet DEF RetrySend
  <2>1. CASE DispatchOK(Retrier) /\ Continue
    <3>1. Only(Retrier) /\ thr'[Retrier].pc = "next"
      BY <1>t, <2>1, ContinueMoves
    <3> QED
      BY <1>6, <1>m, <2>q, <2>1, <3>1, OneGoes, Zenon DEF RetrySend, Busy, At
  <2>2. CASE DispatchErr(Retrier) /\ Goto(Retrier, "fail")
    <3>1. /\ Only(Retrier) /\ thr'[Retrier].pc = "fail"
          /\ thr'[Retrier].id = thr[Retrier].id
      BY <1>m, <1>t, <2>2, GotoMoves
    <3>2. inbox' = inbox
      BY <1>6, <2>2, DispatchErrLost DEF RetrySend, At
    <3> QED
      BY <1>6, <1>m, <2>q, <3>1, <3>2, OneGoes, Zenon DEF RetrySend, Busy, At
  <2> QED
    BY <1>6, <2>1, <2>2 DEF RetrySend
<1>7. CASE RetryFail
  <2>1. Only(Retrier) /\ thr'[Retrier].pc = "next" /\ Quiet
    BY <1>7, <1>t, ContinueMoves, SameQuiet DEF RetryFail
  <2>2. thr[Retrier].id \in Ids
    BY <1>7, <1>h DEF RetryFail, At, Holds
  <2>3. rows' = rows \/ Puts(thr[Retrier].id, "retry_waiting")
    BY <1>7, <1>t, <2>2, StatusPuts DEF RetryFail, UpdateInstanceStatus
  <2> QED
    BY <1>7, <1>m, <2>1, <2>2, <2>3, OneGoes, Zenon DEF RetryFail, Busy, At
<1> QED
  BY <1>q, <1>1, <1>2, <1>3, <1>4, <1>5, <1>6, <1>7 DEF Retry

(* A handler that answers is idle, and answered the goroutine that waited. *)
LEMMA AnswerMoves ==
    ASSUME IInv, HandlerInv, NEW r \in Reporters, thr[r].pc # "idle",
           NEW ok \in BOOLEAN, Reply(r, ok), Stop(r)
    PROVE  Only(r) /\ thr'[r].pc = "idle" /\ Replied(r) /\ Quiet
<1>1. Only(r) /\ thr'[r].pc = "idle"
  BY StopMoves DEF IInv, Threads
<1>2. Replied(r) /\ Quiet
  BY ReplyMoves, ReplyQuiet
<1> QED
  BY <1>1, <1>2

(* ReportResult writes the row the report is about.                        *)
LEMMA ResultOrderly ==
    ASSUME IInv, HandlerInv, NEW r \in Reporters, ReportResult(r)
    PROVE  /\ Orderly /\ Only(r) /\ Puts(thr[r].src, thr[r].st)
           /\ \/ thr[r].st = "running" /\ thr'[r].pc = "idle" /\ Replied(r)
              \/ /\ thr[r].st # "running" /\ thr'[r].pc = "retry"
                 /\ SameReport(r) /\ UNCHANGED <<exec, buf>>
<1>t. TypeOK
  BY DEF IInv
<1>m. r \in Threads /\ r \in Dispatchers /\ r # Retrier
  BY ThreadsDistinct DEF Threads, Dispatchers
<1>1. thr[r].pc = "result" /\ UNCHANGED <<scan, inbox>>
  BY DEF ReportResult, At
<1>2. thr[r].src \in Ids /\ Exists(thr[r].src)
  BY <1>1, Zenon DEF IInv, ThreadsOK, Reports
<1>3. thr[r].st \in {"running"} \cup Outcomes
  BY <1>1, <1>m, Zenon DEF IInv, ThreadsOK, Reports, TypeOK, ThreadStates
<1>4. Puts(thr[r].src, thr[r].st)
  BY <1>t, <1>2, StatusPuts, Zenon DEF ReportResult, UpdateInstanceResult
<1>5. /\ Only(r) /\ Quiet
      /\ \/ thr[r].st = "running" /\ thr'[r].pc = "idle" /\ Replied(r)
         \/ /\ thr[r].st # "running" /\ thr'[r].pc = "retry"
            /\ SameReport(r) /\ UNCHANGED <<exec, buf>>
  <2>1. CASE thr[r].st = "running"
    BY <1>1, <2>1, AnswerMoves, Zenon DEF ReportResult
  <2>2. CASE thr[r].st # "running"
    BY <1>m, <1>t, <2>2, GotoMoves, SameQuiet, Zenon DEF ReportResult
  <2> QED
    BY <2>1, <2>2
<1>6. \A t \in Dispatchers, i \in Ids : Dispatching(t, i)' => Dispatching(t, i)
  BY <1>5 DEF Dispatching, Only, Dispatchers, Threads
<1>7. Taken /\ Listed
  BY <1>1, <1>6, Zenon DEF Taken, Listed
<1>8. Deferred
  BY <1>3, <1>4, Parameters, Zenon DEF Deferred, Puts
<1>9. Marked
  BY <1>m, <1>5, Zenon DEF Marked, Only, Threads
<1>10. Sent /\ Begun
  BY <1>1, <1>5, Zenon DEF Sent, Begun, Knows, Quiet
<1>11. Written
  BY <1>1, <1>4, Zenon DEF Written, Writer, Puts
<1>12. Settled
  BY <1>1, <1>4, <1>5, Zenon DEF Settled, Puts
<1> QED
  BY <1>4, <1>5, <1>7, <1>8, <1>9, <1>10, <1>11, <1>12 DEF Orderly

(* retryIfNeeded: the row is new, and the handler goes on with it or, when  *)
(* the retry is deferred, answers.                                         *)
LEMMA RetryCreated ==
    ASSUME IInv, HandlerInv, NEW r \in Reporters, ReportCreate(r)
    PROVE  /\ Orderly /\ Only(r)
           /\ \E i \in Ids : /\ ~Exists(i) /\ rows'[i].parent = thr[r].src
                             /\ \A j \in Ids \ {i} : rows'[j] = rows[j]
           /\ \/ thr'[r].pc = "idle" /\ Replied(r)
              \/ thr'[r].pc = "pick" /\ SameReport(r) /\ UNCHANGED <<exec, buf>>
<1>t. TypeOK
  BY DEF IInv
<1>m. r \in Threads /\ r \in Dispatchers
  BY DEF Threads, Dispatchers
<1>1. thr[r].pc = "create" /\ UNCHANGED <<scan, inbox>>
  BY DEF ReportCreate, At
<1>2. PICK i \in Ids :
         /\ Fresh(i)
         /\ CreateInstance(i, IF Backoff THEN "retry_waiting" ELSE "pending",
                           rows[thr[r].src].retryCount + 1, ~Backoff, thr[r].src)
         /\ IF Backoff
            THEN /\ \E ok \in BOOLEAN : (ok \/ CallFails(r)) /\ Reply(r, ok)
                 /\ Stop(r)
            ELSE /\ thr' = [thr EXCEPT ![r].pc = "pick", ![r].id = i]
                 /\ UNCHANGED <<exec, buf>>
  BY DEF ReportCreate
<1>3. ~Exists(i)
  BY <1>2 DEF Fresh
<1>4. /\ rows'[i].status = IF Backoff THEN "retry_waiting" ELSE "pending"
      /\ rows'[i].parent = thr[r].src
      /\ \A j \in Ids \ {i} : rows'[j] = rows[j]
  BY <1>t, <1>2 DEF TypeOK, CreateInstance
<1>5. CASE Backoff
  <2>1. Only(r) /\ thr'[r].pc = "idle" /\ Replied(r) /\ Quiet
    BY <1>1, <1>2, <1>5, AnswerMoves
  <2>2. Orderly
    BY <1>1, <1>3, <1>4, <1>5, <1>m, <2>1, CreateOrderly DEF Busy
  <2> QED
    BY <1>3, <1>4, <2>1, <2>2, Zenon
<1>6. CASE ~Backoff
  <2>1. Only(r) /\ thr'[r].pc = "pick" /\ thr'[r].id = i /\ SameReport(r)
    BY <1>2, <1>6, <1>m, <1>t, HoldMoves
  <2>2. Quiet
    BY <1>2, <1>6, SameQuiet
  <2>3. Orderly
    BY <1>1, <1>3, <1>4, <1>6, <1>m, <2>1, <2>2, CreateOrderly DEF Busy
  <2> QED
    BY <1>2, <1>3, <1>4, <1>6, <2>1, <2>3
<1> QED
  BY <1>5, <1>6, Zenon

(* A handler goes on in the order of ReportStatus.                         *)
Forward(q) ==
    \/ thr'[q].pc = thr[q].pc
    \/ thr'[q].pc \notin {"result", "retry", "create"}
    \/ /\ thr'[q].pc = "result" /\ rows' = rows
       /\ ~isTerminalStatus(rows[thr[q].src].status)
    \/ /\ thr[q].pc = "result" /\ thr'[q].pc = "retry" /\ thr[q].st # "running"
       /\ isTerminalStatus(rows'[thr[q].src].status)
    \/ thr[q].pc = "retry" /\ thr'[q].pc = "create"

(* Handlers go on with the reports they have, and the workers hear from the *)
(* ones that answer.                                                       *)
Carried ==
    /\ \A q \in Reporters : thr'[q].pc # "idle" =>
          thr[q].pc # "idle" /\ SameReport(q) /\ Forward(q)
    /\ \/ \A w \in Workers, i \in Ids :
             exec'[w][i].pc = exec[w][i].pc /\ buf'[w][i] = buf[w][i]
       \/ \E r \in Reporters : thr[r].pc # "idle" /\ thr'[r].pc = "idle" /\ Replied(r)

(* Handlers past their first statement go on.                              *)
Handled ==
    \A q \in Reporters : thr'[q].pc \in {"result", "retry", "create"} =>
        thr[q].pc # "idle" /\ SameReport(q) /\ Forward(q)

(* A step of another goroutine.                                            *)
LEMMA OtherCarried ==
    ASSUME \A q \in Reporters : thr'[q] = thr[q], UNCHANGED <<exec, buf>>
    PROVE  Carried
BY Zenon DEF Carried, SameReport, Forward

(* A handler that answers.                                                 *)
LEMMA AnswerCarried ==
    ASSUME NEW r \in Reporters, Only(r), thr[r].pc # "idle", thr'[r].pc = "idle", Replied(r)
    PROVE  Carried
<1>1. \A q \in Reporters \ {r} : thr'[q] = thr[q]
  BY DEF Only, Threads
<1> QED
  BY <1>1, Zenon DEF Carried, SameReport, Forward

(* A handler that moves on.                                                *)
LEMMA GoCarried ==
    ASSUME NEW r \in Reporters, Only(r), thr[r].pc # "idle", SameReport(r),
           UNCHANGED <<exec, buf>>,
           \/ thr'[r].pc \in Busy
           \/ /\ thr'[r].pc = "result" /\ rows' = rows
              /\ ~isTerminalStatus(rows[thr[r].src].status)
           \/ /\ thr[r].pc = "result" /\ thr'[r].pc = "retry" /\ thr[r].st # "running"
              /\ isTerminalStatus(rows'[thr[r].src].status)
           \/ thr[r].pc = "retry" /\ thr'[r].pc = "create"
    PROVE  Carried
<1>1. \A q \in Reporters \ {r} : thr'[q] = thr[q]
  BY Zenon DEF Only, Threads
<1>2. \A q \in Reporters \ {r} : SameReport(q) /\ thr'[q].pc = thr[q].pc
  BY <1>1, Zenon DEF SameReport
<1> QED
  BY <1>2, Zenon DEF Carried, Forward, Busy

(* The status-report handlers.                                             *)
LEMMA ReportOrderly ==
    ASSUME IInv, Reliable, HandlerInv, NEW r \in Reporters, ReportStatus(r), ~ReportCreate(r)
    PROVE  Orderly /\ Carried
<1>m. r \in Threads /\ r \in Dispatchers /\ r # Retrier
  BY ThreadsDistinct DEF Threads, Dispatchers
<1>t. TypeOK
  BY DEF IInv
<1>h. Holds(r) /\ Reports(r)
  BY <1>m DEF IInv, ThreadsOK
<1>a. ASSUME thr[r].pc # "idle", NEW ok \in BOOLEAN, Reply(r, ok), Stop(r),
             scan' = scan, inbox' = inbox,
             \/ rows' = rows
             \/ thr[r].pc \in Busy /\ UpdateInstanceStatus(thr[r].id, "retry_waiting")
      PROVE  Orderly /\ Carried
  <2>1. Only(r) /\ thr'[r].pc = "idle" /\ Replied(r) /\ Quiet
    BY <1>a, AnswerMoves, Zenon
  <2>2. \/ rows' = rows
        \/ /\ thr[r].pc \in Busy /\ thr[r].id \in Ids
           /\ Puts(thr[r].id, "retry_waiting")
    BY <1>a, <1>h, <1>t, StatusPuts DEF Holds, Busy, UpdateInstanceStatus
  <2>3. Orderly
    BY <1>a, <1>m, <2>1, <2>2, OneGoes, Zenon DEF Busy
  <2> QED
    BY <1>a, <2>1, <2>3, AnswerCarried, Zenon
<1>1. CASE ReportRead(r)
  <2>1. CASE isTerminalStatus(rows[thr[r].src].status)
    BY <1>1, <1>a, <2>1, Zenon DEF ReportRead, At
  <2>2. CASE ~isTerminalStatus(rows[thr[r].src].status)
    <3>1. Goto(r, "result") /\ UNCHANGED <<rows, scan, inbox, exec, buf>> /\ thr[r].pc = "read"
      BY <1>1, <2>2 DEF ReportRead, At
    <3>2. Only(r) /\ SameReport(r) /\ thr'[r].pc = "result" /\ Quiet
      BY <1>m, <1>t, <3>1, GotoMoves, SameQuiet, Zenon
    <3>3. Orderly
      BY <1>m, <3>1, <3>2, OneGoes, Zenon DEF Busy
    <3> QED
      BY <2>2, <3>1, <3>2, <3>3, GoCarried, Zenon
  <2> QED
    BY <2>1, <2>2, Zenon
<1>2. CASE ReportResult(r)
  <2>1. thr[r].pc = "result"
    BY <1>2 DEF ReportResult, At
  <2>2. /\ Orderly /\ Only(r) /\ Puts(thr[r].src, thr[r].st)
        /\ \/ thr[r].st = "running" /\ thr'[r].pc = "idle" /\ Replied(r)
           \/ /\ thr[r].st # "running" /\ thr'[r].pc = "retry"
              /\ SameReport(r) /\ UNCHANGED <<exec, buf>>
    BY <1>2, ResultOrderly, Zenon
  <2>3. CASE thr[r].st = "running"
    BY <2>1, <2>2, <2>3, AnswerCarried, Zenon
  <2>4. CASE thr[r].st # "running"
    <3>1. thr[r].st \in Outcomes
      BY <1>h, <1>m, <1>t, <2>1, <2>4, Zenon DEF Reports, TypeOK, ThreadStates
    <3>2. isTerminalStatus(rows'[thr[r].src].status)
      BY <2>2, <3>1, Parameters, Zenon DEF Puts, isTerminalStatus, Terminal
    <3> QED
      BY <2>1, <2>2, <2>4, <3>2, GoCarried, Zenon
  <2> QED
    BY <2>3, <2>4
<1>3. CASE ReportDecide(r)
  <2>1. CASE ~retryWanted(thr[r].src, thr[r].st)
    BY <1>3, <1>a, <2>1, Zenon DEF ReportDecide, At
  <2>2. CASE retryWanted(thr[r].src, thr[r].st)
    <3>1. Goto(r, "create") /\ UNCHANGED <<rows, scan, inbox, exec, buf>> /\ thr[r].pc = "retry"
      BY <1>3, <2>2, Zenon DEF ReportDecide, At
    <3>2. Only(r) /\ SameReport(r) /\ thr'[r].pc = "create" /\ Quiet
      BY <1>m, <1>t, <3>1, GotoMoves, SameQuiet
    <3>3. Orderly
      BY <1>m, <3>1, <3>2, OneGoes, Zenon DEF Busy
    <3> QED
      BY <3>1, <3>2, <3>3, GoCarried, Zenon
  <2> QED
    BY <2>1, <2>2
<1>4. CASE ReportPick(r)
  <2>1. UNCHANGED <<rows, scan, inbox, exec, buf>> /\ thr[r].pc = "pick"
    BY <1>4 DEF ReportPick, At
  <2>2. /\ Only(r) /\ SameReport(r) /\ thr'[r].pc = "write"
        /\ thr'[r].id = thr[r].id /\ Quiet
    BY <1>4, <1>m, <1>t, PickMoves, SameQuiet, Zenon DEF ReportPick
  <2>3. Orderly
    BY <1>m, <2>1, <2>2, OneGoes, Zenon DEF Busy
  <2> QED
    BY <2>1, <2>2, <2>3, GoCarried, Zenon DEF Busy
<1>5. CASE ReportNoWorker(r)
  BY <1>5, <1>a, Zenon DEF ReportNoWorker, At, Busy
<1>6. CASE ReportWrite(r)
  <2>1. UNCHANGED <<scan, inbox, exec, buf>> /\ thr[r].pc = "write"
    BY <1>6 DEF ReportWrite, At
  <2>2. /\ Only(r) /\ SameReport(r) /\ thr'[r].pc = "send"
        /\ thr'[r].id = thr[r].id /\ Quiet
    BY <1>6, <1>m, <1>t, GotoMoves, SameQuiet, Zenon DEF ReportWrite
  <2>3. thr[r].id \in Ids /\ thr[r].w \in Workers
    BY <1>h, <2>1 DEF Holds
  <2>4. Puts(thr[r].id, "dispatched")
    BY <1>6, <1>t, <2>3, DispatchPuts DEF ReportWrite
  <2>5. Orderly
    <3>1. /\ thr[r].pc \in Busy /\ thr'[r].pc \in Busy
          /\ "dispatched" \notin {"retry_waiting"} \cup Terminal
      BY <2>1, <2>2, Zenon DEF Busy, Terminal
    <3>2. rows'[thr[r].id].status = "dispatched"
      BY <2>4 DEF Puts
    <3>3. scan' \subseteq scan /\ inbox' = inbox
      BY <2>1
    <3>4. \E s : /\ thr[r].pc \in Busy /\ thr[r].id \in Ids /\ Puts(thr[r].id, s)
                 /\ s \in {"retry_waiting"} \cup Terminal => thr'[r].pc \notin Busy
      BY <2>3, <2>4, <3>1, Zenon
    <3> QED
      BY <1>m, <2>2, <3>1, <3>2, <3>3, <3>4, OneGoes, Zenon
  <2> QED
    BY <2>1, <2>2, <2>5, GoCarried, Zenon DEF Busy
<1>7. CASE ReportSend(r)
  <2>q. UNCHANGED <<rows, scan>> /\ thr[r].pc = "send"
    BY <1>7, Zenon DEF ReportSend, At
  <2>1. CASE DispatchOK(r) /\ Reply(r, TRUE) /\ Stop(r)
    <3>1. Only(r) /\ thr'[r].pc = "idle" /\ Replied(r) /\ Quiet
      BY <2>1, <2>q, AnswerMoves, Zenon
    <3>2. Orderly
      BY <1>m, <2>q, <2>1, <3>1, OneGoes, Zenon DEF Busy
    <3> QED
      BY <2>q, <3>1, <3>2, AnswerCarried
  <2>2. CASE DispatchErr(r) /\ Goto(r, "fail") /\ UNCHANGED <<exec, buf>>
    <3>1. /\ Only(r) /\ SameReport(r) /\ thr'[r].pc = "fail"
          /\ thr'[r].id = thr[r].id /\ Quiet
      BY <1>m, <1>t, <2>2, GotoMoves, SameQuiet, Zenon
    <3>2. inbox' = inbox
      BY <2>q, <2>2, DispatchErrLost, Zenon
    <3>3. Orderly
      BY <1>m, <2>q, <3>1, <3>2, OneGoes, Zenon DEF Busy
    <3> QED
      BY <2>q, <2>2, <3>1, <3>3, GoCarried, Zenon DEF Busy
  <2> QED
    BY <1>7, <2>1, <2>2, Zenon DEF ReportSend
<1>8. CASE ReportFail(r)
  BY <1>8, <1>a, Zenon DEF ReportFail, At, Busy
<1>9. CASE ReportAbort(r)
  BY <1>9, <1>a, Zenon DEF ReportAbort
<1> QED
  BY <1>1, <1>2, <1>3, <1>4, <1>5, <1>6, <1>7, <1>8, <1>9 DEF ReportStatus
================================================================================
