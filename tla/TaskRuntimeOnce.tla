---------------------------- MODULE TaskRuntimeOnce ----------------------------
(***************************************************************************)
(* AtMostOneRetry, ExecutedOnce and SettledStable of TaskRuntime for every *)
(* number of workers, handlers and rows, as long as no call times out with *)
(* its work going on and no worker restarts.                               *)
(***************************************************************************)
EXTENDS TaskRuntimeProofs

--------------------------------------------------------------------------------
(* Handlers, local stores and retries.                                     *)

(* The worker a report comes from knows the instance.                      *)
LEMMA ReporterKnows ==
    ASSUME IInv, HandlerInv, NEW r \in Reporters, thr[r].pc # "idle"
    PROVE  /\ thr[r].from \in Workers /\ thr[r].src \in Ids
           /\ Knows(thr[r].from, thr[r].src) /\ Waited(r)
<1>1. thr[r].from \in Workers /\ thr[r].src \in Ids
  BY Zenon DEF IInv, ThreadsOK, Reports
<1>2. Waited(r)
  BY DEF HandlerInv
<1>3. Knows(thr[r].from, thr[r].src)
  BY <1>2 DEF Waited, Knows
<1> QED
  BY <1>1, <1>2, <1>3

(* Two handlers with reports have reports about different instances.       *)
LEMMA OneHandler ==
    ASSUME HandlerInv, NEW q \in Reporters, NEW r \in Reporters,
           thr[q].pc # "idle", thr[r].pc # "idle", thr[q].src = thr[r].src
    PROVE  q = r
BY DEF HandlerInv

(* Steps that carry reports on keep handlers and local stores in turn.     *)
LEMMA CarriedKeeps ==
    ASSUME IInv, DispatchInv, StoreInv, HandlerInv, Begun, Carried
    PROVE  StoreInv' /\ HandlerInv'
<1>1. \A w \in Workers, i \in Ids : <<w, i>> \in inbox' =>
         \/ <<w, i>> \in inbox
         \/ \A v \in Workers : ~Knows(v, i)
  BY DEF Begun, DispatchInv, HandedOver
<1>2. CASE \A w \in Workers, i \in Ids :
              exec'[w][i].pc = exec[w][i].pc /\ buf'[w][i] = buf[w][i]
  <2>1. StoreInv'
    <3> SUFFICES ASSUME NEW v \in Workers, NEW j \in Ids
                 PROVE  /\ <<v, j>> \in inbox' => exec'[v][j].pc = "none" /\ buf'[v][j] = "none"
                        /\ buf'[v][j] # "none" => exec'[v][j].pc \in {"done", "none"}
      BY Zenon DEF StoreInv
    <3> QED
      BY <1>1, <1>2 DEF StoreInv, Knows
  <2>2. ASSUME NEW r \in Reporters, thr'[r].pc # "idle" PROVE Waited(r)'
    <3>1. /\ thr[r].pc # "idle" /\ SameReport(r)
      BY <2>2 DEF Carried
    <3>2. thr[r].from \in Workers /\ thr[r].src \in Ids /\ Waited(r)
      BY <3>1, ReporterKnows
    <3> QED
      <4>1. /\ exec'[thr[r].from][thr[r].src].pc = exec[thr[r].from][thr[r].src].pc
            /\ buf'[thr[r].from][thr[r].src] = buf[thr[r].from][thr[r].src]
        BY <1>2, <3>2, Zenon
      <4> QED
        BY <3>1, <3>2, <4>1, Zenon DEF Waited, SameReport
  <2>3. \A q, r \in Reporters :
           thr'[q].pc # "idle" /\ thr'[r].pc # "idle" /\ thr'[q].src = thr'[r].src => q = r
    BY OneHandler DEF Carried, SameReport
  <2> QED
    BY <2>1, <2>2, <2>3 DEF HandlerInv
<1>3. ASSUME NEW h \in Reporters, thr[h].pc # "idle", thr'[h].pc = "idle", Replied(h)
      PROVE  StoreInv' /\ HandlerInv'
  <2>1. PICK w \in Workers, i \in Ids : w = thr[h].from /\ i = thr[h].src
    BY <1>3, ReporterKnows
  <2>2. Knows(w, i)
    BY <1>3, <2>1, ReporterKnows
  <2>3. /\ \A v \in Workers, j \in Ids : v # w \/ j # i =>
              exec'[v][j].pc = exec[v][j].pc /\ buf'[v][j] = buf[v][j]
        /\ \/ /\ exec'[w][i].pc = exec[w][i].pc
              /\ exec[w][i].pc \in {"done", "none"} /\ buf[w][i] # "none"
           \/ /\ exec[w][i].pc = "waitRunning" /\ exec'[w][i].pc = "executing"
              /\ buf'[w][i] = buf[w][i]
           \/ exec[w][i].pc = "waitFinal" /\ exec'[w][i].pc = "done"
    BY <1>3, <2>1, Zenon DEF Replied
  <2>4. <<w, i>> \notin inbox'
    <3>1. <<w, i>> \notin inbox
      BY <2>3 DEF StoreInv
    <3> QED
      BY <1>1, <2>2, <3>1
  <2>5. StoreInv'
    <3> SUFFICES ASSUME NEW v \in Workers, NEW j \in Ids
                 PROVE  /\ <<v, j>> \in inbox' => exec'[v][j].pc = "none" /\ buf'[v][j] = "none"
                        /\ buf'[v][j] # "none" => exec'[v][j].pc \in {"done", "none"}
      BY Zenon DEF StoreInv
    <3>1. CASE v = w /\ j = i
      BY <2>3, <2>4, <3>1 DEF StoreInv
    <3>2. CASE v # w \/ j # i
      BY <1>1, <2>3, <3>2 DEF StoreInv, Knows
    <3> QED
      BY <3>1, <3>2
  <2>6. ASSUME NEW r \in Reporters, thr'[r].pc # "idle" PROVE Waited(r)'
    <3>1. thr[r].pc # "idle" /\ SameReport(r) /\ r # h
      BY <1>3, <2>6 DEF Carried
    <3>2. thr[r].from \in Workers /\ thr[r].src \in Ids /\ Waited(r)
      BY <3>1, ReporterKnows
    <3>3. thr[r].src # i
      BY <1>3, <2>1, <3>1, OneHandler
    <3>4. /\ exec'[thr[r].from][thr[r].src].pc = exec[thr[r].from][thr[r].src].pc
          /\ buf'[thr[r].from][thr[r].src] = buf[thr[r].from][thr[r].src]
      BY <2>3, <3>2, <3>3
    <3> QED
      BY <3>1, <3>2, <3>4, Zenon DEF Waited, SameReport
  <2>7. \A q, r \in Reporters :
           thr'[q].pc # "idle" /\ thr'[r].pc # "idle" /\ thr'[q].src = thr'[r].src => q = r
    BY OneHandler DEF Carried, SameReport
  <2> QED
    BY <2>5, <2>6, <2>7 DEF HandlerInv
<1> QED
  BY <1>2, <1>3 DEF Carried

(* An instance is closed while its final report is being handled: it        *)
(* ran on one worker, which now waits for this handler or has buffered the  *)
(* report.                                                                 *)
LEMMA FinalOver ==
    ASSUME IInv, DispatchInv, StoreInv, HandlerInv, NEW r \in Reporters,
           thr[r].pc # "idle", thr[r].st # "running", NEW i \in Ids, i = thr[r].src
    PROVE  Closed(i) /\ Exists(i) /\ rows[i].status # "retry_waiting"
<1>1. PICK w \in Workers : w = thr[r].from
  BY ReporterKnows
<1>2. Knows(w, i) /\ Waited(r)
  BY <1>1, ReporterKnows
<1>3. /\ i \notin scan /\ \A t \in Dispatchers : ~Dispatching(t, i)
      /\ rows[i].status # "retry_waiting"
      /\ \A v \in Workers : Knows(v, i) => v = w
  BY <1>2, Zenon DEF DispatchInv, HandedOver
<1>4. exec[w][i].pc \in {"none", "waitFinal", "done"} /\ <<w, i>> \notin inbox
  <2>1. thr[r].from = w /\ thr[r].src = i
    BY <1>1
  <2>2. \/ exec[w][i].pc = "waitFinal"
        \/ exec[w][i].pc \in {"done", "none"} /\ buf[w][i] # "none"
    BY <1>2, <2>1, Zenon DEF Waited
  <2> QED
    BY <2>2, Zenon DEF StoreInv
<1>5. \A v \in Workers \ {w} : <<v, i>> \notin inbox /\ exec[v][i].pc = "none"
  BY <1>3 DEF Knows
<1>6. Exists(i)
  BY <1>2, HeldExists
<1> QED
  BY <1>3, <1>4, <1>5, <1>6 DEF Closed

(* A handler that has decided, or is about to decide, on a retry keeps the  *)
(* instance over.                                                          *)
LEMMA DecidedOver ==
    ASSUME OnceInv, Orderly, NEW r \in Reporters, thr[r].pc \in {"retry", "create"},
           NEW i \in Ids, i = thr[r].src
    PROVE  Over(i)'
<1>1. Over(i)
  BY DEF OnceInv, RetryInv
<1>2. \A q \in Reporters : thr[q].src = i => thr[q].pc # "result"
  BY OneHandler DEF OnceInv
<1> QED
  BY <1>1, <1>2, OverKept DEF OnceInv, Orderly

(* What the steps of the handlers mean for the retries, row by row.        *)
LEMMA CarriedOver ==
    ASSUME OnceInv, Orderly, Handled
    PROVE  /\ \A r \in Reporters, i \in Ids :
                 thr'[r].pc \in {"retry", "create"} /\ thr'[r].src = i => Over(i)'
           /\ \A i, j \in Ids : ChildOf(j, i) =>
                 /\ Over(i)'
                 /\ \A r \in Reporters : thr'[r].src = i =>
                       thr'[r].pc \notin {"result", "retry", "create"}
<1>1. ASSUME NEW r \in Reporters, NEW i \in Ids,
             thr'[r].pc \in {"retry", "create"}, thr'[r].src = i
      PROVE  Over(i)'
  <2>1. /\ thr[r].pc # "idle" /\ thr[r].src = i
        /\ \/ thr[r].pc \in {"retry", "create"}
           \/ /\ thr[r].pc = "result" /\ thr[r].st # "running"
              /\ isTerminalStatus(rows'[i].status)
    BY <1>1 DEF Handled, SameReport, Forward
  <2>2. CASE thr[r].pc \in {"retry", "create"}
    BY <2>1, <2>2, DecidedOver
  <2>3. CASE thr[r].st # "running" /\ isTerminalStatus(rows'[i].status)
    <3>1. Closed(i) /\ Exists(i) /\ rows[i].status # "retry_waiting"
      BY <2>1, <2>3, FinalOver DEF OnceInv
    <3>2. Closed(i)'
      BY <3>1, ClosedKept DEF OnceInv, Orderly
    <3> QED
      BY <2>3, <3>2 DEF Over
  <2> QED
    BY <2>1, <2>2, <2>3
<1>2. ASSUME NEW i \in Ids, NEW j \in Ids, ChildOf(j, i)
      PROVE  /\ Over(i)'
             /\ \A r \in Reporters : thr'[r].src = i =>
                   thr'[r].pc \notin {"result", "retry", "create"}
  <2>1. /\ Over(i)
        /\ \A r \in Reporters :
              thr[r].src = i => thr[r].pc \notin {"result", "retry", "create"}
    BY <1>2 DEF OnceInv, RetryInv
  <2>2. Over(i)'
    BY <2>1, OverKept DEF OnceInv, Orderly
  <2>3. ASSUME NEW r \in Reporters, thr'[r].src = i,
               thr'[r].pc \in {"result", "retry", "create"}
        PROVE  FALSE
    <3>1. /\ thr[r].src = i
          /\ \/ thr'[r].pc = thr[r].pc
             \/ thr'[r].pc = "result" /\ ~isTerminalStatus(rows[i].status)
             \/ thr[r].pc \in {"result", "retry"}
      BY <2>3 DEF Handled, SameReport, Forward
    <3> QED
      BY <2>1, <2>3, <3>1 DEF Over
  <2> QED
    BY <2>2, <2>3
<1> QED
  BY <1>1, <1>2

(* Steps that carry reports on and create no retry row.                    *)
LEMMA RetryKept ==
    ASSUME OnceInv, Orderly, Handled,
           \A i \in Ids : Exists(i)' /\ rows'[i].parent # 0 =>
              Exists(i) /\ rows'[i].parent = rows[i].parent
    PROVE  RetryInv'
<1>1. \A i, j \in Ids : ChildOf(j, i)' => ChildOf(j, i)
  BY Parameters DEF ChildOf, Ids
<1>2. \A i, j \in Ids : ChildOf(j, i) =>
         /\ Over(i)'
         /\ \A r \in Reporters : thr'[r].src = i =>
               thr'[r].pc \notin {"result", "retry", "create"}
  BY CarriedOver
<1>3. \A r \in Reporters, i \in Ids :
         thr'[r].pc \in {"retry", "create"} /\ thr'[r].src = i => Over(i)'
  BY CarriedOver
<1>4. AtMostOneRetry'
  BY DEF OnceInv, RetryInv, AtMostOneRetry
<1> QED
  BY <1>1, <1>2, <1>3, <1>4 DEF RetryInv

(* retryIfNeeded: the handler at its INSERT is the only one about its row,  *)
(* which has no retry yet.                                                 *)
LEMMA RetryCreates ==
    ASSUME OnceInv, Orderly, Handled, NEW r \in Reporters, thr[r].pc = "create",
           thr'[r].pc \in {"idle", "pick"},
           NEW i \in Ids, ~Exists(i), rows'[i].parent = thr[r].src,
           \A j \in Ids \ {i} : rows'[j] = rows[j]
    PROVE  RetryInv'
<1>1. PICK p \in Ids : p = thr[r].src
  BY ReporterKnows DEF OnceInv
<1>2. \A j \in Ids : ~ChildOf(j, p)
  BY <1>1 DEF OnceInv, RetryInv
<1>3. ASSUME NEW j \in Ids, NEW k \in Ids, ChildOf(j, k)'
      PROVE  ChildOf(j, k) \/ (j = i /\ k = p)
  <2>1. CASE j = i
    BY <1>1, <1>3, <2>1 DEF ChildOf
  <2>2. CASE j # i
    BY <1>3, <2>2 DEF ChildOf, Exists
  <2> QED
    BY <2>1, <2>2
<1>4. Over(p)'
  BY <1>1, DecidedOver
<1>5. \A q \in Reporters : thr'[q].src = p =>
         thr'[q].pc \notin {"result", "retry", "create"}
  <2> SUFFICES ASSUME NEW q \in Reporters, thr'[q].src = p,
                      thr'[q].pc \in {"result", "retry", "create"}
               PROVE  FALSE
    OBVIOUS
  <2>1. thr[q].pc # "idle" /\ thr[q].src = p
    BY DEF Handled, SameReport, Forward
  <2>2. q = r
    BY <1>1, <2>1, OneHandler DEF OnceInv
  <2> QED
    BY <2>2
<1>6. \A k, j \in Ids : ChildOf(j, k) =>
         /\ Over(k)'
         /\ \A q \in Reporters : thr'[q].src = k =>
               thr'[q].pc \notin {"result", "retry", "create"}
  BY CarriedOver
<1>7. \A q \in Reporters, k \in Ids :
         thr'[q].pc \in {"retry", "create"} /\ thr'[q].src = k => Over(k)'
  BY CarriedOver
<1>8. AtMostOneRetry'
  <2> SUFFICES ASSUME NEW j \in Ids, NEW k \in Ids, Exists(j)', Exists(k)',
                      rows'[j].parent # 0, rows'[j].parent = rows'[k].parent
               PROVE  j = k
    BY DEF AtMostOneRetry
  <2>1. CASE j # i /\ k # i
    BY <2>1 DEF OnceInv, RetryInv, AtMostOneRetry, Exists
  <2>2. CASE j = i /\ k # i
    BY <1>1, <1>2, <2>2 DEF ChildOf, Exists
  <2>3. CASE j # i /\ k = i
    BY <1>1, <1>2, <2>3 DEF ChildOf, Exists
  <2> QED
    BY <2>1, <2>2, <2>3
<1> QED
  BY <1>3, <1>4, <1>5, <1>6, <1>7, <1>8 DEF RetryInv

--------------------------------------------------------------------------------
(* Cancel handlers, workers and restarts.                                  *)

(* CancelInstance.                                                         *)
LEMMA CancelOrderly ==
    ASSUME IInv, NEW c \in Cancellers,
           (\E i \in Ids : CancelRead(c, i)) \/ CancelNotify(c) \/ CancelWrite(c)
    PROVE  /\ Orderly /\ Carried
           /\ \A i \in Ids : rows'[i].parent = rows[i].parent /\ (Exists(i)' => Exists(i))
<1>m. c \in Threads /\ c \notin Dispatchers /\ c \notin Reporters
  BY ThreadsDistinct DEF Threads, Dispatchers
<1>t. TypeOK
  BY DEF IInv
<1>o. Only(c)
  <2>1. CASE \E i \in Ids : CancelRead(c, i)
    BY <1>t, <2>1, Zenon DEF CancelRead, Only, TypeOK
  <2>2. CASE CancelNotify(c)
    BY <1>m, <1>t, <2>2, GotoMoves, Zenon DEF CancelNotify
  <2>3. CASE CancelWrite(c)
    BY <1>m, <1>t, <2>3, StopMoves DEF CancelWrite
  <2> QED
    BY <2>1, <2>2, <2>3
<1>p. \A w \in Workers, i \in Ids :
         exec'[w][i].pc = exec[w][i].pc /\ buf'[w][i] = buf[w][i]
  <2>1. CASE CancelNotify(c)
    <3>1. buf' = buf
      BY <2>1, Zenon DEF CancelNotify
    <3>2. CASE exec' = exec
      BY <3>1, <3>2
    <3>3. CASE /\ thr[c].w \in Workers
               /\ exec' = [exec EXCEPT ![thr[c].w][thr[c].id].out = "failed"]
      <4>1. thr[c].id \in Ids
        BY <1>m, <2>1, Zenon DEF CancelNotify, At, IInv, ThreadsOK, Holds
      <4> SUFFICES ASSUME NEW w \in Workers, NEW i \in Ids
                   PROVE  exec'[w][i].pc = exec[w][i].pc
        BY <3>1
      <4>2. CASE w = thr[c].w /\ i = thr[c].id
        <5>1. exec[w][i] \in Runs
          BY <1>t DEF TypeOK
        <5>2. exec'[w][i] = [exec[w][i] EXCEPT !.out = "failed"]
          BY <1>t, <3>3, <4>2, Zenon DEF TypeOK
        <5> QED
          BY <5>1, <5>2 DEF Runs
      <4>3. CASE w # thr[c].w \/ i # thr[c].id
        BY <1>t, <3>3, <4>1, <4>3 DEF TypeOK
      <4> QED
        BY <4>2, <4>3
    <3> QED
      BY <2>1, <3>2, <3>3, Zenon DEF CancelNotify
  <2> QED
    BY <2>1, Zenon DEF CancelRead, CancelWrite
<1>q. Quiet
  BY <1>p DEF Quiet
<1>d. \A t \in Dispatchers : thr'[t] = thr[t]
  BY <1>m, <1>o DEF Only, Dispatchers, Threads
<1>1. Carried
  BY <1>d, <1>p DEF Carried, SameReport, Forward, Dispatchers
<1>2. CASE rows' = rows
  <2>1. Orderly
    BY <1>2, <1>d, <1>q, OthersGo, Zenon DEF Dispatching, Dispatchers, CancelRead, CancelNotify,
       CancelWrite
  <2> QED
    BY <1>1, <1>2, <2>1 DEF Exists
<1>3. CASE CancelWrite(c) /\ UpdateInstanceResult(thr[c].id, "cancelled")
  <2>1. thr[c].pc = "cancel" /\ UNCHANGED <<scan, inbox>>
    BY <1>3, Zenon DEF CancelWrite, At
  <2>2. thr[c].id \in Ids /\ Exists(thr[c].id)
    BY <1>m, <2>1 DEF IInv, ThreadsOK, Holds
  <2>3. Puts(thr[c].id, "cancelled")
    BY <1>3, <1>t, <2>2, StatusPuts, Zenon DEF UpdateInstanceResult
  <2>4. Taken /\ Listed
    BY <1>d, <2>1 DEF Taken, Listed, Dispatching
  <2>5. Deferred
    BY <2>3 DEF Deferred, Puts
  <2>6. Marked
    BY <1>d DEF Marked, Dispatchers
  <2>7. Sent /\ Begun
    BY <1>q, <2>1 DEF Sent, Begun, Knows, Quiet
  <2>8. Written
    BY <2>1, <2>3 DEF Written, Writer, Puts
  <2>9. Settled
    BY <2>1, Zenon DEF Settled
  <2>10. Orderly
    BY <2>4, <2>5, <2>6, <2>7, <2>8, <2>9 DEF Orderly
  <2> QED
    BY <1>1, <2>2, <2>3, <2>10 DEF Puts, Exists
<1> QED
  BY <1>2, <1>3, Zenon DEF CancelRead, CancelNotify, CancelWrite

(* No handler is about an instance whose run goes on by itself.            *)
LEMMA NotReported ==
    ASSUME IInv, DispatchInv, HandlerInv, NEW w \in Workers, NEW i \in Ids, Knows(w, i),
           \A r \in Reporters : Waited(r) /\ thr[r].from = w => thr[r].src # i
    PROVE  \A r \in Reporters : thr[r].pc # "idle" => thr[r].src # i
<1> SUFFICES ASSUME NEW r \in Reporters, thr[r].pc # "idle", thr[r].src = i PROVE FALSE
  OBVIOUS
<1>1. thr[r].from \in Workers /\ Knows(thr[r].from, i) /\ Waited(r)
  BY ReporterKnows
<1>2. thr[r].from = w
  BY <1>1 DEF DispatchInv, HandedOver
<1> QED
  BY <1>1, <1>2

(* Only the run of i on w and its report in the store move.                *)
OnlyRun(w, i) ==
    \A v \in Workers, j \in Ids : v # w \/ j # i =>
        exec'[v][j].pc = exec[v][j].pc /\ buf'[v][j] = buf[v][j]

(* Handlers of other instances are not concerned by what happens to i on w. *)
LEMMA OtherWaited ==
    ASSUME IInv, HandlerInv, NEW w, NEW i,
           OnlyRun(w, i),
           NEW r \in Reporters, thr[r].pc # "idle", thr[r].src # i, thr'[r] = thr[r]
    PROVE  Waited(r)'
<1>1. thr[r].from \in Workers /\ thr[r].src \in Ids /\ Waited(r)
  BY ReporterKnows
<1> QED
  BY <1>1 DEF Waited, OnlyRun

(* What a step of a worker keeps.                                          *)
WorkerStep ==
    /\ Orderly /\ StoreInv' /\ HandlerInv' /\ rows' = rows
    /\ \A r \in Reporters : thr'[r] = thr[r] \/ thr'[r].pc \in {"read", "idle"}

(* A worker's step that hands a report about an instance over to a handler. *)
LEMMA NewHandler ==
    ASSUME IInv, HandlerInv, NEW w \in Workers, NEW i \in Ids, NEW r \in Reporters,
           NEW s, NEW b \in BOOLEAN, Handle(r, w, i, s, b),
           \A q \in Reporters : thr[q].pc # "idle" => thr[q].src # i,
           OnlyRun(w, i),
           IF b THEN /\ s # "running" /\ buf'[w][i] # "none"
                     /\ exec'[w][i].pc \in {"done", "none"}
                ELSE exec'[w][i].pc = IF s = "running" THEN "waitRunning" ELSE "waitFinal"
    PROVE  HandlerInv'
<1>0. TypeOK
  BY DEF IInv
<1>1. /\ Only(r) /\ thr[r].pc = "idle" /\ thr'[r].pc = "read"
      /\ thr'[r].src = i /\ thr'[r].from = w /\ thr'[r].st = s
      /\ thr'[r].awaited /\ thr'[r].flush = b
  BY <1>0, HandleMoves
<1>2. \A q \in Reporters \ {r} : thr'[q] = thr[q]
  BY <1>1 DEF Only, Threads
<1>3. Waited(r)'
  BY <1>1 DEF Waited
<1>4. ASSUME NEW q \in Reporters \ {r}, thr'[q].pc # "idle"
      PROVE  Waited(q)' /\ thr'[q].src # i
  <2>1. thr'[q] = thr[q]
    BY <1>2
  <2>2. thr[q].pc # "idle" /\ thr[q].src # i
    BY <1>4, <2>1
  <2>3. Waited(q)'
    BY <2>1, <2>2, OtherWaited
  <2> QED
    BY <2>1, <2>2, <2>3
<1>5. \A q, h \in Reporters \ {r} :
         thr'[q].pc # "idle" /\ thr'[h].pc # "idle" /\ thr'[h].src = thr'[q].src => h = q
  BY <1>2, OneHandler
<1> QED
  BY <1>1, <1>3, <1>4, <1>5 DEF HandlerInv

(* A worker's step without the scheduler.                                  *)
LEMMA SameHandlers ==
    ASSUME IInv, HandlerInv, NEW w \in Workers, NEW i \in Ids, thr' = thr,
           \A q \in Reporters : thr[q].pc # "idle" => thr[q].src # i,
           OnlyRun(w, i)
    PROVE  HandlerInv'
<1>1. ASSUME NEW q \in Reporters, thr'[q].pc # "idle" PROVE Waited(q)'
  <2>1. thr'[q] = thr[q] /\ thr[q].pc # "idle" /\ thr[q].src # i
    BY <1>1
  <2> QED
    BY <2>1, OtherWaited
<1> QED
  BY <1>1 DEF HandlerInv

(* Local stores and goroutines take turns over each instance by itself.    *)
LEMMA SameStore ==
    ASSUME StoreInv, NEW w \in Workers, NEW i \in Ids, inbox' \subseteq inbox,
           OnlyRun(w, i),
           <<w, i>> \in inbox' => exec'[w][i].pc = "none" /\ buf'[w][i] = "none",
           buf'[w][i] # "none" => exec'[w][i].pc \in {"done", "none"}
    PROVE  StoreInv'
<1> SUFFICES ASSUME NEW v \in Workers, NEW j \in Ids
             PROVE  /\ <<v, j>> \in inbox' => exec'[v][j].pc = "none" /\ buf'[v][j] = "none"
                    /\ buf'[v][j] # "none" => exec'[v][j].pc \in {"done", "none"}
  BY Zenon DEF StoreInv
<1>1. CASE v = w /\ j = i
  BY <1>1
<1>2. CASE v # w \/ j # i
  BY <1>2 DEF StoreInv, OnlyRun
<1> QED
  BY <1>1, <1>2

(* A handler that takes up a report dispatches nothing.                    *)
LEMMA HandleOrderly ==
    ASSUME IInv, NEW r \in Reporters, NEW w, NEW i, NEW s, NEW b \in BOOLEAN,
           Handle(r, w, i, s, b) \/ thr' = thr,
           rows' = rows, scan' = scan, inbox' = inbox, Quiet
    PROVE  /\ Orderly
           /\ \A q \in Reporters : thr'[q] = thr[q] \/ thr'[q].pc \in {"read", "idle"}
<1>1. CASE thr' = thr
  <2>1. Orderly
    BY <1>1, OthersGo DEF Dispatching
  <2> QED
    BY <1>1, <2>1
<1>2. CASE Handle(r, w, i, s, b)
  <2>1. Only(r) /\ thr'[r].pc = "read" /\ r # Retrier
    BY <1>2, HandleMoves, ThreadsDistinct DEF IInv
  <2>2. \A t \in Dispatchers \ {r} : thr'[t] = thr[t]
    BY <2>1 DEF Only, Dispatchers, Threads
  <2>3. \A t \in Dispatchers, j \in Ids : Dispatching(t, j)' => Dispatching(t, j)
    BY <2>1, <2>2 DEF Dispatching
  <2>4. thr'[Retrier] = thr[Retrier]
    BY <2>1, <2>2 DEF Dispatchers
  <2>5. Orderly
    BY <2>3, <2>4, OthersGo
  <2> QED
    BY <2>1, <2>2, <2>5 DEF Dispatchers
<1> QED
  BY <1>1, <1>2

(* Handler.run starts on a request.                                        *)
LEMMA StartStep ==
    ASSUME OnceInv, NEW w \in Workers, NEW i \in Ids, RunStart(w, i)
    PROVE  WorkerStep
<1>t. TypeOK
  BY DEF OnceInv, IInv
<1>1. /\ <<w, i>> \in inbox /\ inbox' = inbox \ {<<w, i>>}
      /\ UNCHANGED <<rows, thr, scan, buf>>
  BY DEF RunStart
<1>2. exec[w][i].pc = "none" /\ buf[w][i] = "none"
  BY <1>1 DEF OnceInv, StoreInv
<1>3. RunTo(w, i, "started")
  BY <1>2 DEF RunStart, RunTo
<1>4. /\ exec'[w][i].pc = "started"
      /\ \A v \in Workers, j \in Ids : v # w \/ j # i => exec'[v][j] = exec[v][j]
  BY <1>3, <1>t, RunMoves
<1>5. OnlyRun(w, i)
  BY <1>1, <1>4 DEF OnlyRun
<1>6. StoreInv'
  BY <1>1, <1>2, <1>5, SameStore DEF OnceInv
<1>7. \A r \in Reporters : thr[r].pc # "idle" => thr[r].src # i
  <2>1. Knows(w, i)
    BY <1>1 DEF Knows
  <2>2. \A r \in Reporters : Waited(r) /\ thr[r].from = w => thr[r].src # i
    BY <1>2 DEF Waited
  <2> QED
    BY <2>1, <2>2, NotReported DEF OnceInv
<1>8. HandlerInv'
  BY <1>1, <1>5, <1>7, SameHandlers DEF OnceInv
<1>9. Taken /\ Listed /\ Deferred /\ Written /\ Settled
  BY <1>1 DEF Taken, Listed, Deferred, Written, Settled, Dispatching
<1>10. Marked
  BY <1>1 DEF Marked
<1>11. Sent
  BY <1>1, <1>4, Zenon DEF Sent, Knows
<1>12. Begun
  BY <1>1, <1>4, Zenon DEF Begun
<1> QED
  BY <1>1, <1>6, <1>8, <1>9, <1>10, <1>11, <1>12 DEF WorkerStep, Orderly

(* A run that goes on by itself has no handler.                            *)
LEMMA RunningAlone ==
    ASSUME OnceInv, NEW w \in Workers, NEW i \in Ids,
           exec[w][i].pc \in {"started", "executing", "finished"}
    PROVE  /\ \A r \in Reporters : thr[r].pc # "idle" => thr[r].src # i
           /\ <<w, i>> \notin inbox /\ buf[w][i] = "none"
<1>1. Knows(w, i)
  BY DEF Knows
<1>2. \A r \in Reporters : Waited(r) /\ thr[r].from = w => thr[r].src # i
  BY DEF Waited
<1>3. <<w, i>> \notin inbox /\ buf[w][i] = "none"
  BY DEF OnceInv, StoreInv
<1> QED
  BY <1>1, <1>2, <1>3, NotReported, Zenon DEF OnceInv

(* The running report.                                                     *)
LEMMA RunningStep ==
    ASSUME OnceInv, NEW w \in Workers, NEW i \in Ids, RunReportRunning(w, i)
    PROVE  WorkerStep
<1>t. TypeOK
  BY DEF OnceInv, IInv
<1>1. exec[w][i].pc = "started" /\ UNCHANGED <<rows, scan, inbox, buf>>
  BY DEF RunReportRunning
<1>2. /\ \A r \in Reporters : thr[r].pc # "idle" => thr[r].src # i
      /\ <<w, i>> \notin inbox /\ buf[w][i] = "none"
  BY <1>1, RunningAlone
<1>3. ASSUME NEW pc \in {"waitRunning", "executing"}, RunTo(w, i, pc)
      PROVE  /\ OnlyRun(w, i) /\ exec'[w][i].pc = pc /\ StoreInv' /\ Quiet
  <2>1. /\ exec'[w][i].pc = pc
        /\ \A v \in Workers, j \in Ids : v # w \/ j # i => exec'[v][j] = exec[v][j]
    BY <1>3, <1>t, RunMoves
  <2>2. OnlyRun(w, i)
    BY <1>1, <2>1 DEF OnlyRun
  <2>3. StoreInv'
    BY <1>1, <1>2, <2>2, SameStore DEF OnceInv
  <2>4. Quiet
    BY <1>1, <2>1 DEF Quiet
  <2> QED
    BY <2>1, <2>2, <2>3, <2>4
<1>4. ASSUME NEW r \in Reporters, Handle(r, w, i, "running", FALSE),
             RunTo(w, i, "waitRunning")
      PROVE  WorkerStep
  <2>1. OnlyRun(w, i) /\ exec'[w][i].pc = "waitRunning" /\ StoreInv' /\ Quiet
    BY <1>3, <1>4
  <2>2. HandlerInv'
    BY <1>2, <1>4, <2>1, NewHandler, Zenon DEF OnceInv
  <2>3. /\ Orderly
        /\ \A q \in Reporters : thr'[q] = thr[q] \/ thr'[q].pc \in {"read", "idle"}
    BY <1>1, <1>4, <2>1, HandleOrderly, Zenon DEF OnceInv
  <2> QED
    BY <1>1, <2>1, <2>2, <2>3 DEF WorkerStep
<1>5. ASSUME RunTo(w, i, "executing"), thr' = thr
      PROVE  WorkerStep
  <2>1. OnlyRun(w, i) /\ StoreInv' /\ Quiet
    BY <1>3, <1>5
  <2>2. HandlerInv'
    BY <1>2, <1>5, <2>1, SameHandlers DEF OnceInv
  <2>3. Orderly
    BY <1>1, <1>5, <2>1, OthersGo DEF Dispatching
  <2> QED
    BY <1>1, <1>5, <2>1, <2>2, <2>3 DEF WorkerStep
<1> QED
  BY <1>4, <1>5, Zenon DEF RunReportRunning, RunTo

(* Execute returns.                                                        *)
LEMMA ExecuteStep ==
    ASSUME OnceInv, NEW w \in Workers, NEW i \in Ids, RunExecute(w, i)
    PROVE  WorkerStep
<1>t. TypeOK
  BY DEF OnceInv, IInv
<1>1. exec[w][i].pc = "executing" /\ UNCHANGED <<rows, thr, scan, inbox, buf>>
  BY DEF RunExecute
<1>2. /\ \A r \in Reporters : thr[r].pc # "idle" => thr[r].src # i
      /\ <<w, i>> \notin inbox /\ buf[w][i] = "none"
  BY <1>1, RunningAlone
<1>3. PICK o \in Outcomes : exec' = [exec EXCEPT ![w][i] = [pc |-> "finished", out |-> o]]
  BY Zenon DEF RunExecute
<1>4. /\ exec'[w][i].pc = "finished"
      /\ \A v \in Workers, j \in Ids : v # w \/ j # i => exec'[v][j] = exec[v][j]
  BY <1>3, <1>t DEF TypeOK
<1>5. OnlyRun(w, i) /\ Quiet
  BY <1>1, <1>4 DEF OnlyRun, Quiet
<1>6. StoreInv'
  BY <1>1, <1>2, <1>5, SameStore DEF OnceInv
<1>7. HandlerInv'
  BY <1>1, <1>2, <1>5, SameHandlers DEF OnceInv
<1>8. Orderly
  BY <1>1, <1>5, OthersGo DEF Dispatching
<1> QED
  BY <1>1, <1>6, <1>7, <1>8 DEF WorkerStep

(* The final report, sent or buffered.                                     *)
LEMMA FinalStep ==
    ASSUME OnceInv, NEW w \in Workers, NEW i \in Ids, RunReportFinal(w, i)
    PROVE  WorkerStep
<1>t. TypeOK
  BY DEF OnceInv, IInv
<1>1. exec[w][i].pc = "finished" /\ UNCHANGED <<rows, scan, inbox>>
  BY DEF RunReportFinal
<1>2. /\ \A r \in Reporters : thr[r].pc # "idle" => thr[r].src # i
      /\ <<w, i>> \notin inbox /\ buf[w][i] = "none"
  BY <1>1, RunningAlone
<1>3. exec[w][i].out \in Outcomes /\ exec[w][i].out # "running"
  <2>1. exec[w][i].out \in {"none"} \cup Outcomes
    <3>1. exec[w][i] \in Runs
      BY <1>t, Zenon DEF TypeOK
    <3> QED
      BY <3>1 DEF Runs
  <2>2. exec[w][i].out # "none"
    BY <1>1, Zenon DEF OnceInv, IInv, WorkersOK, ExecOK
  <2> QED
    BY <2>1, <2>2, Parameters
<1>4. ASSUME NEW r \in Reporters, Handle(r, w, i, exec[w][i].out, FALSE),
             RunTo(w, i, "waitFinal"), buf' = buf
      PROVE  WorkerStep
  <2>1. /\ exec'[w][i].pc = "waitFinal"
        /\ \A v \in Workers, j \in Ids : v # w \/ j # i => exec'[v][j] = exec[v][j]
    BY <1>4, <1>t, RunMoves
  <2>2. OnlyRun(w, i) /\ Quiet
    BY <1>1, <1>4, <2>1 DEF OnlyRun, Quiet
  <2>3. StoreInv'
    BY <1>1, <1>2, <1>4, <2>2, SameStore, Zenon DEF OnceInv
  <2>4. HandlerInv'
    BY <1>2, <1>3, <1>4, <2>1, <2>2, NewHandler, Zenon DEF OnceInv
  <2>5. /\ Orderly
        /\ \A q \in Reporters : thr'[q] = thr[q] \/ thr'[q].pc \in {"read", "idle"}
    BY <1>1, <1>4, <2>2, HandleOrderly, Zenon DEF OnceInv
  <2> QED
    BY <1>1, <2>3, <2>4, <2>5 DEF WorkerStep
<1>5. ASSUME RunTo(w, i, "done"), buf' = [buf EXCEPT ![w][i] = exec[w][i].out], thr' = thr
      PROVE  WorkerStep
  <2>1. /\ exec'[w][i].pc = "done"
        /\ \A v \in Workers, j \in Ids : v # w \/ j # i => exec'[v][j] = exec[v][j]
    BY <1>5, <1>t, RunMoves
  <2>2. \A v \in Workers, j \in Ids : v # w \/ j # i => buf'[v][j] = buf[v][j]
    BY <1>5, <1>t DEF TypeOK
  <2>3. OnlyRun(w, i) /\ Quiet
    BY <1>1, <2>1, <2>2 DEF OnlyRun, Quiet
  <2>4. StoreInv'
    BY <1>1, <1>2, <2>1, <2>3, SameStore DEF OnceInv
  <2>5. HandlerInv'
    BY <1>2, <1>5, <2>3, SameHandlers DEF OnceInv
  <2>6. Orderly
    BY <1>1, <1>5, <2>3, OthersGo DEF Dispatching
  <2> QED
    BY <1>1, <1>5, <2>4, <2>5, <2>6 DEF WorkerStep
<1> QED
  BY <1>4, <1>5, Zenon DEF RunReportFinal, RunTo

(* Flush sends a buffered report; no other report of the worker is on its   *)
(* way from the store.                                                     *)
LEMMA FlushStep ==
    ASSUME OnceInv, NEW w \in Workers, NEW i \in Ids, FlushSend(w, i)
    PROVE  WorkerStep
<1>t. TypeOK
  BY DEF OnceInv, IInv
<1>1. buf[w][i] # "none" /\ ~Flushing(w) /\ UNCHANGED <<rows, scan, inbox, exec, buf>>
  BY DEF FlushSend
<1>2. PICK r \in Reporters : Handle(r, w, i, buf[w][i], TRUE)
  BY Zenon DEF FlushSend
<1>3. exec[w][i].pc \in {"done", "none"}
  BY <1>1, Zenon DEF OnceInv, StoreInv
<1>4. \A q \in Reporters : thr[q].pc # "idle" => thr[q].src # i
  <2>1. Knows(w, i)
    BY <1>1 DEF Knows
  <2>2. \A q \in Reporters : Waited(q) /\ thr[q].from = w => thr[q].src # i
    BY <1>1, <1>3 DEF Waited, Flushing
  <2> QED
    BY <2>1, <2>2, NotReported DEF OnceInv
<1>5. OnlyRun(w, i) /\ Quiet
  BY <1>1 DEF OnlyRun, Quiet
<1>6. buf[w][i] # "running"
  BY <1>t, Parameters DEF TypeOK
<1>7. HandlerInv'
  BY <1>1, <1>2, <1>3, <1>4, <1>5, <1>6, NewHandler, Zenon DEF OnceInv
<1>8. StoreInv'
  BY <1>1, Zenon DEF OnceInv, StoreInv
<1>9. /\ Orderly
      /\ \A q \in Reporters : thr'[q] = thr[q] \/ thr'[q].pc \in {"read", "idle"}
  BY <1>1, <1>2, <1>5, HandleOrderly, Zenon DEF OnceInv
<1> QED
  BY <1>1, <1>7, <1>8, <1>9 DEF WorkerStep

(* The dedup map forgets a finished run; its buffered report stays.        *)
LEMMA EvictStep ==
    ASSUME OnceInv, NEW w \in Workers, NEW i \in Ids, EvictDedup(w, i)
    PROVE  WorkerStep
<1>t. TypeOK
  BY DEF OnceInv, IInv
<1>1. exec[w][i].pc = "done" /\ UNCHANGED <<rows, thr, scan, inbox, buf>>
  BY DEF EvictDedup
<1>2. /\ exec'[w][i].pc = "none"
      /\ \A v \in Workers, j \in Ids : v # w \/ j # i => exec'[v][j] = exec[v][j]
  BY <1>t DEF EvictDedup, TypeOK, NoRun
<1>3. OnlyRun(w, i) /\ Quiet
  BY <1>1, <1>2 DEF OnlyRun, Quiet
<1>4. <<w, i>> \notin inbox
  BY <1>1 DEF OnceInv, StoreInv
<1>5. StoreInv'
  BY <1>1, <1>2, <1>3, <1>4, SameStore DEF OnceInv
<1>6. HandlerInv'
  <2>1. ASSUME NEW q \in Reporters, thr[q].pc # "idle" PROVE Waited(q)'
    <3>1. thr[q].from \in Workers /\ thr[q].src \in Ids /\ Waited(q)
      BY <2>1, ReporterKnows DEF OnceInv
    <3> QED
      BY <1>1, <1>2, <3>1, Zenon DEF Waited
  <2> QED
    BY <1>1, <2>1 DEF OnceInv, HandlerInv
<1>7. Orderly
  BY <1>1, <1>3, OthersGo DEF Dispatching
<1> QED
  BY <1>1, <1>5, <1>6, <1>7 DEF WorkerStep

(* The scheduler restarts: every handler is gone, and the workers buffer    *)
(* the final reports that were not answered.                               *)
LEMMA CrashStep ==
    ASSUME OnceInv, SchedulerCrash
    PROVE  WorkerStep
<1>t. TypeOK
  BY DEF OnceInv, IInv
<1>1. UNCHANGED <<rows, inbox>> /\ scan' = {}
  BY DEF SchedulerCrash
<1>2. \A t \in Threads : thr'[t].pc = "idle"
  BY DEF SchedulerCrash, Idle
<1>3. ASSUME NEW w \in Workers, NEW i \in Ids
      PROVE  /\ exec'[w][i].pc = IF exec[w][i].pc = "waitRunning" THEN "executing"
                                 ELSE IF exec[w][i].pc = "waitFinal" THEN "done"
                                 ELSE exec[w][i].pc
             /\ buf'[w][i] = IF exec[w][i].pc = "waitFinal" THEN exec[w][i].out
                             ELSE buf[w][i]
  <2>1. exec[w][i] \in Runs
    BY <1>t DEF TypeOK
  <2>2. exec'[w][i] = [exec[w][i] EXCEPT !.pc =
                         IF @ = "waitRunning" THEN "executing"
                         ELSE IF @ = "waitFinal" THEN "done" ELSE @]
    BY DEF SchedulerCrash
  <2>3. buf'[w][i] = IF exec[w][i].pc = "waitFinal" THEN exec[w][i].out ELSE buf[w][i]
    BY DEF SchedulerCrash
  <2> QED
    BY <2>1, <2>2, <2>3 DEF Runs
<1>4. Quiet
  BY <1>3 DEF Quiet
<1>5. StoreInv'
  <2> SUFFICES ASSUME NEW w \in Workers, NEW i \in Ids
               PROVE  /\ <<w, i>> \in inbox' => exec'[w][i].pc = "none" /\ buf'[w][i] = "none"
                      /\ buf'[w][i] # "none" => exec'[w][i].pc \in {"done", "none"}
    BY Zenon DEF StoreInv
  <2> QED
    BY <1>1, <1>3 DEF OnceInv, StoreInv
<1>6. HandlerInv'
  BY <1>2 DEF HandlerInv, Threads
<1>7. Orderly
  <2>1. \A t \in Dispatchers : thr'[t].pc = "idle"
    BY <1>2 DEF Threads, Dispatchers
  <2>2. thr'[Retrier].pc = "idle"
    BY <1>2 DEF Threads
  <2> QED
    BY <1>1, <1>4, <2>1, <2>2, OthersGo DEF Dispatching, Busy
<1> QED
  BY <1>1, <1>2, <1>5, <1>6, <1>7 DEF WorkerStep, Threads

--------------------------------------------------------------------------------
(* The invariant, and what it is for.                                      *)

(* A step of the trigger side or of the retry loop concerns no handler.    *)
LEMMA DispatchersAlone ==
    ASSUME IInv, Retry \/ \E c \in Creators : Trigger(c)
    PROVE  Carried
<1>t. TypeOK
  BY DEF IInv
<1>1. ASSUME NEW c \in Creators, Trigger(c)
      PROVE  UNCHANGED <<exec, buf>> /\ \A q \in Reporters : thr'[q] = thr[q]
  <2>1. UNCHANGED <<exec, buf>>
    BY <1>1, Zenon DEF Trigger, TriggerCreate, TriggerNoWorker, TriggerPick, TriggerWrite,
       TriggerSend, TriggerFail
  <2>2. \A q \in Reporters : q \in Threads /\ q # c
    BY ThreadsDistinct DEF Threads
  <2>3. \A q \in Threads \ {c} : thr'[q] = thr[q]
    BY <1>1, <1>t, Zenon DEF Trigger, TriggerCreate, TriggerNoWorker, TriggerPick, TriggerWrite,
       TriggerSend, TriggerFail, Goto, Stop, TypeOK
  <2> QED
    BY <2>1, <2>2, <2>3
<1>2. ASSUME Retry
      PROVE  UNCHANGED <<exec, buf>> /\ \A q \in Reporters : thr'[q] = thr[q]
  <2>1. UNCHANGED <<exec, buf>>
    BY <1>2 DEF Retry, RetryScan, RetryDone, RetryNext, RetryPick, RetryNoWorker,
       RetryWrite, RetrySend, RetryFail
  <2>2. \A q \in Reporters : q \in Threads /\ q # Retrier
    BY ThreadsDistinct DEF Threads
  <2>3. \A q \in Threads \ {Retrier} : thr'[q] = thr[q]
    BY <1>2, <1>t, Zenon DEF Retry, RetryScan, RetryDone, RetryNext, RetryPick, RetryNoWorker,
       RetryWrite, RetrySend, RetryFail, Goto, Stop, Continue, TypeOK
  <2> QED
    BY <2>1, <2>2, <2>3
<1> QED
  BY <1>1, <1>2, OtherCarried

(* Only retryIfNeeded creates a row with a parent.                         *)
RootsOnly == \A i \in Ids : Exists(i)' /\ rows'[i].parent # 0 =>
                 Exists(i) /\ rows'[i].parent = rows[i].parent

LEMMA ParentsKept ==
    ASSUME IInv, Grows, \A i \in Ids : rows'[i].parent \in {rows[i].parent, 0}
    PROVE  RootsOnly
BY DEF RootsOnly, Grows, IInv, RowsOK

(* A step that only carries reports on.                                    *)
LEMMA CarriedOnce ==
    ASSUME OnceInv, Orderly, Carried, RootsOnly
    PROVE  Handled /\ StoreInv' /\ HandlerInv' /\ RetryInv'
<1>1. Handled
  BY DEF Carried, Handled
<1>2. StoreInv' /\ HandlerInv'
  BY CarriedKeeps DEF OnceInv, Orderly
<1>3. RetryInv'
  BY <1>1, RetryKept DEF RootsOnly
<1> QED
  BY <1>1, <1>2, <1>3

(* A step of a worker, or a restart of the scheduler.                      *)
LEMMA WorkerOnce ==
    ASSUME OnceInv, WorkerStep
    PROVE  Orderly /\ Handled /\ StoreInv' /\ HandlerInv' /\ RetryInv'
<1>1. Handled
  <2> SUFFICES ASSUME NEW q \in Reporters, thr'[q].pc \in {"result", "retry", "create"}
               PROVE  thr[q].pc # "idle" /\ SameReport(q) /\ Forward(q)
    BY DEF Handled
  <2>1. thr'[q] = thr[q]
    BY DEF WorkerStep
  <2> QED
    BY <2>1 DEF SameReport, Forward
<1>2. RootsOnly
  BY DEF RootsOnly, WorkerStep, Exists
<1>3. RetryInv'
  BY <1>1, <1>2, RetryKept DEF RootsOnly, WorkerStep
<1> QED
  BY <1>1, <1>3 DEF WorkerStep

(* Writing a status leaves the parents alone.                              *)
LEMMA PutsParents ==
    ASSUME NEW j, NEW s, Puts(j, s)
    PROVE  \A i \in Ids : rows'[i].parent = rows[i].parent
BY DEF Puts

(* The trigger side, the retry loop and the handlers short of the INSERT of *)
(* a retry leave the parents alone.                                        *)
LEMMA StepParents ==
    ASSUME IInv, \/ \E c \in Creators : Trigger(c)
                 \/ Retry
                 \/ \E r \in Reporters : ReportStatus(r) /\ ~ReportCreate(r)
    PROVE  RootsOnly
<1>t. TypeOK
  BY DEF IInv
<1>g. Grows
  BY StepGrows DEF Next
<1>h. \A t \in Threads : Holds(t)
  BY DEF IInv, ThreadsOK
<1>m. /\ Creators \subseteq Threads /\ Reporters \subseteq Threads /\ Retrier \in Threads
  BY DEF Threads
<1>d. ASSUME NEW t \in Threads, At(t, "write"), UpdateInstanceDispatch(thr[t].id, thr[t].w)
      PROVE  \A i \in Ids : rows'[i].parent = rows[i].parent
  <2>1. thr[t].id \in Ids /\ thr[t].w \in Workers
    BY <1>d, <1>h DEF At, Holds
  <2> QED
    BY <1>d, <1>t, <2>1, DispatchPuts, PutsParents, Zenon
<1>s. ASSUME NEW j \in Ids, NEW s, rows' = [rows EXCEPT ![j].status = s]
      PROVE  \A i \in Ids : rows'[i].parent = rows[i].parent
  BY <1>s, <1>t, StatusPuts, PutsParents
<1>i. \A t \in Threads : At(t, "pick") \/ At(t, "fail") => thr[t].id \in Ids
  BY <1>h DEF At, Holds
<1>1. ASSUME NEW c \in Creators, Trigger(c)
      PROVE  \A i \in Ids : rows'[i].parent \in {rows[i].parent, 0}
  <2>1. CASE TriggerCreate(c)
    BY <1>t, <2>1 DEF TriggerCreate, CreateInstance, TypeOK
  <2>2. CASE TriggerWrite(c)
    BY <1>d, <1>m, <2>2 DEF TriggerWrite
  <2>3. CASE TriggerFail(c)
    BY <1>s, <1>i, <1>m, <2>3 DEF TriggerFail, UpdateInstanceResult
  <2> QED
    BY <1>1, <2>1, <2>2, <2>3 DEF Trigger, TriggerNoWorker, TriggerPick, TriggerSend
<1>2. ASSUME Retry
      PROVE  \A i \in Ids : rows'[i].parent \in {rows[i].parent, 0}
  <2>1. CASE RetryWrite
    BY <1>d, <1>m, <2>1 DEF RetryWrite
  <2>2. CASE RetryFail
    BY <1>s, <1>i, <1>m, <2>2 DEF RetryFail, UpdateInstanceStatus
  <2> QED
    BY <1>2, <2>1, <2>2 DEF Retry, RetryScan, RetryDone, RetryNext, RetryPick,
       RetryNoWorker, RetrySend
<1>3. ASSUME NEW r \in Reporters, ReportStatus(r), ~ReportCreate(r)
      PROVE  \A i \in Ids : rows'[i].parent \in {rows[i].parent, 0}
  <2>1. CASE ReportResult(r)
    <3>1. thr[r].src \in Ids
      BY <2>1, Zenon DEF ReportResult, At, IInv, ThreadsOK, Reports
    <3> QED
      BY <1>s, <2>1, <3>1 DEF ReportResult, UpdateInstanceResult
  <2>2. CASE ReportNoWorker(r) \/ ReportFail(r)
    <3>1. thr[r].id \in Ids
      BY <1>i, <1>m, <2>2, Zenon DEF ReportNoWorker, ReportFail
    <3> QED
      BY <1>s, <2>2, <3>1, Zenon DEF ReportNoWorker, ReportFail, UpdateInstanceStatus
  <2>3. CASE ReportWrite(r)
    BY <1>d, <1>m, <2>3 DEF ReportWrite
  <2> QED
    BY <1>3, <2>1, <2>2, <2>3, Zenon DEF ReportStatus, ReportRead, ReportDecide, ReportPick,
       ReportSend, ReportAbort
<1> QED
  BY <1>1, <1>2, <1>3, <1>g, ParentsKept

(* Every step of the scheduler and of the workers keeps to the order of    *)
(* hands, and keeps OnceInv.                                               *)
LEMMA StepOrderly ==
    ASSUME Reliable, OnceInv, [Next]_vars
    PROVE  Orderly /\ Handled /\ StoreInv' /\ HandlerInv' /\ RetryInv'
<1> USE DEF OnceInv
<1>1. ASSUME NEW c \in Creators, Trigger(c)
      PROVE  Orderly /\ Carried /\ RootsOnly
  BY <1>1, TriggerOrderly, DispatchersAlone, StepParents
<1>2. ASSUME Retry
      PROVE  Orderly /\ Carried /\ RootsOnly
  BY <1>2, RetryOrderly, DispatchersAlone, StepParents
<1>3. ASSUME NEW j \in Ids, RetryFallsDue(j)
      PROVE  Orderly /\ Carried /\ RootsOnly
  <2>1. UNCHANGED <<thr, scan, inbox, exec, buf>>
    BY <1>3 DEF RetryFallsDue
  <2>2. rows[j] \in Rows
    BY DEF IInv, TypeOK
  <2>3. /\ rows'[j] = [rows[j] EXCEPT !.due = TRUE]
        /\ \A i \in Ids \ {j} : rows'[i] = rows[i]
    BY <1>3 DEF RetryFallsDue, IInv, TypeOK
  <2>4. \A i \in Ids : rows'[i].status = rows[i].status /\ rows'[i].parent = rows[i].parent
    BY <2>2, <2>3 DEF Rows
  <2>5. Quiet
    BY <2>1, SameQuiet
  <2>6. Orderly
    BY <2>1, <2>4, <2>5, OthersGo DEF Dispatching
  <2>7. Carried
    BY <2>1, OtherCarried
  <2> QED
    BY <2>4, <2>6, <2>7 DEF RootsOnly, Exists
<1>4. ASSUME NEW r \in Reporters, ReportStatus(r), ~ReportCreate(r)
      PROVE  Orderly /\ Carried /\ RootsOnly
  BY <1>4, ReportOrderly, StepParents
<1>5. ASSUME NEW r \in Reporters, ReportCreate(r)
      PROVE  Orderly /\ Handled /\ StoreInv' /\ HandlerInv' /\ RetryInv'
  <2>1. PICK i \in Ids : /\ ~Exists(i) /\ rows'[i].parent = thr[r].src
                          /\ \A j \in Ids \ {i} : rows'[j] = rows[j]
    BY <1>5, RetryCreated
  <2>2. thr[r].pc = "create"
    BY <1>5 DEF ReportCreate, At
  <2>3. /\ Orderly /\ Only(r)
        /\ \/ thr'[r].pc = "idle" /\ Replied(r)
           \/ thr'[r].pc = "pick" /\ SameReport(r) /\ UNCHANGED <<exec, buf>>
    BY <1>5, RetryCreated
  <2>4. Carried
    BY <2>2, <2>3, AnswerCarried, GoCarried, Zenon DEF Busy
  <2>5. Handled
    BY <2>4 DEF Carried, Handled
  <2>6. StoreInv' /\ HandlerInv'
    BY <2>3, <2>4, CarriedKeeps DEF Orderly
  <2>7. RetryInv'
    BY <2>1, <2>2, <2>3, <2>5, RetryCreates, Zenon
  <2> QED
    BY <2>3, <2>5, <2>6, <2>7
<1>6. ASSUME NEW c \in Cancellers,
             (\E i \in Ids : CancelRead(c, i)) \/ CancelNotify(c) \/ CancelWrite(c)
      PROVE  Orderly /\ Carried /\ RootsOnly
  BY <1>6, CancelOrderly DEF RootsOnly
<1>7. ASSUME NEW w \in Workers, NEW i \in Ids, Worker(w, i) \/ EvictDedup(w, i)
      PROVE  WorkerStep
  BY <1>7, StartStep, RunningStep, ExecuteStep, FinalStep, FlushStep, EvictStep DEF Worker
<1>8. ASSUME SchedulerCrash
      PROVE  WorkerStep
  BY <1>8, CrashStep
<1>9. ASSUME UNCHANGED vars
      PROVE  Orderly /\ Carried /\ RootsOnly
  <2>1. UNCHANGED <<rows, thr, scan, inbox, exec, buf>>
    BY <1>9 DEF vars
  <2>2. Quiet
    BY <2>1, SameQuiet
  <2>3. Orderly
    BY <2>1, <2>2, OthersGo DEF Dispatching
  <2>4. Carried
    BY <2>1, OtherCarried
  <2> QED
    BY <2>1, <2>3, <2>4 DEF RootsOnly, Exists
<1>10. ~\E r \in Reporters : ReportTimeout(r)
  BY Zenon DEF ReportTimeout, Reliable, Repeating
<1>11. ~\E w \in Workers : WorkerCrash(w)
  BY DEF WorkerCrash, Reliable, Repeating
<1>12. \/ Orderly /\ Carried /\ RootsOnly
       \/ WorkerStep
       \/ Orderly /\ Handled /\ StoreInv' /\ HandlerInv' /\ RetryInv'
  BY <1>1, <1>2, <1>3, <1>4, <1>5, <1>6, <1>7, <1>8, <1>9, <1>10, <1>11 DEF Next
<1> QED
  BY <1>12, CarriedOnce, WorkerOnce

(* OnceInv is kept.                                                        *)
LEMMA StepOnce ==
    ASSUME Reliable, OnceInv, [Next]_vars
    PROVE  OnceInv'
<1>1. IInv'
  BY StepTypeOK, StepThreadsOK, StepWorkersOK, StepRowsOK DEF OnceInv, IInv
<1>2. Orderly /\ StoreInv' /\ HandlerInv' /\ RetryInv'
  BY StepOrderly
<1>3. DispatchInv'
  BY <1>2, DispatchKept DEF OnceInv, Orderly
<1> QED
  BY <1>1, <1>2, <1>3 DEF OnceInv

(* Nothing is in hand, in a store or under way at the start.               *)
LEMMA InitOnce == Init => OnceInv
<1> SUFFICES ASSUME Init PROVE OnceInv
  OBVIOUS
<1>1. /\ \A t \in Threads : thr[t].pc = "idle"
      /\ \A i \in Ids : rows[i].status = "none"
      /\ \A w \in Workers, i \in Ids : exec[w][i].pc = "none" /\ buf[w][i] = "none"
      /\ scan = {} /\ inbox = {}
  BY DEF Init, Idle, NoRow, NoRun
<1>2. Dispatchers \subseteq Threads /\ Reporters \subseteq Threads
  BY DEF Dispatchers, Threads
<1>3. DispatchInv
  BY <1>1, <1>2 DEF DispatchInv, OneDispatcher, HandedOver, Dispatching, Knows
<1>4. StoreInv /\ HandlerInv
  BY <1>1, <1>2 DEF StoreInv, HandlerInv
<1>5. RetryInv
  BY <1>1, <1>2 DEF RetryInv, ChildOf, AtMostOneRetry, Exists
<1> QED
  BY <1>3, <1>4, <1>5, InitIInv DEF OnceInv

(* OnceInv is an inductive invariant of the scheduler and the workers when  *)
(* nothing repeats work already under way.                                 *)
THEOREM OnceInductive == ASSUME Reliable PROVE Spec => []OnceInv
<1>1. OnceInv /\ [Next]_vars => OnceInv'
  BY StepOnce
<1> QED
  BY <1>1, InitOnce, PTL DEF Spec

(* retryIfNeeded, for any number of workers, rows and handlers: an instance *)
(* is answered by at most one retry row, across lost reports and dispatches, *)
(* database errors, cancels and restarts of the scheduler, as long as no   *)
(* call times out with its work going on and no worker restarts.           *)
THEOREM RetriedOnce == ASSUME Reliable PROVE Spec => []AtMostOneRetry
<1>1. OnceInv => AtMostOneRetry
  BY DEF OnceInv, RetryInv
<1> QED
  BY <1>1, OnceInductive, PTL

(* Dispatch and Handler.run, under the same faults and for any number of    *)
(* workers, rows and handlers: an instance is executed on one worker only.  *)
THEOREM OneExecution == ASSUME Reliable PROVE Spec => []ExecutedOnce
<1>1. OnceInv => ExecutedOnce
  BY Zenon DEF OnceInv, DispatchInv, HandedOver, Knows, ExecutedOnce
<1> QED
  BY <1>1, OnceInductive, PTL

--------------------------------------------------------------------------------
(* Settled rows, without cancels.                                          *)

(* No cancel is under way.                                                 *)
NoCancel == \A c \in Cancellers : thr[c].pc = "idle"

(* No goroutine but a cancel's own starts one.                             *)
LEMMA StepNoCancel ==
    ASSUME "cancel" \notin Faults, IInv, NoCancel, [Next]_vars
    PROVE  NoCancel'
<1>t. TypeOK
  BY DEF IInv
<1>m. \A c \in Cancellers :
         /\ c \in Threads /\ c \notin Creators /\ c \notin Reporters /\ c # Retrier
  BY ThreadsDistinct DEF Threads
<1>1. ASSUME NEW c \in Creators, Trigger(c) PROVE NoCancel'
  <2>1. Only(c)
    BY <1>1, <1>t, Zenon DEF Trigger, TriggerCreate, TriggerNoWorker, TriggerPick, TriggerWrite,
       TriggerSend, TriggerFail, Goto, Stop, TypeOK, Only
  <2> QED
    BY <1>m, <2>1 DEF Only, NoCancel
<1>2. ASSUME Retry PROVE NoCancel'
  <2>1. Only(Retrier)
    BY <1>2, <1>t DEF Retry, RetryScan, RetryDone, RetryNext, RetryPick, RetryNoWorker,
       RetryWrite, RetrySend, RetryFail, Goto, Stop, Continue, TypeOK, Only
  <2> QED
    BY <1>m, <2>1 DEF Only, NoCancel
<1>3. ASSUME NEW r \in Reporters, ReportStatus(r) \/ ReportTimeout(r) PROVE NoCancel'
  <2>1. Only(r)
    BY <1>3, <1>t, Zenon DEF ReportStatus, ReportRead, ReportResult, ReportDecide, ReportCreate,
       ReportPick, ReportNoWorker, ReportWrite, ReportSend, ReportFail, ReportAbort,
       ReportTimeout, Goto, Stop, TypeOK, Only
  <2> QED
    BY <1>m, <2>1 DEF Only, NoCancel
<1>4. ASSUME NEW c \in Cancellers,
             (\E i \in Ids : CancelRead(c, i)) \/ CancelNotify(c) \/ CancelWrite(c)
      PROVE  NoCancel'
  BY <1>4, Zenon DEF NoCancel, CancelRead, CancelNotify, CancelWrite, At
<1>5. ASSUME NEW w \in Workers, NEW i \in Ids, Worker(w, i) \/ EvictDedup(w, i)
      PROVE  NoCancel'
  <2>1. thr' = thr \/ \E r \in Reporters : Only(r)
    BY <1>5, <1>t DEF Worker, EvictDedup, RunStart, RunReportRunning, RunExecute,
       RunReportFinal, FlushSend, Handle, TypeOK, Only
  <2> QED
    BY <1>m, <2>1 DEF Only, NoCancel
<1>6. ASSUME SchedulerCrash PROVE NoCancel'
  BY <1>6, <1>m DEF SchedulerCrash, NoCancel, Idle
<1>7. ASSUME NEW w \in Workers, WorkerCrash(w) PROVE NoCancel'
  <2>1. \A c \in Cancellers : thr[c] \in ThreadStates
    BY <1>m, <1>t DEF TypeOK
  <2>2. \A c \in Cancellers : thr'[c] = thr[c] \/ thr'[c] = [thr[c] EXCEPT !.awaited = FALSE]
    BY <1>7, <1>m DEF WorkerCrash
  <2> QED
    BY <2>1, <2>2, Zenon DEF NoCancel, ThreadStates
<1>8. ASSUME (\E i \in Ids : RetryFallsDue(i)) \/ UNCHANGED vars PROVE NoCancel'
  BY <1>8 DEF RetryFallsDue, vars, NoCancel
<1> QED
  BY <1>1, <1>2, <1>3, <1>4, <1>5, <1>6, <1>7, <1>8 DEF Next

(* The scan writes no row, and no other step adds to its snapshot.          *)
LEMMA ScanReads ==
    ASSUME [Next]_vars
    PROVE  scan' \subseteq scan \/ rows' = rows
<1>1. ASSUME NEW c \in Creators, Trigger(c) PROVE scan' = scan
  BY <1>1, Zenon DEF Trigger, TriggerCreate, TriggerNoWorker, TriggerPick, TriggerWrite,
     TriggerSend, TriggerFail
<1>2. ASSUME Retry PROVE scan' \subseteq scan \/ rows' = rows
  BY <1>2 DEF Retry, RetryScan, RetryDone, RetryNext, RetryPick, RetryNoWorker,
     RetryWrite, RetrySend, RetryFail
<1>3. ASSUME NEW r \in Reporters, ReportStatus(r) \/ ReportTimeout(r) PROVE scan' = scan
  BY <1>3, Zenon DEF ReportStatus, ReportRead, ReportResult, ReportDecide, ReportCreate,
     ReportPick, ReportNoWorker, ReportWrite, ReportSend, ReportFail, ReportAbort,
     ReportTimeout
<1>4. ASSUME NEW c \in Cancellers,
             (\E i \in Ids : CancelRead(c, i)) \/ CancelNotify(c) \/ CancelWrite(c)
      PROVE  scan' = scan
  BY <1>4, Zenon DEF CancelRead, CancelNotify, CancelWrite
<1>5. ASSUME NEW w \in Workers, NEW i \in Ids,
             Worker(w, i) \/ EvictDedup(w, i)
      PROVE  scan' = scan
  BY <1>5, Zenon DEF Worker, EvictDedup, RunStart, RunReportRunning, RunExecute,
     RunReportFinal, FlushSend
<1>6. ASSUME NEW w \in Workers, WorkerCrash(w)
      PROVE  scan' = scan
  BY <1>6 DEF WorkerCrash
<1>7. ASSUME SchedulerCrash PROVE scan' \subseteq scan
  BY <1>7 DEF SchedulerCrash
<1>8. ASSUME (\E i \in Ids : RetryFallsDue(i)) \/ UNCHANGED vars PROVE scan' = scan
  BY <1>8 DEF RetryFallsDue, vars
<1> QED
  BY <1>1, <1>2, <1>3, <1>4, <1>5, <1>6, <1>7, <1>8 DEF Next

(* The handler of a report about an instance is its only writer.           *)
LEMMA HandlerAlone ==
    ASSUME OnceInv, NEW r \in Reporters, thr[r].pc # "idle", NEW i \in Ids, thr[r].src = i
    PROVE  /\ \A t \in Dispatchers : ~Dispatching(t, i)
           /\ i \notin scan
           /\ \A q \in Reporters : thr[q].pc = "result" /\ thr[q].src = i => q = r
<1>1. thr[r].from \in Workers /\ Knows(thr[r].from, i)
  BY ReporterKnows DEF OnceInv
<1>2. \A q \in Reporters : thr[q].pc = "result" /\ thr[q].src = i => q = r
  BY OneHandler DEF OnceInv
<1> QED
  BY <1>1, <1>2 DEF OnceInv, DispatchInv, HandedOver

(* A row that is not settled in a step stays open: what may be written is   *)
(* written by the goroutine that holds the row.                            *)
LEMMA StepOpen ==
    ASSUME Reliable, OnceInv, NoCancel, OpenInv, [Next]_vars
    PROVE  OpenInv'
<1>o. Taken /\ Listed /\ Settled /\ Handled
  BY StepOrderly DEF Orderly
<1>s. ASSUME NEW i \in Ids, ~isTerminalStatus(rows[i].status), isTerminalStatus(rows'[i].status)
      PROVE  \/ \E t \in Dispatchers : Dispatching(t, i) /\ ~Dispatching(t, i)'
             \/ \E r \in Reporters : /\ thr[r].pc = "result" /\ thr[r].src = i
                                     /\ thr'[r].pc # "result"
  BY <1>o, <1>s DEF Settled, NoCancel
<1>1. ASSUME NEW t \in Dispatchers, NEW i \in Ids, Dispatching(t, i)'
      PROVE  ~isTerminalStatus(rows'[i].status)
  <2>1. CASE Dispatching(t, i)
    <3>1. ~isTerminalStatus(rows[i].status)
      BY <2>1 DEF OpenInv
    <3>2. \A u \in Dispatchers : Dispatching(u, i) => u = t
      BY <2>1 DEF OnceInv, DispatchInv, OneDispatcher
    <3>3. ~\E r \in Reporters : thr[r].pc = "result" /\ thr[r].src = i
      BY <2>1, HandlerAlone
    <3> QED
      BY <1>1, <1>s, <3>1, <3>2, <3>3
  <2>2. CASE ~Dispatching(t, i)
    <3>1. (i \in scan /\ rows' = rows) \/ rows'[i].status = "pending"
      BY <1>1, <1>o, <2>2 DEF Taken
    <3> QED
      BY <3>1 DEF OpenInv, isTerminalStatus, Terminal
  <2> QED
    BY <2>1, <2>2
<1>2. ASSUME NEW i \in scan'
      PROVE  ~isTerminalStatus(rows'[i].status)
  <2>i. i \in Ids
    BY <1>2, StepTypeOK DEF OnceInv, IInv, TypeOK
  <2>1. CASE i \in scan
    <3>1. ~isTerminalStatus(rows[i].status)
      BY <2>1 DEF OpenInv
    <3>2. \A u \in Dispatchers : ~Dispatching(u, i)
      BY <2>1, <2>i DEF OnceInv, DispatchInv, OneDispatcher
    <3>3. ~\E r \in Reporters : thr[r].pc = "result" /\ thr[r].src = i
      BY <2>1, <2>i, HandlerAlone
    <3> QED
      BY <1>s, <2>i, <3>1, <3>2, <3>3, Zenon
  <2>2. CASE i \notin scan
    <3>1. rows' = rows /\ rows[i].status = "retry_waiting"
      BY <1>2, <1>o, <2>2, ScanReads DEF Listed
    <3> QED
      BY <3>1 DEF isTerminalStatus, Terminal
  <2> QED
    BY <2>1, <2>2
<1>3. ASSUME NEW r \in Reporters, thr'[r].pc = "result"
      PROVE  ~isTerminalStatus(rows'[thr'[r].src].status)
  <2>1. thr[r].pc # "idle" /\ thr'[r].src = thr[r].src /\ Forward(r)
    BY <1>3, <1>o DEF Handled, SameReport
  <2>2. PICK i \in Ids : i = thr[r].src
    BY <2>1, ReporterKnows DEF OnceInv
  <2>3. CASE thr[r].pc = "result"
    <3>1. ~isTerminalStatus(rows[i].status)
      BY <2>2, <2>3 DEF OpenInv
    <3> QED
      BY <1>3, <1>s, <2>1, <2>2, <3>1, HandlerAlone
  <2>4. CASE thr[r].pc # "result"
    BY <1>3, <2>1, <2>4 DEF Forward
  <2> QED
    BY <2>3, <2>4
<1> QED
  BY <1>1, <1>2, <1>3, Zenon DEF OpenInv

(* ReportStatus and the retry loop, for any number of workers, rows and      *)
(* handlers: a settled row keeps its status, across lost reports and        *)
(* dispatches, database errors and restarts of the scheduler, as long as    *)
(* nobody cancels, no call times out with its work going on and no worker   *)
(* restarts.                                                               *)
THEOREM SettledForGood ==
    ASSUME Reliable, "cancel" \notin Faults
    PROVE  Spec => SettledStable
<1> DEFINE Inv == OnceInv /\ NoCancel /\ OpenInv
           Kept == \A i \in Ids : isTerminalStatus(rows[i].status) =>
                                       rows'[i].status = rows[i].status
<1>1. Init => Inv
  <2> SUFFICES ASSUME Init PROVE Inv
    OBVIOUS
  <2>1. \A t \in Threads : thr[t].pc = "idle"
    BY DEF Init, Idle
  <2>2. Dispatchers \subseteq Threads /\ Reporters \subseteq Threads /\ Cancellers \subseteq Threads
    BY DEF Dispatchers, Threads
  <2>3. OpenInv /\ NoCancel
    BY <2>1, <2>2, Zenon DEF OpenInv, NoCancel, Dispatching, Init
  <2> QED
    BY <2>3, InitOnce
<1>2. Inv /\ [Next]_vars => Inv'
  BY StepOnce, StepNoCancel, StepOpen DEF OnceInv
<1>3. Inv /\ [Next]_vars => Kept
  <2> SUFFICES ASSUME Inv, [Next]_vars, NEW i \in Ids, isTerminalStatus(rows[i].status),
                      rows'[i].status # rows[i].status
               PROVE  FALSE
    OBVIOUS
  <2>1. Written
    BY StepOrderly DEF Orderly
  <2>2. Exists(i)
    BY DEF Exists, isTerminalStatus, Terminal
  <2>3. Writer(i)
    BY <2>1, <2>2 DEF Written
  <2> QED
    BY <2>3 DEF Writer, OpenInv, NoCancel
<1>4. Inv /\ [Next]_vars => [Kept]_vars
  BY <1>3
<1> HIDE DEF Inv
<1>5. Spec => [][Kept]_vars
  BY <1>1, <1>2, <1>4, PTL DEF Spec
<1> QED
  BY <1>5 DEF SettledStable

================================================================================
