---------------------------- MODULE TaskCatalogProofs ---------------------------
(***************************************************************************)
(* For any number of tasks, requests, reports and runs. Under any faults, the *)
(* tables keep their types and a pause holds: once nobody holds an enabled     *)
(* copy of a disabled task, no writer of the task table enables it and nobody  *)
(* runs it. While the engine is off, the backlog stays below its red line,     *)
(* the dependency gate holds and a task runs once for each time it falls due,  *)
(* each as long as nobody does what the theorem excludes.                    *)
(***************************************************************************)
EXTENDS TaskCatalog, FiniteSetTheorems, TLAPS

(* Every goroutine that is about to create an instance has an enabled copy of  *)
(* the task, and every one at work has a task.                               *)
ThreadStates ==
    {h \in [pc : PCs, t : Tasks \cup {NoTask}, copy : Rows, id : Nat, todo : SUBSET Tasks] :
        /\ h.pc \in {"deps", "create"} => h.copy.status = "enabled"
        /\ h.pc # "idle" => h.t \in Tasks}

(* Of a due task the loop's snapshot has an enabled copy.                  *)
Snapshots == {r \in Rows : r = Absent \/ r.status = "enabled"}

CatalogInv ==
    /\ task \in [Tasks -> Rows]
    /\ due \in [Tasks -> Snapshots]
    /\ inst \in Seq(Instances)
    /\ thr \in [Threads -> ThreadStates]

Paused(t) == task[t].status = "disabled" /\ ~HoldsEnabled(t)

(* What a step does to the rows and to the runs of paused tasks.           *)
RowsKept == \A t \in Tasks : Paused(t) => task'[t].status # "enabled"

RunsKept == \A t \in Tasks : Paused(t) => Runs(t)' = Runs(t)

Kept == CatalogInv' /\ RowsKept /\ RunsKept

--------------------------------------------------------------------------------
(* Init: no goroutine is at work.                                          *)
LEMMA IdleState == Idle \in ThreadStates /\ Absent \in Rows /\ Absent \in Snapshots
<1>1. Absent \in Rows
  BY DEF Absent, Rows
<1> QED
  BY <1>1 DEF Idle, ThreadStates, PCs, Snapshots

(* The catalogue before its first step.                                    *)
LEMMA InitCatalog == Init => CatalogInv
<1> SUFFICES ASSUME Init PROVE CatalogInv
  OBVIOUS
<1>1. [status |-> "enabled", next |-> "later"] \in Rows
  BY DEF Rows
<1> QED
  BY <1>1, IdleState DEF Init, CatalogInv

(* Steps that leave the table, or the instances, alone.                    *)
LEMMA Untouched ==
  ASSUME CatalogInv
  PROVE  /\ task' = task => RowsKept /\ task' \in [Tasks -> Rows]
         /\ inst' = inst => RunsKept /\ inst' \in Seq(Instances)
<1>1. ASSUME task' = task PROVE RowsKept /\ task' \in [Tasks -> Rows]
  BY <1>1 DEF RowsKept, Paused, CatalogInv
<1>2. ASSUME inst' = inst PROVE RunsKept /\ inst' \in Seq(Instances)
  BY <1>2 DEF RunsKept, Runs, CatalogInv
<1> QED
  BY <1>1, <1>2

(* UpdateTask with the copy of a goroutine, its trigger time changed: if the    *)
(* copy is enabled, the goroutine holds it.                                  *)
LEMMA WriteCopy ==
  ASSUME CatalogInv, NEW p \in Threads, NEW r \in Rows, r.status = thr[p].copy.status,
         thr[p].t \in Tasks, UpdateTask(thr[p].t, r)
  PROVE  task' \in [Tasks -> Rows] /\ RowsKept
<1>1. task' \in [Tasks -> Rows]
  BY DEF CatalogInv, UpdateTask
<1>2. ASSUME NEW t \in Tasks, Paused(t) PROVE task'[t].status # "enabled"
  <2>1. thr[p].t = t => thr[p].copy.status # "enabled"
    BY <1>2 DEF Paused, HoldsEnabled
  <2>2. task'[t] = task[t] \/ (thr[p].t = t /\ task'[t] = r)
    BY DEF UpdateTask, CatalogInv
  <2> QED
    BY <1>2, <2>1, <2>2 DEF Paused
<1> QED
  BY <1>1, <1>2 DEF RowsKept

Statuses == {"pending", "retry_waiting", "dispatched", "failed", "success"}

Written(i, st) == [inst EXCEPT ![i].status = st]

(* s has the instances of the table, whatever their status.                *)
SameRows(s) == /\ s \in Seq(Instances) /\ Len(s) = Len(inst)
               /\ \A k \in 1 .. Len(inst) : s[k].task = inst[k].task /\ s[k].of = inst[k].of

(* UpdateInstanceResult and UpdateInstanceDispatch change a status only.   *)
LEMMA StatusOnly ==
  ASSUME CatalogInv, NEW i \in Nat, NEW st \in Statuses
  PROVE  SameRows(Written(i, st))
<1>1. inst \in [1 .. Len(inst) -> Instances] /\ Len(inst) \in Nat /\ DOMAIN inst = 1 .. Len(inst)
  BY DEF CatalogInv
<1>2. PICK s : s = Written(i, st)
  OBVIOUS
<1>3. \A k \in 1 .. Len(inst) :
         /\ s[k] \in Instances
         /\ s[k].task = inst[k].task /\ s[k].of = inst[k].of
  BY <1>1, <1>2 DEF Instances, Statuses, Written
<1>4. s \in [1 .. Len(inst) -> Instances]
  BY <1>1, <1>2, <1>3, Zenon DEF Written
<1>5. s \in Seq(Instances) /\ Len(s) = Len(inst)
  BY <1>1, <1>4
<1> QED
  BY <1>2, <1>3, <1>5 DEF SameRows

(* Runs counts positions by task and by whether they are retries.          *)
LEMMA StatusWrite ==
  ASSUME CatalogInv, NEW i \in Nat, NEW st \in Statuses, inst' = Written(i, st)
  PROVE  RunsKept /\ inst' \in Seq(Instances)
<1>1. SameRows(inst')
  <2>1. SameRows(Written(i, st))
    BY StatusOnly
  <2> QED
    BY <2>1
<1>2. DOMAIN inst = 1 .. Len(inst) /\ DOMAIN inst' = 1 .. Len(inst)
  BY <1>1 DEF CatalogInv, SameRows
<1>3. \A t \in Tasks : {k \in DOMAIN inst : inst[k].task = t /\ inst[k].of = 0}
                       = {k \in DOMAIN inst' : inst'[k].task = t /\ inst'[k].of = 0}
  BY <1>1, <1>2 DEF SameRows
<1> QED
  BY <1>1, <1>3, Zenon DEF RunsKept, Runs, SameRows

(* An instance of a task that is not paused, or a retry, is appended.      *)
LEMMA MoreRuns ==
  ASSUME CatalogInv, NEW s, SameRows(s), NEW r \in Instances, inst' = Append(s, r),
         r.of # 0 \/ ~Paused(r.task)
  PROVE  RunsKept /\ inst' \in Seq(Instances)
<1>1. /\ inst' \in Seq(Instances) /\ Len(inst) \in Nat
      /\ DOMAIN inst = 1 .. Len(inst) /\ DOMAIN inst' = 1 .. Len(inst) + 1
      /\ \A k \in 1 .. Len(inst) : inst'[k] = s[k]
      /\ inst'[Len(inst) + 1] = r
  BY DEF CatalogInv, SameRows
<1>2. ASSUME NEW t \in Tasks, Paused(t)
      PROVE  {i \in DOMAIN inst : inst[i].task = t /\ inst[i].of = 0}
             = {i \in DOMAIN inst' : inst'[i].task = t /\ inst'[i].of = 0}
  <2>1. ~(inst'[Len(inst) + 1].task = t /\ inst'[Len(inst) + 1].of = 0)
    BY <1>1, <1>2
  <2>2. \A k \in 1 .. Len(inst) : inst'[k].task = inst[k].task /\ inst'[k].of = inst[k].of
    BY <1>1 DEF SameRows
  <2> QED
    BY <1>1, <2>1, <2>2
<1> QED
  BY <1>1, <1>2, Zenon DEF RunsKept, Runs

(* A goroutine goes on, or stops.                                          *)
LEMMA Going ==
  ASSUME CatalogInv, NEW p \in Threads
  PROVE  /\ Stop(p) => thr' \in [Threads -> ThreadStates]
         /\ \A pc \in PCs \ {"deps", "create", "idle"} :
               Goto(p, pc) /\ thr[p].t \in Tasks => thr' \in [Threads -> ThreadStates]
<1>1. ASSUME Stop(p) PROVE thr' \in [Threads -> ThreadStates]
  BY <1>1, IdleState DEF Stop, CatalogInv
<1>2. ASSUME NEW pc \in PCs \ {"deps", "create", "idle"}, Goto(p, pc), thr[p].t \in Tasks
      PROVE  thr' \in [Threads -> ThreadStates]
  <2>1. [thr[p] EXCEPT !.pc = pc] \in ThreadStates
    BY <1>2, Zenon DEF CatalogInv, ThreadStates
  <2> QED
    BY <1>2, <2>1 DEF Goto, CatalogInv
<1> QED
  BY <1>1, <1>2

--------------------------------------------------------------------------------
(* What a thread at work has: a task, and a copy of its row.               *)
LEMMA AtWork ==
  ASSUME CatalogInv, NEW p \in Threads
  PROVE  /\ thr[p] \in ThreadStates /\ thr[p].copy \in Rows /\ thr[p].id \in Nat
         /\ thr[p].pc # "idle" => thr[p].t \in Tasks
         /\ thr[p].pc \in {"deps", "create"} => thr[p].copy.status = "enabled"
  BY DEF CatalogInv, ThreadStates

(* CreateInstance of the loop and of the engine: the task is enabled in the    *)
(* copy, so it is not paused.                                                *)
LEMMA CreateKeeps ==
  ASSUME CatalogInv, NEW p \in Threads, CreateInstance(p) PROVE Kept
<1>1. thr[p].t \in Tasks /\ ~Paused(thr[p].t) /\ thr[p] \in ThreadStates
  BY AtWork DEF CreateInstance, At, Paused, HoldsEnabled
<1>2. UNCHANGED <<task, due>>
  BY DEF CreateInstance
<1>3. CASE /\ inst' = Append(inst, FirstRun(thr[p].t))
           /\ thr' = [thr EXCEPT ![p].pc = "dispatch", ![p].id = Len(inst) + 1]
  <2>1. FirstRun(thr[p].t) \in Instances /\ FirstRun(thr[p].t).task = thr[p].t
    BY <1>1 DEF FirstRun, Instances
  <2>2. RunsKept /\ inst' \in Seq(Instances)
    <3>1. SameRows(inst)
      BY DEF CatalogInv, SameRows
    <3> QED
      BY <1>1, <1>3, <2>1, <3>1, MoreRuns
  <2>3. Len(inst) + 1 \in Nat
    BY DEF CatalogInv
  <2>4. thr' \in [Threads -> ThreadStates]
    <3> DEFINE n == Len(inst) + 1
    <3> HIDE DEF n
    <3>1. [thr[p] EXCEPT !.pc = "dispatch", !.id = n] \in ThreadStates
      BY <1>1, <2>3, Zenon DEF ThreadStates, PCs, n
    <3> QED
      BY <1>3, <3>1 DEF CatalogInv, n
  <2> QED
    BY <1>2, <2>2, <2>4, Untouched DEF Kept, CatalogInv
<1>4. CASE Stop(p) /\ UNCHANGED inst
  BY <1>2, <1>4, Going, Untouched DEF Kept, CatalogInv
<1> QED
  BY <1>3, <1>4 DEF CreateInstance

(* Pick, UpdateInstanceDispatch and Dispatch: an instance changes its status. *)
LEMMA DispatchKeeps ==
  ASSUME CatalogInv, NEW p \in Threads, DispatchInstance(p) PROVE Kept
<1>1. thr[p].t \in Tasks /\ thr[p].id \in Nat
  BY AtWork DEF DispatchInstance, At
<1>2. UNCHANGED <<task, due>>
  BY DEF DispatchInstance
<1>3. thr' \in [Threads -> ThreadStates]
  <2>1. Stop(p) \/ Goto(p, "next") \/ Goto(p, "defer")
    BY DEF DispatchInstance
  <2> QED
    BY <1>1, <2>1, Going DEF PCs
<1>4. \/ inst' = inst
      \/ \E st \in Statuses : inst' = Written(thr[p].id, st)
  BY DEF DispatchInstance, Statuses, Written
<1>5. RunsKept /\ inst' \in Seq(Instances)
  BY <1>1, <1>4, Untouched, StatusWrite
<1> QED
  BY <1>2, <1>3, <1>5, Untouched DEF Kept, CatalogInv

(* DeferTask and AdvanceTask write the copy with another trigger time.     *)
LEMMA AfterKeeps ==
  ASSUME CatalogInv, NEW p \in Threads, DeferTask(p) \/ AdvanceTask(p) PROVE Kept
<1>1. thr[p].t \in Tasks /\ thr[p].copy \in Rows
  BY AtWork DEF DeferTask, AdvanceTask, At
<1>2. UNCHANGED <<due, inst>> /\ Stop(p)
  BY DEF DeferTask, AdvanceTask
<1>3. \/ task' = task
      \/ \E x \in {"later", "never"} : UpdateTask(thr[p].t, [thr[p].copy EXCEPT !.next = x])
  BY DEF DeferTask, AdvanceTask, AfterRun
<1>4. \A x \in {"later", "never"} : /\ [thr[p].copy EXCEPT !.next = x] \in Rows
                                    /\ [thr[p].copy EXCEPT !.next = x].status = thr[p].copy.status
  BY <1>1 DEF Rows
<1>5. task' \in [Tasks -> Rows] /\ RowsKept
  BY <1>1, <1>3, <1>4, Untouched, WriteCopy, Zenon
<1> QED
  BY <1>2, <1>5, Going, Untouched DEF Kept, CatalogInv

(* Loop.scan, the loop over its snapshot and the dependency check.         *)
LEMMA LoopKeeps ==
  ASSUME CatalogInv, Scan \/ HandleTask \/ CheckDependencies PROVE Kept
<1>1. UNCHANGED <<task, inst>> /\ "loop" \in Threads
  BY Zenon DEF Scan, HandleTask, CheckDependencies, Threads
<1>2. due' \in [Tasks -> Snapshots] /\ thr' \in [Threads -> ThreadStates]
  <2>1. CASE Scan
    <3>1. \A t \in ListDueTasks : task[t] \in Snapshots
      BY DEF ListDueTasks, isDue, CatalogInv, Snapshots
    <3>2. \E batch \in SUBSET ListDueTasks :
             \/ due' = due
             \/ due' = [t \in Tasks |-> IF t \in batch THEN task[t] ELSE Absent]
      BY <2>1, Zenon DEF Scan
    <3> QED
      BY <2>1, <3>1, <3>2, IdleState DEF Scan, CatalogInv
  <2>2. CASE HandleTask
    <3>1. PICK t \in InBatch :
             /\ thr' = [thr EXCEPT !["loop"] = [Idle EXCEPT !.pc = "deps", !.t = t,
                                                           !.copy = due[t]]]
             /\ due' = [due EXCEPT ![t] = Absent]
      BY <2>2, Zenon DEF HandleTask
    <3>2. t \in Tasks /\ due[t] \in Rows /\ due[t].status = "enabled"
      BY DEF InBatch, CatalogInv, Snapshots
    <3>3. [Idle EXCEPT !.pc = "deps", !.t = t, !.copy = due[t]] \in ThreadStates
      BY <3>2, Zenon DEF Idle, ThreadStates, PCs
    <3> QED
      BY <1>1, <3>1, <3>3, IdleState, Zenon DEF CatalogInv
  <2>3. CASE CheckDependencies
    <3>1. thr["loop"] \in ThreadStates /\ thr["loop"].pc = "deps"
      BY <1>1, <2>3, AtWork DEF CheckDependencies, At
    <3>2. \A pc \in {"create", "defer"} : [thr["loop"] EXCEPT !.pc = pc] \in ThreadStates
      BY <3>1 DEF ThreadStates, PCs
    <3>3. Stop("loop") \/ \E pc \in {"create", "defer"} : Goto("loop", pc)
      BY <2>3 DEF CheckDependencies
    <3>4. thr' \in [Threads -> ThreadStates]
      BY <1>1, <3>2, <3>3, Going DEF Goto, CatalogInv
    <3> QED
      BY <2>3, <3>4 DEF CheckDependencies, CatalogInv
  <2> QED
    BY <2>1, <2>2, <2>3
<1> QED
  BY <1>1, <1>2, Untouched DEF Kept, CatalogInv

(* The wheel says only which ids fire; OnTrigger reads the row and goes on     *)
(* with an enabled copy or not at all.                                       *)
LEMMA EngineKeeps ==
  ASSUME CatalogInv, OnTrigger \/ \E e \in Armed : Fire(e) PROVE Kept
<1>1. UNCHANGED <<task, inst, due>> /\ "engine" \in Threads
  BY Zenon DEF OnTrigger, Fire, Threads
<1>2. thr' \in [Threads -> ThreadStates]
  <2>1. CASE OnTrigger
    <3>1. thr["engine"] \in ThreadStates /\ thr["engine"].t \in Tasks
      BY <1>1, <2>1, AtWork DEF OnTrigger, At
    <3>2. task[thr["engine"].t] \in Rows
      BY <3>1 DEF CatalogInv
    <3>3. CASE task[thr["engine"].t].status = "enabled"
               /\ thr' = [thr EXCEPT !["engine"].pc = "create",
                                     !["engine"].copy = task[thr["engine"].t]]
      <4>1. [thr["engine"] EXCEPT !.pc = "create", !.copy = task[thr["engine"].t]]
              \in ThreadStates
        BY <3>1, <3>2, <3>3, Zenon DEF ThreadStates, PCs
      <4> QED
        BY <3>3, <4>1, Zenon DEF CatalogInv
    <3> QED
      BY <1>1, <2>1, <3>3, Going DEF OnTrigger
  <2>2. ASSUME NEW e \in Armed, Fire(e) PROVE thr' \in [Threads -> ThreadStates]
    <3>1. e[1] \in Tasks
      BY DEF Armed
    <3>2. [Idle EXCEPT !.pc = "fire", !.t = e[1]] \in ThreadStates
      BY <3>1, IdleState, Zenon DEF Idle, ThreadStates, PCs
    <3> QED
      BY <1>1, <2>2, <3>2, Zenon DEF Fire, CatalogInv
  <2> QED
    BY <2>1, <2>2
<1> QED
  BY <1>1, <1>2, Untouched DEF Kept, CatalogInv

(* The requests only read and edit a copy.                                 *)
LEMMA RequestKeeps ==
  ASSUME CatalogInv, NEW a \in Api, NEW t \in Tasks, Request(a, t) PROVE Kept
<1>1. UNCHANGED <<task, inst, due>> /\ a \in Threads
  BY DEF Request, Threads
<1>2. task[t] \in Rows /\ Upstream[t] \in SUBSET Tasks
  BY CatalogParameters DEF CatalogInv
<1>3. PICK pc \in {"write", "trigger", "update", "insert", "tool_insert", "delete"},
           copy \in Rows, want \in SUBSET Tasks : Begin(a, t, pc, copy, want)
  <2>1. /\ [task[t] EXCEPT !.status = "disabled"] \in Rows
        /\ [task[t] EXCEPT !.next = "due"] \in Rows
        /\ \A st \in {"enabled", "disabled"}, x \in {"null", "later", task[t].next} :
              [status |-> st, next |-> x] \in Rows
    BY <1>2 DEF Rows
  <2>2. CASE PauseTask(a, t) \/ TriggerTask(a, t) \/ DeleteTask(a, t)
    BY <2>1, <2>2, IdleState DEF PauseTask, TriggerTask, DeleteTask
  <2>3. CASE ResumeTask(a, t)
    BY <2>1, <2>3 DEF ResumeTask
  <2>4. CASE ReplaceTask(a, t)
    BY <1>2, <2>1, <2>4 DEF ReplaceTask
  <2>5. CASE CreateTask(a, t)
    BY <1>2, <2>1, <2>5 DEF CreateTask
  <2>6. CASE ToolPause(a, t)
    <3>1. [task[t] EXCEPT !.status = IF @ = "enabled" THEN "disabled" ELSE "enabled"] \in Rows
      BY <1>2 DEF Rows
    <3> QED
      BY <2>6, <3>1 DEF ToolPause
  <2>7. CASE ToolTrigger(a, t) \/ ToolCreate(a, t) \/ ToolDelete(a, t)
    BY <2>1, <2>7, IdleState DEF ToolTrigger, ToolCreate, ToolDelete
  <2> QED
    BY <2>2, <2>3, <2>4, <2>5, <2>6, <2>7 DEF Request
<1>4. [pc |-> pc, t |-> t, copy |-> copy, id |-> 0, todo |-> want] \in ThreadStates
  BY DEF ThreadStates, PCs
<1>5. thr' \in [Threads -> ThreadStates]
  BY <1>1, <1>3, <1>4 DEF Begin, CatalogInv
<1> QED
  BY <1>1, <1>5, Untouched DEF Kept, CatalogInv

(* A statement of a request ends it, or leads on to its dependencies, and     *)
(* leaves the instances and the scheduler alone.                            *)
LEMMA ApiFrame ==
  ASSUME NEW a \in Api, ApiStep(a)
  PROVE  /\ UNCHANGED <<inst, red, due, wheel, cached>>
         /\ a \in Threads /\ thr[a].pc # "idle"
         /\ Stop(a) \/ (Goto(a, "sync") /\ thr[a].pc \in {"insert", "update"})
<1>1. a \in Threads
  BY DEF Threads
<1>2. CASE WriteTask(a)
  BY <1>1, <1>2 DEF WriteTask, At
<1>3. CASE InsertTask(a)
  BY <1>1, <1>3 DEF InsertTask, At
<1>4. CASE EraseTask(a)
  BY <1>1, <1>4 DEF EraseTask, At
<1>5. CASE SyncDependencies(a)
  BY <1>1, <1>5, Zenon DEF SyncDependencies, At
<1>6. CASE ApiFails(a)
  BY <1>1, <1>6 DEF ApiFails
<1> QED
  BY <1>2, <1>3, <1>4, <1>5, <1>6 DEF ApiStep

(* The statements of the requests: only a copy can enable a task.          *)
LEMMA ApiKeeps ==
  ASSUME CatalogInv, NEW a \in Api, ApiStep(a) PROVE Kept
<1>1. UNCHANGED <<inst, due>> /\ a \in Threads
  BY ApiFrame
<1>2. thr[a].t \in Tasks /\ thr[a].copy \in Rows
  BY AtWork, ApiFrame
<1>3. thr' \in [Threads -> ThreadStates]
  <2>1. Stop(a) \/ Goto(a, "sync")
    BY ApiFrame
  <2> QED
    BY <1>1, <1>2, <2>1, Going DEF PCs
<1>4. task' \in [Tasks -> Rows] /\ RowsKept
  <2>1. CASE WriteTask(a)
    BY <1>1, <1>2, <2>1, WriteCopy DEF WriteTask
  <2>2. CASE InsertTask(a)
    <3>1. task' \in [Tasks -> Rows]
      BY <1>2, <2>2 DEF InsertTask, CatalogInv
    <3>2. ASSUME NEW t \in Tasks, Paused(t) PROVE task'[t].status # "enabled"
      <4>1. thr[a].t = t => thr[a].copy.status # "enabled"
        BY <1>1, <3>2 DEF Paused, HoldsEnabled
      <4>2. task'[t] = IF t = thr[a].t THEN thr[a].copy ELSE task[t]
        BY <2>2 DEF InsertTask, CatalogInv
      <4> QED
        BY <3>2, <4>1, <4>2 DEF Paused
    <3> QED
      BY <3>1, <3>2 DEF RowsKept
  <2>3. CASE EraseTask(a)
    <3>1. PICK r : r = [task[thr[a].t] EXCEPT !.status = "deleted", !.next = "null"]
      OBVIOUS
    <3>2. r \in Rows /\ r.status = "deleted"
      BY <1>2, <3>1, Zenon DEF CatalogInv, Rows
    <3>3. task' = [task EXCEPT ![thr[a].t] = r]
      BY <1>2, <2>3, <3>1, Zenon DEF EraseTask, CatalogInv
    <3> QED
      BY <1>2, <3>2, <3>3 DEF CatalogInv, RowsKept, Paused
  <2>4. CASE SyncDependencies(a)
    BY <2>4, Untouched DEF SyncDependencies
  <2>5. CASE ApiFails(a)
    BY <2>5, Untouched DEF ApiFails
  <2> QED
    BY <2>1, <2>2, <2>3, <2>4, <2>5 DEF ApiStep
<1> QED
  BY <1>1, <1>3, <1>4, Untouched DEF Kept, CatalogInv

(* A trigger time passes: the status stays.                                *)
LEMMA DueKeeps ==
  ASSUME CatalogInv, NEW t \in Tasks, FallsDue(t) PROVE Kept
<1>1. task' \in [Tasks -> Rows] /\ \A u \in Tasks : task'[u].status = task[u].status
  <2>1. [task[t] EXCEPT !.next = "due"] \in Rows
    BY DEF CatalogInv, Rows
  <2>2. [task[t] EXCEPT !.next = "due"].status = task[t].status
    BY DEF CatalogInv, Rows
  <2>3. task' = [task EXCEPT ![t] = [task[t] EXCEPT !.next = "due"]]
    BY DEF FallsDue, CatalogInv
  <2> QED
    BY <2>1, <2>2, <2>3 DEF CatalogInv
<1>2. RowsKept
  BY <1>1 DEF RowsKept, Paused
<1> QED
  BY <1>1, <1>2, Untouched DEF Kept, CatalogInv, FallsDue

(* A report of failure and the retry loop: a retry is not a run of its own. *)
LEMMA FailureKeeps ==
  ASSUME CatalogInv, NEW i \in Nat, ReportFailed(i) \/ RetryDispatch(i) PROVE Kept
<1>1. UNCHANGED <<task, due, thr>> /\ i \in DOMAIN inst
  BY DEF ReportFailed, RetryDispatch
<1>2. \/ \E st \in Statuses : inst' = Written(i, st)
      \/ inst' = Append(Written(i, "failed"),
                        [inst[i] EXCEPT !.status = "retry_waiting", !.of = i])
  BY DEF ReportFailed, RetryDispatch, Statuses, Written
<1>3. RunsKept /\ inst' \in Seq(Instances)
  <2>1. CASE \E st \in Statuses : inst' = Written(i, st)
    BY <2>1, StatusWrite
  <2>2. CASE inst' = Append(Written(i, "failed"),
                            [inst[i] EXCEPT !.status = "retry_waiting", !.of = i])
    <3>1. PICK r : r = [inst[i] EXCEPT !.status = "retry_waiting", !.of = i]
      OBVIOUS
    <3>2. inst[i] \in Instances
      BY <1>1 DEF CatalogInv
    <3>3. r \in Instances /\ r.of # 0
      <4>1. i # 0
        BY <1>1 DEF CatalogInv
      <4> QED
        BY <3>1, <3>2, <4>1, Zenon DEF Instances
    <3>4. PICK s : s = Written(i, "failed")
      OBVIOUS
    <3>5. SameRows(s)
      <4>1. "failed" \in Statuses
        BY DEF Statuses
      <4>2. SameRows(Written(i, "failed"))
        BY <4>1, StatusOnly
      <4> QED
        BY <3>4, <4>2
    <3>6. inst' = Append(s, r)
      BY <2>2, <3>1, <3>4
    <3> QED
      BY <3>3, <3>5, <3>6, MoreRuns
  <2> QED
    BY <1>2, <2>1, <2>2
<1> QED
  BY <1>1, <1>3, Untouched DEF Kept, CatalogInv

(* So is the retry that an agent's tool asks for.                          *)
LEMMA ToolRetryKeeps ==
  ASSUME CatalogInv, NEW i \in Nat, ToolRetry(i) PROVE Kept
<1>1. UNCHANGED <<task, due, thr>> /\ i \in DOMAIN inst
  BY DEF ToolRetry
<1>2. PICK r : r = [inst[i] EXCEPT !.status = "pending", !.of = i]
  OBVIOUS
<1>3. r \in Instances /\ r.of # 0
  <2>1. inst[i] \in Instances
    BY <1>1 DEF CatalogInv
  <2>2. i # 0
    BY <1>1 DEF CatalogInv
  <2> QED
    BY <1>2, <2>1, <2>2, Zenon DEF Instances
<1>4. SameRows(inst) /\ inst' = Append(inst, r)
  BY <1>2 DEF ToolRetry, SameRows, CatalogInv
<1>5. RunsKept /\ inst' \in Seq(Instances)
  BY <1>3, <1>4, MoreRuns
<1> QED
  BY <1>1, <1>5, Untouched DEF Kept, CatalogInv

(* A report of success only remembers the downstream tasks.                *)
LEMMA SuccessKeeps ==
  ASSUME CatalogInv, NEW i \in Nat, NEW r \in Reporters, ReportSuccess(r, i) PROVE Kept
<1>1. UNCHANGED <<task, due>> /\ r \in Threads
  BY DEF ReportSuccess, Threads
<1>2. RunsKept /\ inst' \in Seq(Instances)
  <2>1. inst' = Written(i, "success") /\ "success" \in Statuses
    BY DEF ReportSuccess, Written, Statuses
  <2> QED
    BY <2>1, StatusWrite
<1>3. PICK todo \in SUBSET Tasks : thr' = [thr EXCEPT ![r].todo = todo]
  BY Zenon DEF ReportSuccess
<1>4. [thr[r] EXCEPT !.todo = todo] \in ThreadStates
  BY <1>1 DEF CatalogInv, ThreadStates
<1>5. thr' \in [Threads -> ThreadStates]
  BY <1>1, <1>3, <1>4 DEF CatalogInv
<1> QED
  BY <1>1, <1>2, <1>5, Untouched DEF Kept, CatalogInv

(* fireDownstream advances an enabled copy, which it then holds.           *)
LEMMA DownstreamKeeps ==
  ASSUME CatalogInv, NEW r \in Reporters, ReportStep(r) PROVE Kept
<1>1. UNCHANGED <<due, inst>> /\ r \in Threads /\ thr[r] \in ThreadStates
  BY Zenon DEF ReportStep, ReadDownstream, AdvanceDownstream, Threads, CatalogInv
<1>2. thr[r].todo \in SUBSET Tasks
  BY <1>1 DEF ThreadStates
<1>3. ASSUME NEW d \in Tasks, ReadDownstream(r, d) PROVE Kept
  <2>1. thr' \in [Threads -> ThreadStates]
    <3> DEFINE left == thr[r].todo \ {d}
               copy == [task[d] EXCEPT !.next = "due"]
    <3>1. copy \in Rows /\ left \in SUBSET Tasks
      BY <1>2 DEF CatalogInv, Rows
    <3>2. /\ [thr[r] EXCEPT !.todo = left] \in ThreadStates
          /\ [Idle EXCEPT !.pc = "advance", !.t = d, !.copy = copy, !.todo = left]
               \in ThreadStates
      <4> HIDE DEF copy, left
      <4> QED
        BY <1>1, <3>1, Zenon DEF ThreadStates, Idle, PCs
    <3>3. \/ thr' = [thr EXCEPT ![r] = [thr[r] EXCEPT !.todo = left]]
          \/ thr' = [thr EXCEPT ![r] = [Idle EXCEPT !.pc = "advance", !.t = d, !.copy = copy,
                                                    !.todo = left]]
      <4>1. CASE thr' = [thr EXCEPT ![r].todo = @ \ {d}]
        BY <4>1
      <4> QED
        BY <1>3, <4>1 DEF ReadDownstream
    <3> HIDE DEF copy, left
    <3> QED
      BY <1>1, <3>2, <3>3 DEF CatalogInv
  <2>2. UNCHANGED <<task, due, inst>>
    BY <1>3 DEF ReadDownstream
  <2> QED
    BY <2>1, <2>2, Untouched DEF Kept, CatalogInv
<1>4. CASE AdvanceDownstream(r)
  <2>1. thr[r].t \in Tasks /\ thr[r].copy \in Rows
    BY <1>1, <1>4, AtWork DEF AdvanceDownstream, At
  <2>2. task' \in [Tasks -> Rows] /\ RowsKept
    BY <1>1, <1>4, <2>1, WriteCopy, Untouched DEF AdvanceDownstream
  <2>3. [Idle EXCEPT !.todo = thr[r].todo] \in ThreadStates
    BY <1>2, IdleState DEF Idle, ThreadStates, PCs
  <2>4. thr' \in [Threads -> ThreadStates]
    BY <1>1, <1>4, <2>3 DEF AdvanceDownstream, CatalogInv
  <2> QED
    BY <1>1, <2>2, <2>4, Untouched DEF Kept, CatalogInv
<1> QED
  BY <1>3, <1>4 DEF ReportStep

(* The caches, the wheel and a restart change neither rows nor runs.       *)
LEMMA OthersKeep ==
  ASSUME CatalogInv, WarmDueTasks \/ Warm \/ Restart \/ UNCHANGED vars PROVE Kept
<1>1. UNCHANGED <<task, inst>>
  BY DEF WarmDueTasks, Warm, Restart, vars
<1>2. due' \in [Tasks -> Snapshots] /\ thr' \in [Threads -> ThreadStates]
  BY IdleState DEF WarmDueTasks, Warm, Restart, vars, CatalogInv
<1> QED
  BY <1>1, <1>2, Untouched DEF Kept, CatalogInv

--------------------------------------------------------------------------------
(* Every step keeps the pauses.                                            *)
LEMMA StepKeeps == CatalogInv /\ [Next]_vars => Kept
<1> SUFFICES ASSUME CatalogInv, [Next]_vars PROVE Kept
  OBVIOUS
<1>1. "loop" \in Threads /\ "engine" \in Threads /\ \A i \in 1 .. MaxRuns : i \in Nat
  BY CatalogParameters DEF Threads
<1>2. CASE LoopStep
  BY <1>1, <1>2, LoopKeeps, CreateKeeps, DispatchKeeps, AfterKeeps DEF LoopStep
<1>3. CASE EngineStep
  BY <1>1, <1>3, EngineKeeps, CreateKeeps, DispatchKeeps, AfterKeeps DEF EngineStep
<1>4. CASE WarmDueTasks \/ Warm \/ Restart \/ UNCHANGED vars
  BY <1>4, OthersKeep
<1>5. ASSUME NEW t \in Tasks, FallsDue(t) PROVE Kept
  BY <1>5, DueKeeps
<1>6. ASSUME NEW e \in Armed, Fire(e) PROVE Kept
  BY <1>6, EngineKeeps
<1>7. ASSUME NEW a \in Api, ApiStep(a) \/ \E t \in Tasks : Request(a, t) PROVE Kept
  BY <1>7, ApiKeeps, RequestKeeps
<1>8. ASSUME NEW i \in 1 .. MaxRuns, ReportFailed(i) \/ RetryDispatch(i) \/ ToolRetry(i)
      PROVE  Kept
  BY <1>1, <1>8, FailureKeeps, ToolRetryKeeps
<1>9. ASSUME NEW i \in 1 .. MaxRuns, NEW r \in Reporters, ReportSuccess(r, i) PROVE Kept
  BY <1>1, <1>9, SuccessKeeps
<1>10. ASSUME NEW r \in Reporters, ReportStep(r) PROVE Kept
  BY <1>10, DownstreamKeeps
<1> QED
  BY <1>2, <1>3, <1>4, <1>5, <1>6, <1>7, <1>8, <1>9, <1>10 DEF Next

(* A disabled task of which nobody holds an enabled copy is neither enabled    *)
(* nor run by the trigger loop, the cache, the wheel, a report, another       *)
(* request or a tool, for any tasks, requests, dependencies and faults.                *)
THEOREM PauseStays == Spec => PauseHolds
<1>1. Init => CatalogInv
  BY InitCatalog
<1>2. CatalogInv /\ [Next]_vars => CatalogInv'
  BY StepKeeps DEF Kept
<1>3. CatalogInv /\ [Next]_vars
      => [\A t \in Tasks :
             task[t].status = "disabled" /\ ~HoldsEnabled(t)
                => task'[t].status # "enabled" /\ Runs(t)' = Runs(t)]_vars
  BY StepKeeps DEF Kept, RowsKept, RunsKept, Paused
<1> QED
  BY <1>1, <1>2, <1>3, PTL DEF Spec, PauseHolds

--------------------------------------------------------------------------------
(* How the instances and the goroutines change, for the theorems below.    *)

(* The goroutines that run tasks.                                          *)
Runners == {"loop", "engine"}

(* Runs go from pending or retry_waiting over dispatched to their result;   *)
(* of a row in a goroutine's hands only that goroutine changes the status.  *)
Carries(k) ==
    /\ inst'[k].task = inst[k].task /\ inst'[k].of = inst[k].of
    /\ \/ inst'[k].status = inst[k].status
       \/ inst[k].status = "dispatched" /\ inst'[k].status \in {"failed", "success"}
       \/ inst[k].status = "retry_waiting" /\ inst'[k].status = "dispatched"
       \/ \E p \in Runners : /\ DispatchInstance(p) /\ thr[p].id = k
                             /\ inst'[k].status \in {"dispatched", "failed"}

(* A new row is the run of a trigger or repeats a row of the table.        *)
Opened(r) == /\ r.of = 0 /\ r.status = "pending"
             /\ \E p \in Runners : CreateInstance(p) /\ thr[p].t = r.task

Repeated(r) == \E i \in 1 .. Len(inst) :
                  /\ r.of = i /\ r.task = inst[i].task
                  /\ \/ r.status = "retry_waiting"
                     \/ "tools" \in Ops /\ r.status = "pending"

Moves ==
    /\ \A k \in 1 .. Len(inst) : Carries(k)
    /\ \/ Len(inst') = Len(inst)
       \/ /\ Len(inst') = Len(inst) + 1 /\ Len(inst) < MaxRuns
          /\ Opened(inst'[Len(inst')]) \/ Repeated(inst'[Len(inst')])

(* The types that CatalogInv leaves out.                                   *)
TableInv ==
    /\ deps \in [Tasks -> SUBSET Tasks] /\ owed \in [Tasks -> BOOLEAN]
    /\ red \in BOOLEAN /\ wheel \subseteq Armed /\ cached \subseteq Tasks
    /\ Len(inst) <= MaxRuns
    /\ \A p \in Threads : thr[p].id <= Len(inst)

(* Without the engine, nothing is armed and its goroutine does not start.   *)
EngineOff == wheel = {} /\ thr["engine"].pc = "idle"

(* The requests that write back the trigger time they read.                *)
Rewriting == {"resume", "update", "tools"}

(* A run is owed for a due task, one in the batch and one about to be run:   *)
(* the loop is done with a trigger time before it looks for the next ones.  *)
TriggerInv ==
    /\ \A t \in InBatch : owed[t]
    /\ thr["loop"].pc # "idle" => thr["loop"].t \notin InBatch
    /\ thr["loop"].pc \in {"deps", "create"} => owed[thr["loop"].t]
    /\ \A t \in Tasks : isDue(t) =>
          \/ owed[t]
          \/ thr["loop"].pc \in {"dispatch", "next", "defer"} /\ thr["loop"].t = t

(* Where goroutines can be, and the copies of requests without Rewriting.   *)
PlacesInv ==
    /\ thr["loop"].pc \in {"idle", "deps", "defer", "create", "dispatch", "next"}
    /\ \A r \in Reporters : thr[r].pc \in {"idle", "advance"}
    /\ \A a \in Api :
          /\ thr[a].pc \in {"idle", "write", "trigger", "insert", "delete", "sync"}
          /\ thr[a].pc = "write" => thr[a].copy.status = "disabled"
          /\ thr[a].pc = "insert" => thr[a].copy.next # "due"

(* The pending rows and those the loop may yet add before its next scan.   *)
Coming == IF thr["loop"].pc \in {"deps", "create"} THEN 1 ELSE 0

LoadInv == CountPending + Cardinality(InBatch) + Coming <= RedLine - 1 + Cardinality(Tasks)

(* What the gate has seen stays true: a success is final, and no edge is     *)
(* added.                                                                  *)
Succeeded(d) == \E i \in 1 .. Len(inst) : inst[i].task = d /\ inst[i].status = "success"

GateInv ==
    /\ DependencyGate
    /\ \A a \in Api : thr[a].pc \notin {"insert", "update", "sync"}
    /\ At("loop", "create") => \A d \in deps[thr["loop"].t] : Succeeded(d)
    /\ At("loop", "dispatch") /\ thr["loop"].id \in 1 .. Len(inst) =>
          inst[thr["loop"].id].status = "pending"

(* Steps that leave the instances alone.                                   *)
LEMMA SameMoves == ASSUME inst' = inst PROVE Moves
BY DEF Moves, Carries

(* One status is written.                                                  *)
LEMMA WrittenMoves ==
  ASSUME CatalogInv, NEW i \in Nat, NEW st \in Statuses, inst' = Written(i, st),
         i \in 1 .. Len(inst) =>
            \/ inst[i].status = "dispatched" /\ st \in {"failed", "success"}
            \/ inst[i].status = "retry_waiting" /\ st = "dispatched"
            \/ \E p \in Runners : /\ DispatchInstance(p) /\ thr[p].id = i
                                  /\ st \in {"dispatched", "failed"}
  PROVE  Moves
<1>1. SameRows(Written(i, st))
  BY StatusOnly
<1>2. SameRows(inst')
  BY <1>1
<1>3. inst \in [1 .. Len(inst) -> Instances]
  BY DEF CatalogInv
<1>4. \A k \in 1 .. Len(inst) : inst'[k].status = IF k = i THEN st ELSE inst[k].status
  BY <1>3 DEF Written, Instances
<1>5. \A k \in 1 .. Len(inst) : Carries(k)
  BY <1>2, <1>4 DEF SameRows, Carries
<1> QED
  BY <1>2, <1>5 DEF Moves, SameRows

(* A row is appended, after a status is written or not.                    *)
LEMMA AppendMoves ==
  ASSUME CatalogInv, NEW s \in Seq(Instances), Len(s) = Len(inst), Len(inst) < MaxRuns,
         NEW r \in Instances, inst' = Append(s, r), Opened(r) \/ Repeated(r),
         \A k \in 1 .. Len(inst) :
            /\ s[k].task = inst[k].task /\ s[k].of = inst[k].of
            /\ \/ s[k].status = inst[k].status
               \/ inst[k].status = "dispatched" /\ s[k].status = "failed"
  PROVE  Moves
<1>1. /\ Len(inst') = Len(inst) + 1 /\ inst'[Len(inst) + 1] = r
      /\ \A k \in 1 .. Len(inst) : inst'[k] = s[k]
  BY DEF CatalogInv
<1>2. \A k \in 1 .. Len(inst) : Carries(k)
  BY <1>1 DEF Carries
<1> QED
  BY <1>1, <1>2 DEF Moves

(* CreateInstance and DispatchInstance.                                    *)
LEMMA RunMoves ==
  ASSUME CatalogInv, NEW p \in Runners, CreateInstance(p) \/ DispatchInstance(p)
  PROVE  Moves
<1>p. p \in Threads
  BY DEF Runners, Threads
<1>1. CASE CreateInstance(p)
  <2>1. CASE Len(inst) < MaxRuns /\ inst' = Append(inst, FirstRun(thr[p].t))
    <3>1. thr[p].t \in Tasks
      BY <1>1, <1>p, AtWork DEF CreateInstance, At
    <3>2. PICK r : r = FirstRun(thr[p].t)
      OBVIOUS
    <3>3. r \in Instances /\ Opened(r)
      BY <1>1, <3>1, <3>2 DEF FirstRun, Instances, Opened
    <3>4. inst \in Seq(Instances) /\ inst' = Append(inst, r)
      BY <2>1, <3>2 DEF CatalogInv
    <3> QED
      BY <2>1, <3>3, <3>4, AppendMoves
  <2> QED
    BY <1>1, <2>1, SameMoves DEF CreateInstance
<1>2. CASE DispatchInstance(p)
  <2>1. thr[p].id \in Nat
    BY <1>2, <1>p, AtWork DEF DispatchInstance
  <2>2. \/ inst' = inst
        \/ \E st \in {"dispatched", "failed"} : inst' = Written(thr[p].id, st)
    BY <1>2 DEF DispatchInstance, Written
  <2>3. ASSUME NEW st \in {"dispatched", "failed"}, inst' = Written(thr[p].id, st)
        PROVE  Moves
    <3>1. st \in Statuses
      BY DEF Statuses
    <3> QED
      BY <1>2, <2>1, <2>3, <3>1, WrittenMoves
  <2> QED
    BY <2>2, <2>3, SameMoves
<1> QED
  BY <1>1, <1>2

(* The reports, the retry loop and the agent's retry.                      *)
LEMMA ReportMoves ==
  ASSUME CatalogInv, NEW i \in Nat,
         \/ ReportFailed(i) \/ RetryDispatch(i) \/ ToolRetry(i)
         \/ \E r \in Reporters : ReportSuccess(r, i)
  PROVE  Moves
<1>1. i \in 1 .. Len(inst) /\ inst[i] \in Instances
  BY DEF CatalogInv, ReportFailed, RetryDispatch, ToolRetry, ReportSuccess
<1>2. CASE RetryDispatch(i)
  <2>1. "dispatched" \in Statuses /\ inst' = Written(i, "dispatched")
    BY <1>2 DEF RetryDispatch, Written, Statuses
  <2> QED
    BY <1>2, <2>1, WrittenMoves DEF RetryDispatch
<1>3. CASE \E r \in Reporters : ReportSuccess(r, i)
  <2>1. "success" \in Statuses /\ inst' = Written(i, "success")
    BY <1>3 DEF ReportSuccess, Written, Statuses
  <2> QED
    BY <1>3, <2>1, WrittenMoves DEF ReportSuccess
<1>4. CASE ReportFailed(i)
  <2>1. "failed" \in Statuses /\ inst[i].status = "dispatched"
    BY <1>4 DEF ReportFailed, Statuses
  <2>2. CASE inst' = Written(i, "failed")
    BY <2>1, <2>2, WrittenMoves
  <2>3. CASE /\ Len(inst) < MaxRuns
             /\ inst' = Append(Written(i, "failed"),
                               [inst[i] EXCEPT !.status = "retry_waiting", !.of = i])
    <3>1. PICK r : r = [inst[i] EXCEPT !.status = "retry_waiting", !.of = i]
      OBVIOUS
    <3>2. r \in Instances /\ Repeated(r)
      BY <1>1, <3>1, Zenon DEF Instances, Repeated
    <3>3. PICK s : s = Written(i, "failed")
      OBVIOUS
    <3>4. SameRows(s)
      <4>1. SameRows(Written(i, "failed"))
        BY <2>1, StatusOnly
      <4> QED
        BY <3>3, <4>1
    <3>5. \A k \in 1 .. Len(inst) :
             s[k].status = inst[k].status \/ (inst[k].status = "dispatched" /\ s[k].status = "failed")
      <4>1. inst \in [1 .. Len(inst) -> Instances]
        BY DEF CatalogInv
      <4> QED
        BY <2>1, <3>3, <4>1 DEF Written, Instances
    <3> QED
      BY <2>3, <3>1, <3>2, <3>3, <3>4, <3>5, AppendMoves DEF SameRows
  <2> QED
    BY <1>4, <2>2, <2>3 DEF ReportFailed, Written
<1>5. CASE ToolRetry(i)
  <2>1. PICK r : r = [inst[i] EXCEPT !.status = "pending", !.of = i]
    OBVIOUS
  <2>2. r \in Instances /\ Repeated(r)
    BY <1>1, <1>5, <2>1, Zenon DEF Instances, Repeated, ToolRetry
  <2>3. inst \in Seq(Instances) /\ inst' = Append(inst, r) /\ Len(inst) < MaxRuns
    BY <1>5, <2>1 DEF ToolRetry, CatalogInv
  <2> QED
    BY <2>2, <2>3, AppendMoves
<1> QED
  BY <1>2, <1>3, <1>4, <1>5

(* Every step.                                                             *)
LEMMA StepMoves == CatalogInv /\ [Next]_vars => Moves
<1> SUFFICES ASSUME CatalogInv, [Next]_vars PROVE Moves
  OBVIOUS
<1>1. "loop" \in Runners /\ "engine" \in Runners /\ \A i \in 1 .. MaxRuns : i \in Nat
  BY CatalogParameters DEF Runners
<1>2. CASE LoopStep
  BY <1>1, <1>2, RunMoves, SameMoves, Zenon DEF LoopStep, Scan, HandleTask, CheckDependencies,
     DeferTask, AdvanceTask
<1>3. CASE EngineStep
  BY <1>1, <1>3, RunMoves, SameMoves DEF EngineStep, OnTrigger, DeferTask, AdvanceTask
<1>4. CASE WarmDueTasks \/ Warm \/ Restart \/ UNCHANGED vars
  BY <1>4, SameMoves DEF WarmDueTasks, Warm, Restart, vars
<1>5. CASE (\E t \in Tasks : FallsDue(t)) \/ \E e \in Armed : Fire(e)
  BY <1>5, SameMoves, Zenon DEF FallsDue, Fire
<1>6. ASSUME NEW a \in Api, ApiStep(a) \/ \E t \in Tasks : Request(a, t) PROVE Moves
  BY <1>6, SameMoves, ApiFrame, Zenon DEF Request
<1>7. ASSUME NEW i \in 1 .. MaxRuns,
             \/ ReportFailed(i) \/ RetryDispatch(i) \/ ToolRetry(i)
             \/ \E r \in Reporters : ReportSuccess(r, i)
      PROVE  Moves
  BY <1>1, <1>7, ReportMoves
<1>8. ASSUME NEW r \in Reporters, ReportStep(r) PROVE Moves
  BY <1>8, SameMoves, Zenon DEF ReportStep, ReadDownstream, AdvanceDownstream
<1> QED
  BY <1>2, <1>3, <1>4, <1>5, <1>6, <1>7, <1>8 DEF Next

(* Only goroutine p moves.                                                 *)
Only(p) == \A q \in Threads \ {p} : thr'[q] = thr[q]

(* A goroutine goes on with its task and its copy.                         *)
LEMMA GoMoves ==
  ASSUME CatalogInv, NEW p \in Threads, NEW pc, Goto(p, pc)
  PROVE  /\ Only(p) /\ thr'[p].pc = pc /\ thr'[p].t = thr[p].t
         /\ thr'[p].copy = thr[p].copy /\ thr'[p].id = thr[p].id
<1>1. thr[p] \in ThreadStates
  BY DEF CatalogInv
<1>2. thr'[p] = [thr[p] EXCEPT !.pc = pc] /\ Only(p)
  BY DEF CatalogInv, Goto, Only
<1> QED
  BY <1>1, <1>2 DEF ThreadStates

(* A goroutine stops.                                                      *)
LEMMA StopMoves ==
  ASSUME CatalogInv, NEW p \in Threads, Stop(p)
  PROVE  Only(p) /\ thr'[p] = Idle
BY DEF CatalogInv, Stop, Only

(* A goroutine takes up an instance it created.                            *)
LEMMA HoldMoves ==
  ASSUME CatalogInv, NEW p \in Threads, NEW n \in Nat,
         thr' = [thr EXCEPT ![p].pc = "dispatch", ![p].id = n]
  PROVE  /\ Only(p) /\ thr'[p].pc = "dispatch" /\ thr'[p].t = thr[p].t /\ thr'[p].id = n
<1>1. thr[p] \in ThreadStates
  BY DEF CatalogInv
<1> DEFINE mid == [thr[p] EXCEPT !.pc = "dispatch"]
<1>2. mid.pc = "dispatch" /\ mid.t = thr[p].t
      /\ mid \in [pc : PCs, t : Tasks \cup {NoTask}, copy : Rows, id : Nat, todo : SUBSET Tasks]
  BY <1>1 DEF ThreadStates, PCs
<1>3. thr'[p] = [mid EXCEPT !.id = n] /\ Only(p)
  BY <1>1 DEF CatalogInv, Only, ThreadStates
<1> HIDE DEF mid
<1> QED
  BY <1>2, <1>3

(* What a goroutine has in hand is in the table.                           *)
HeldIds == \A p \in Threads : thr'[p].id \in {0, thr[p].id, Len(inst')}

LEMMA StepIds == CatalogInv /\ [Next]_vars => HeldIds
<1> SUFFICES ASSUME CatalogInv, [Next]_vars PROVE HeldIds
  OBVIOUS
<1>1. "loop" \in Threads /\ "engine" \in Threads /\ Api \subseteq Threads /\ Reporters \subseteq Threads
  BY DEF Threads
<1>o. ASSUME NEW p \in Threads, Only(p), thr'[p].id \in {0, thr[p].id, Len(inst')}
      PROVE  HeldIds
  BY <1>o DEF Only, HeldIds
<1>g. ASSUME NEW p \in Threads, Stop(p) \/ \E pc \in PCs : Goto(p, pc) PROVE HeldIds
  BY <1>g, <1>o, GoMoves, StopMoves DEF Idle
<1>c. ASSUME NEW p \in Threads, CreateInstance(p) PROVE HeldIds
  <2>1. CASE /\ inst' = Append(inst, FirstRun(thr[p].t))
             /\ thr' = [thr EXCEPT ![p].pc = "dispatch", ![p].id = Len(inst) + 1]
    <3>1. thr[p].t \in Tasks /\ inst \in Seq(Instances)
      BY <1>c, AtWork DEF CreateInstance, At, CatalogInv
    <3>2. FirstRun(thr[p].t) \in Instances
      BY <3>1 DEF FirstRun, Instances
    <3>3. Len(inst) + 1 \in Nat /\ Len(inst') = Len(inst) + 1
      BY <2>1, <3>1, <3>2
    <3> QED
      BY <1>o, <2>1, <3>3, HoldMoves, Zenon
  <2> QED
    BY <1>c, <1>g, <2>1 DEF CreateInstance
<1>d. ASSUME NEW p \in Threads, DispatchInstance(p) \/ DeferTask(p) \/ AdvanceTask(p)
      PROVE  HeldIds
  <2>1. Stop(p) \/ \E pc \in PCs : Goto(p, pc)
    BY <1>d DEF DispatchInstance, DeferTask, AdvanceTask, PCs
  <2> QED
    BY <1>g, <2>1
<1>2. CASE LoopStep
  <2>1. CASE Scan
    BY <2>1 DEF Scan, HeldIds
  <2>2. CASE HandleTask
    BY <1>1, <1>o, <2>2 DEF HandleTask, Idle, Only, CatalogInv
  <2>3. CASE CheckDependencies
    BY <1>1, <1>g, <2>3 DEF CheckDependencies, PCs
  <2> QED
    BY <1>1, <1>2, <1>c, <1>d, <2>1, <2>2, <2>3 DEF LoopStep
<1>3. CASE EngineStep
  <2>1. CASE OnTrigger
    <3>1. CASE thr' = [thr EXCEPT !["engine"].pc = "create",
                                  !["engine"].copy = task[thr["engine"].t]]
      <4>1. thr["engine"] \in ThreadStates
        BY <1>1 DEF CatalogInv
      <4>2. thr'["engine"].id = thr["engine"].id /\ Only("engine")
        BY <1>1, <3>1, <4>1 DEF CatalogInv, Only, ThreadStates
      <4> QED
        BY <1>1, <1>o, <4>2
    <3> QED
      BY <1>1, <1>g, <2>1, <3>1 DEF OnTrigger
  <2> QED
    BY <1>1, <1>3, <1>c, <1>d, <2>1 DEF EngineStep
<1>4. CASE WarmDueTasks \/ Warm \/ UNCHANGED vars
  BY <1>4 DEF WarmDueTasks, Warm, vars, HeldIds
<1>5. CASE Restart
  BY <1>5 DEF Restart, HeldIds, Idle
<1>6. ASSUME NEW t \in Tasks, FallsDue(t) PROVE HeldIds
  BY <1>6 DEF FallsDue, HeldIds
<1>7. ASSUME NEW e \in Armed, Fire(e) PROVE HeldIds
  BY <1>1, <1>7 DEF Fire, HeldIds, Idle, CatalogInv
<1>8. ASSUME NEW a \in Api, NEW t \in Tasks, Request(a, t) PROVE HeldIds
  <2>1. \E pc, copy, want : Begin(a, t, pc, copy, want)
    BY <1>8, Zenon DEF Request, PauseTask, ResumeTask, TriggerTask, ReplaceTask, CreateTask,
       DeleteTask, ToolPause, ToolTrigger, ToolCreate, ToolDelete
  <2> QED
    BY <1>1, <2>1 DEF Begin, HeldIds, CatalogInv
<1>9. ASSUME NEW a \in Api, ApiStep(a) PROVE HeldIds
  <2>1. Stop(a) \/ Goto(a, "sync")
    BY <1>9, ApiFrame
  <2> QED
    BY <1>1, <1>g, <2>1 DEF PCs
<1>10. ASSUME NEW i, ReportFailed(i) \/ RetryDispatch(i) \/ ToolRetry(i) PROVE HeldIds
  BY <1>10 DEF ReportFailed, RetryDispatch, ToolRetry, HeldIds
<1>11. ASSUME NEW r \in Reporters, NEW x, thr' = [thr EXCEPT ![r].todo = x] PROVE HeldIds
  <2>1. thr[r] \in ThreadStates
    BY <1>1 DEF CatalogInv
  <2>2. thr'[r].id = thr[r].id /\ Only(r)
    BY <1>1, <1>11, <2>1 DEF CatalogInv, Only, ThreadStates
  <2> QED
    BY <1>1, <1>o, <2>2
<1>12. ASSUME NEW r \in Reporters, NEW i, ReportSuccess(r, i) PROVE HeldIds
  BY <1>11, <1>12, Zenon DEF ReportSuccess
<1>13. ASSUME NEW r \in Reporters, NEW d \in Tasks, ReadDownstream(r, d) PROVE HeldIds
  <2>1. CASE thr' = [thr EXCEPT ![r].todo = @ \ {d}]
    <3>1. thr' = [thr EXCEPT ![r].todo = thr[r].todo \ {d}]
      BY <2>1
    <3> QED
      BY <1>11, <3>1, Zenon
  <2>2. CASE \E c, x : thr' = [thr EXCEPT ![r] = [Idle EXCEPT !.pc = "advance", !.t = d,
                                                          !.copy = c, !.todo = x]]
    BY <1>1, <1>o, <2>2 DEF CatalogInv, Only, Idle
  <2> QED
    BY <1>13, <2>1, <2>2, Zenon DEF ReadDownstream
<1>14. ASSUME NEW r \in Reporters, AdvanceDownstream(r) PROVE HeldIds
  BY <1>1, <1>o, <1>14 DEF AdvanceDownstream, CatalogInv, Only, Idle
<1> QED
  BY <1>2, <1>3, <1>4, <1>5, <1>6, <1>7, <1>8, <1>9, <1>10, <1>12, <1>13, <1>14
     DEF Next, ReportStep

(* The tables beside the tasks and the instances.                          *)
LEMMA StepTable == CatalogInv /\ TableInv /\ [Next]_vars => TableInv'
<1> SUFFICES ASSUME CatalogInv, TableInv, [Next]_vars PROVE TableInv'
  OBVIOUS
<1>1. "loop" \in Threads /\ "engine" \in Threads /\ Api \subseteq Threads /\ Reporters \subseteq Threads
  BY DEF Threads
<1>2. /\ inst \in Seq(Instances) /\ inst' \in Seq(Instances)
      /\ Len(inst') = Len(inst) \/ (Len(inst') = Len(inst) + 1 /\ Len(inst) < MaxRuns)
  BY StepKeeps, StepMoves DEF Kept, CatalogInv, Moves
<1>3. Len(inst) \in Nat /\ Len(inst') \in Nat /\ MaxRuns \in Nat
  BY <1>2, CatalogParameters
<1>4. Len(inst') <= MaxRuns /\ Len(inst) <= Len(inst')
  BY <1>2, <1>3 DEF TableInv
<1>5. \A p \in Threads : thr'[p].id <= Len(inst')
  <2>1. \A p \in Threads : thr[p].id \in Nat /\ thr[p].id <= Len(inst)
    BY AtWork DEF TableInv
  <2> QED
    BY <1>3, <1>4, <2>1, StepIds DEF HeldIds
<1>6. deps' \in [Tasks -> SUBSET Tasks]
  <2>1. ASSUME NEW a \in Api, EraseTask(a) PROVE deps' \in [Tasks -> SUBSET Tasks]
    BY <2>1 DEF EraseTask, TableInv
  <2>2. ASSUME NEW a \in Api, SyncDependencies(a) PROVE deps' \in [Tasks -> SUBSET Tasks]
    <3>1. PICK dropped \in SUBSET (deps[thr[a].t] \ thr[a].todo),
                added \in SUBSET (thr[a].todo \cap Present) :
             deps' = [deps EXCEPT ![thr[a].t] = (@ \ dropped) \cup added]
      BY <2>2, Zenon DEF SyncDependencies
    <3>2. added \subseteq Tasks
      BY DEF Present
    <3> QED
      BY <3>1, <3>2, Zenon DEF TableInv
  <2>3. ASSUME NEW a \in Api, ApiStep(a) \/ \E t \in Tasks : Request(a, t)
        PROVE  deps' = deps \/ EraseTask(a) \/ SyncDependencies(a)
    BY <2>3, Zenon DEF ApiStep, ApiFails, WriteTask, InsertTask, Request
  <2>4. ASSUME LoopStep \/ EngineStep \/ WarmDueTasks \/ Warm \/ Restart \/ UNCHANGED vars
        PROVE  deps' = deps
    BY <2>4, Zenon DEF LoopStep, Scan, HandleTask, CheckDependencies, CreateInstance,
       DispatchInstance, DeferTask, AdvanceTask, EngineStep, OnTrigger, WarmDueTasks,
       Warm, Restart, vars
  <2>5. ASSUME \/ \E t \in Tasks : FallsDue(t)
               \/ \E e \in Armed : Fire(e)
               \/ \E i \in 1 .. MaxRuns : \/ ReportFailed(i) \/ RetryDispatch(i) \/ ToolRetry(i)
                                         \/ \E r \in Reporters : ReportSuccess(r, i)
               \/ \E r \in Reporters : ReportStep(r)
        PROVE  deps' = deps
    BY <2>5, Zenon DEF FallsDue, Fire, ReportFailed, RetryDispatch, ToolRetry, ReportSuccess,
       ReportStep, ReadDownstream, AdvanceDownstream
  <2>6. deps' = deps \/ \E a \in Api : EraseTask(a) \/ SyncDependencies(a)
    BY <2>3, <2>4, <2>5 DEF Next
  <2> QED
    BY <2>1, <2>2, <2>6 DEF TableInv
<1>7. owed' \in [Tasks -> BOOLEAN]
  <2>1. \/ owed' = owed
        \/ \E t : \E b \in BOOLEAN : owed' = [owed EXCEPT ![t] = b]
        \/ \E t : \E b \in BOOLEAN : owed' = [owed EXCEPT ![t] = @ \/ b]
    <3>1. CASE LoopStep \/ EngineStep
      BY <3>1, Zenon DEF LoopStep, Scan, HandleTask, CheckDependencies, CreateInstance,
         DispatchInstance, DeferTask, AdvanceTask, EngineStep, OnTrigger
    <3>2. CASE WarmDueTasks \/ Warm \/ Restart \/ UNCHANGED vars
      BY <3>2 DEF WarmDueTasks, Warm, Restart, vars
    <3>3. CASE (\E t \in Tasks : FallsDue(t)) \/ \E e \in Armed : Fire(e)
      BY <3>3, Zenon DEF FallsDue, Fire
    <3>4. ASSUME NEW a \in Api, WriteTask(a)
          PROVE  \E t : \E b \in BOOLEAN : owed' = [owed EXCEPT ![t] = @ \/ b]
      <4>1. (thr[a].t \in Present /\ At(a, "trigger")) \in BOOLEAN
        OBVIOUS
      <4>2. owed' = [owed EXCEPT ![thr[a].t] = @ \/ (thr[a].t \in Present /\ At(a, "trigger"))]
        BY <3>4 DEF WriteTask
      <4> QED
        BY <4>1, <4>2, Zenon
    <3>5. ASSUME NEW a \in Api, ApiStep(a) \/ \E t \in Tasks : Request(a, t)
          PROVE  owed' = owed \/ WriteTask(a)
      BY <3>5, Zenon DEF ApiStep, ApiFails, InsertTask, EraseTask, SyncDependencies, Request
    <3>6. ASSUME \E i \in 1 .. MaxRuns : \/ ReportFailed(i) \/ RetryDispatch(i) \/ ToolRetry(i)
                                        \/ \E r \in Reporters : ReportSuccess(r, i)
          PROVE  owed' = owed
      BY <3>6 DEF ReportFailed, RetryDispatch, ToolRetry, ReportSuccess
    <3>7. ASSUME NEW r \in Reporters, ReportStep(r)
          PROVE  \/ owed' = owed
                 \/ \E t : \E b \in BOOLEAN : owed' = [owed EXCEPT ![t] = @ \/ b]
      <4>1. (thr[r].t \in Present) \in BOOLEAN
        OBVIOUS
      <4>2. owed' = owed \/ owed' = [owed EXCEPT ![thr[r].t] = @ \/ thr[r].t \in Present]
        BY <3>7, Zenon DEF ReportStep, ReadDownstream, AdvanceDownstream
      <4> QED
        BY <4>1, <4>2, Zenon
    <3> QED
      BY <3>1, <3>2, <3>3, <3>4, <3>5, <3>6, <3>7, Zenon DEF Next
  <2> QED
    BY <2>1 DEF TableInv
<1>8. red' \in BOOLEAN
  <2>1. CASE Scan \/ Restart
    <3>1. (CountPending >= RedLine) \in BOOLEAN
      OBVIOUS
    <3>2. red' = (CountPending >= RedLine) \/ red' = FALSE
      BY <2>1 DEF Scan, UpdatePending, Restart
    <3> QED
      BY <3>1, <3>2, Zenon
  <2>2. CASE LoopStep \/ EngineStep
    BY <2>1, <2>2, Zenon DEF LoopStep, HandleTask, CheckDependencies, CreateInstance,
       DispatchInstance, DeferTask, AdvanceTask, EngineStep, OnTrigger, TableInv
  <2>3. CASE \/ WarmDueTasks \/ Warm \/ UNCHANGED vars
             \/ \E t \in Tasks : FallsDue(t)
             \/ \E e \in Armed : Fire(e)
    BY <2>3, Zenon DEF WarmDueTasks, Warm, vars, FallsDue, Fire, TableInv
  <2>4. ASSUME NEW a \in Api, ApiStep(a) \/ \E t \in Tasks : Request(a, t)
        PROVE  red' = red
    BY <2>4, ApiFrame, Zenon DEF Request
  <2>5. ASSUME \/ \E i \in 1 .. MaxRuns : \/ ReportFailed(i) \/ RetryDispatch(i) \/ ToolRetry(i)
                                         \/ \E r \in Reporters : ReportSuccess(r, i)
               \/ \E r \in Reporters : ReportStep(r)
        PROVE  red' = red
    BY <2>5, Zenon DEF ReportFailed, RetryDispatch, ToolRetry, ReportSuccess, ReportStep,
       ReadDownstream, AdvanceDownstream
  <2> QED
    BY <2>1, <2>2, <2>3, <2>4, <2>5 DEF Next, TableInv
<1>9. wheel' \subseteq Armed /\ cached' \subseteq Tasks
  <2>1. Retrying \subseteq Tasks /\ ListDueTasks \subseteq Tasks
    <3>1. \A i \in DOMAIN inst : inst[i].task \in Tasks
      <4>1. \A i \in DOMAIN inst : inst[i] \in Instances
        BY DEF CatalogInv
      <4> QED
        BY <4>1 DEF Instances
    <3> QED
      BY <3>1 DEF Retrying, ListDueTasks
  <2>2. CASE WarmDueTasks \/ Warm \/ Restart
    BY <2>1, <2>2 DEF WarmDueTasks, Warm, Restart, TableInv, Armed
  <2>3. ASSUME NEW p \in Threads, AdvanceTask(p) PROVE wheel' \subseteq Armed /\ cached' = cached
    <3>1. thr[p].t \in Tasks
      BY <2>3, AtWork DEF AdvanceTask, At
    <3> QED
      BY <2>3, <3>1 DEF AdvanceTask, TableInv, Armed
  <2>4. CASE LoopStep \/ EngineStep
    BY <1>1, <2>3, <2>4, Zenon
       DEF LoopStep, Scan, HandleTask, CheckDependencies, CreateInstance,
       DispatchInstance, DeferTask, EngineStep, OnTrigger, TableInv
  <2>5. CASE (\E t \in Tasks : FallsDue(t)) \/ (\E e \in Armed : Fire(e)) \/ UNCHANGED vars
    BY <2>5, Zenon DEF FallsDue, Fire, vars, TableInv
  <2>6. ASSUME NEW a \in Api, ApiStep(a) \/ \E t \in Tasks : Request(a, t)
        PROVE  UNCHANGED <<wheel, cached>>
    BY <2>6, ApiFrame, Zenon DEF Request
  <2>7. ASSUME \/ \E i \in 1 .. MaxRuns : \/ ReportFailed(i) \/ RetryDispatch(i) \/ ToolRetry(i)
                                         \/ \E r \in Reporters : ReportSuccess(r, i)
               \/ \E r \in Reporters : ReportStep(r)
        PROVE  UNCHANGED <<wheel, cached>>
    BY <2>7, Zenon DEF ReportFailed, RetryDispatch, ToolRetry, ReportSuccess, ReportStep,
       ReadDownstream, AdvanceDownstream
  <2> QED
    BY <2>2, <2>4, <2>5, <2>6, <2>7 DEF Next, TableInv
<1> QED
  BY <1>4, <1>5, <1>6, <1>7, <1>8, <1>9 DEF TableInv

(* The catalogue before its first step.                                    *)
LEMMA InitTable == Init => TableInv
<1> SUFFICES ASSUME Init PROVE TableInv
  OBVIOUS
<1>1. deps \in [Tasks -> SUBSET Tasks] /\ owed \in [Tasks -> BOOLEAN]
  BY CatalogParameters DEF Init
<1>2. Len(inst) = 0 /\ \A p \in Threads : thr[p].id = 0
  BY DEF Init, Idle
<1>3. red \in BOOLEAN /\ wheel \subseteq Armed /\ cached \subseteq Tasks
  BY Zenon DEF Init
<1>4. 0 <= MaxRuns
  BY CatalogParameters
<1> QED
  BY <1>1, <1>2, <1>3, <1>4 DEF TableInv

(* The two together.                                                       *)
THEOREM CatalogInductive == Spec => [](CatalogInv /\ TableInv)
<1>1. CatalogInv /\ TableInv /\ [Next]_vars => (CatalogInv /\ TableInv)'
  BY StepKeeps, StepTable DEF Kept
<1> QED
  BY <1>1, InitCatalog, InitTable, PTL DEF Spec

(* The tables, the caches and the goroutines keep their types, for any tasks, *)
(* requests, dependencies and faults: an instance in the hands of a          *)
(* goroutine is in the table.                                              *)
THEOREM CatalogTyped == Spec => []TypeOK
<1>1. CatalogInv /\ TableInv => TypeOK
  <2> SUFFICES ASSUME CatalogInv, TableInv PROVE TypeOK
    OBVIOUS
  <2>1. due \in [Tasks -> Rows]
    BY DEF CatalogInv, Snapshots
  <2>2. \A p \in Threads :
           thr[p] \in [pc : PCs, t : Tasks \cup {NoTask}, copy : Rows,
                       id : 0 .. MaxRuns, todo : SUBSET Tasks]
    <3> SUFFICES ASSUME NEW p \in Threads
                 PROVE  thr[p] \in [pc : PCs, t : Tasks \cup {NoTask}, copy : Rows,
                                    id : 0 .. MaxRuns, todo : SUBSET Tasks]
      OBVIOUS
    <3>1. Len(inst) \in Nat /\ MaxRuns \in Nat
      BY CatalogParameters DEF CatalogInv
    <3>2. thr[p].id \in 0 .. MaxRuns
      BY <3>1, AtWork DEF TableInv
    <3> QED
      BY <3>2, AtWork DEF ThreadStates
  <2> QED
    BY <2>1, <2>2 DEF TypeOK, CatalogInv, TableInv
<1> QED
  BY <1>1, CatalogInductive, PTL

--------------------------------------------------------------------------------
(* Who moves, without the engine.                                          *)

(* The trigger loop takes its steps alone.                                 *)
LEMMA LoopAlone == ASSUME CatalogInv, LoopStep PROVE Only("loop")
<1>1. "loop" \in Threads
  BY DEF Threads
<1>2. CASE HandleTask
  BY <1>2 DEF HandleTask, Only, CatalogInv
<1>3. CASE CreateInstance("loop")
  BY <1>1, <1>3, StopMoves DEF CreateInstance, Only, CatalogInv
<1>4. CASE CheckDependencies \/ DispatchInstance("loop") \/ DeferTask("loop") \/ AdvanceTask("loop")
  <2>1. Stop("loop") \/ \E pc \in PCs : Goto("loop", pc)
    BY <1>4 DEF CheckDependencies, DispatchInstance, DeferTask, AdvanceTask, PCs
  <2> QED
    BY <1>1, <2>1, StopMoves, GoMoves
<1> QED
  BY <1>2, <1>3, <1>4 DEF LoopStep, Scan, Only

(* So does a request.                                                      *)
LEMMA ApiAlone ==
  ASSUME CatalogInv, NEW a \in Api, ApiStep(a) \/ \E t \in Tasks : Request(a, t)
  PROVE  Only(a)
<1>1. a \in Threads
  BY DEF Threads
<1>2. CASE ApiStep(a)
  <2>1. Stop(a) \/ Goto(a, "sync")
    BY <1>2, ApiFrame
  <2> QED
    BY <1>1, <2>1, StopMoves, GoMoves
<1>3. ASSUME NEW t \in Tasks, Request(a, t) PROVE Only(a)
  <2>1. \E pc, copy, want : Begin(a, t, pc, copy, want)
    BY <1>3, Zenon DEF Request, PauseTask, ResumeTask, TriggerTask, ReplaceTask, CreateTask,
       DeleteTask, ToolPause, ToolTrigger, ToolCreate, ToolDelete
  <2> QED
    BY <2>1 DEF Begin, Only, CatalogInv
<1> QED
  BY <1>2, <1>3

(* And a report of success.                                                *)
LEMMA ReportAlone ==
  ASSUME CatalogInv, NEW r \in Reporters, ReportStep(r) \/ \E i \in Nat : ReportSuccess(r, i)
  PROVE  Only(r)
<1>1. \E h : thr' = [thr EXCEPT ![r] = h]
  <2>1. ASSUME NEW i \in Nat, ReportSuccess(r, i) PROVE \E h : thr' = [thr EXCEPT ![r] = h]
    <3>1. PICK x : thr' = [thr EXCEPT ![r].todo = x]
      BY <2>1, Zenon DEF ReportSuccess
    <3>2. thr' = [thr EXCEPT ![r] = [thr[r] EXCEPT !.todo = x]]
      BY <3>1
    <3> QED
      BY <3>2, Zenon
  <2>2. ASSUME NEW d \in Tasks, ReadDownstream(r, d) PROVE \E h : thr' = [thr EXCEPT ![r] = h]
    <3>1. CASE thr' = [thr EXCEPT ![r].todo = @ \ {d}]
      <4>1. thr' = [thr EXCEPT ![r] = [thr[r] EXCEPT !.todo = @ \ {d}]]
        BY <3>1
      <4> QED
        BY <4>1, Zenon
    <3> QED
      BY <2>2, <3>1 DEF ReadDownstream
  <2> QED
    BY <2>1, <2>2 DEF ReportStep, AdvanceDownstream
<1> QED
  BY <1>1 DEF Only, CatalogInv

(* The steps without a goroutine of the model.                             *)
Quietly == \/ WarmDueTasks \/ UNCHANGED vars
           \/ \E t \in Tasks : FallsDue(t)
           \/ \E i \in 1 .. MaxRuns : ReportFailed(i) \/ RetryDispatch(i) \/ ToolRetry(i)

Mover == \/ LoopStep /\ Only("loop")
         \/ \E a \in Api : (ApiStep(a) \/ \E t \in Tasks : Request(a, t)) /\ Only(a)
         \/ \E r \in Reporters :
               (ReportStep(r) \/ \E i \in 1 .. MaxRuns : ReportSuccess(r, i)) /\ Only(r)
         \/ Quietly /\ thr' = thr
         \/ Restart

(* Every step, and the engine stays off.                                   *)
LEMMA StepMover ==
  ASSUME "engine" \notin Features, CatalogInv, EngineOff, [Next]_vars
  PROVE  Mover /\ EngineOff'
<1>1. /\ "engine" \in Threads /\ "engine" \notin Api /\ "engine" \notin Reporters
      /\ \A i \in 1 .. MaxRuns : i \in Nat
  BY CatalogParameters DEF Threads
<1>2. ~EngineStep /\ ~Warm /\ ~\E e \in Armed : Fire(e)
  BY DEF EngineStep, OnTrigger, CreateInstance, DispatchInstance, DeferTask, AdvanceTask, At,
     Warm, Fire, EngineOff
<1>3. ASSUME Quietly PROVE UNCHANGED <<thr, wheel>>
  BY <1>3, Zenon
     DEF Quietly, WarmDueTasks, vars, FallsDue, ReportFailed, RetryDispatch, ToolRetry
<1>4. Mover
  BY <1>1, <1>2, <1>3, LoopAlone, ApiAlone, ReportAlone DEF Mover, Quietly, Next
<1> SUFFICES EngineOff'
  BY <1>4
<1>5. CASE Restart
  BY <1>1, <1>5 DEF Restart, EngineOff, Idle
<1>6. ASSUME NEW p \in Threads, p # "engine", Only(p), wheel' = wheel PROVE EngineOff'
  BY <1>1, <1>6 DEF Only, EngineOff
<1>7. CASE LoopStep /\ Only("loop")
  <2>1. wheel' = wheel
    BY <1>7, Zenon DEF LoopStep, Scan, HandleTask, CheckDependencies, CreateInstance,
       DispatchInstance, DeferTask, AdvanceTask
  <2> QED
    BY <1>6, <1>7, <2>1 DEF Threads
<1>8. ASSUME NEW a \in Api, ApiStep(a) \/ \E t \in Tasks : Request(a, t), Only(a)
      PROVE  EngineOff'
  <2>1. wheel' = wheel
    BY <1>8, ApiFrame, Zenon DEF Request
  <2> QED
    BY <1>1, <1>6, <1>8, <2>1, Zenon DEF Threads
<1>9. ASSUME NEW r \in Reporters, ReportStep(r) \/ \E i \in 1 .. MaxRuns : ReportSuccess(r, i),
             Only(r)
      PROVE  EngineOff'
  <2>1. wheel' = wheel
    BY <1>9, Zenon DEF ReportStep, ReadDownstream, AdvanceDownstream, ReportSuccess
  <2> QED
    BY <1>1, <1>6, <1>9, <2>1, Zenon DEF Threads
<1>10. CASE Quietly
  BY <1>3, <1>10 DEF EngineOff
<1> QED
  BY <1>4, <1>5, <1>7, <1>8, <1>9, <1>10 DEF Mover

(* The engine is off at the start.                                         *)
LEMMA InitOff == Init => EngineOff
BY DEF Init, EngineOff, Idle, Threads

--------------------------------------------------------------------------------
(* One run per trigger.                                                    *)

(* UPDATE ... WHERE id.                                                    *)
LEMMA Updated ==
  ASSUME CatalogInv, NEW t \in Tasks, NEW copy, UpdateTask(t, copy)
  PROVE  \A u \in Tasks : \/ task'[u] = task[u] /\ (u # t \/ u \notin Present)
                          \/ task'[u] = copy /\ u = t /\ t \in Present
BY DEF CatalogInv, UpdateTask

(* More may be owed.                                                       *)
LEMMA OwedMore ==
  ASSUME TableInv, NEW t \in Tasks, NEW b \in BOOLEAN, owed' = [owed EXCEPT ![t] = @ \/ b]
  PROVE  /\ \A u \in Tasks : owed[u] => owed'[u]
         /\ b => owed'[t]
BY DEF TableInv

(* A step beside the loop that makes no task due without a run being owed. *)
LEMMA TriggerKept ==
  ASSUME CatalogInv, TriggerInv, thr'["loop"] = thr["loop"], due' = due,
         \A u \in Tasks : owed[u] => owed'[u],
         \A u \in Tasks : isDue(u)' => isDue(u) \/ owed'[u]
  PROVE  TriggerInv'
<1>1. InBatch' = InBatch /\ InBatch \subseteq Tasks
  BY DEF InBatch
<1>2. thr["loop"].pc # "idle" => thr["loop"].t \in Tasks
  BY AtWork DEF Threads
<1> QED
  BY <1>1, <1>2 DEF TriggerInv

(* The statements of the requests.                                         *)
LEMMA ApiTrigger ==
  ASSUME Ops \cap Rewriting = {}, CatalogInv, TableInv, TriggerInv, PlacesInv,
         NEW a \in Api, ApiStep(a), thr'["loop"] = thr["loop"]
  PROVE  TriggerInv'
<1>1. a \in Threads /\ thr[a].pc # "update"
  BY DEF Threads, PlacesInv
<1>2. thr[a].t \in Tasks /\ due' = due
  BY <1>1, AtWork, ApiFrame
<1>3. PICK t \in Tasks : t = thr[a].t
  BY <1>2
<1>4. CASE WriteTask(a)
  <2>1. \A u \in Tasks : \/ task'[u] = task[u] /\ (u # t \/ u \notin Present)
                         \/ task'[u] = thr[a].copy /\ u = t /\ t \in Present
    BY <1>3, <1>4, Updated, Zenon DEF WriteTask
  <2>2. PICK b \in BOOLEAN : b = (t \in Present /\ At(a, "trigger"))
    BY Zenon
  <2>3. owed' = [owed EXCEPT ![t] = @ \/ b]
    BY <1>3, <1>4, <2>2, Zenon DEF WriteTask
  <2>4. (\A u \in Tasks : owed[u] => owed'[u]) /\ (b => owed'[t])
    BY <2>3, OwedMore, Zenon
  <2>5. thr[a].pc = "trigger" \/ thr[a].copy.status = "disabled"
    BY <1>1, <1>4 DEF WriteTask, PlacesInv
  <2>6. \A u \in Tasks : isDue(u)' => isDue(u) \/ owed'[u]
    BY <2>1, <2>2, <2>4, <2>5, Zenon DEF isDue, At
  <2> QED
    BY <1>2, <2>4, <2>6, TriggerKept
<1>5. CASE InsertTask(a)
  <2>1. \A u \in Tasks : task'[u] = IF u = t THEN thr[a].copy ELSE task[u]
    BY <1>3, <1>5 DEF InsertTask, CatalogInv
  <2>2. thr[a].copy.next # "due" /\ owed' = owed
    BY <1>5, Zenon DEF InsertTask, PlacesInv
  <2> QED
    BY <1>2, <2>1, <2>2, TriggerKept DEF isDue
<1>6. CASE EraseTask(a)
  <2>1. PICK r : r = [task[t] EXCEPT !.status = "deleted", !.next = "null"]
    OBVIOUS
  <2>2. r.status = "deleted"
    BY <2>1 DEF CatalogInv, Rows
  <2>3. \A u \in Tasks : task'[u] = IF u = t THEN r ELSE task[u]
    BY <1>3, <1>6, <2>1, Zenon DEF EraseTask, CatalogInv
  <2>4. owed' = owed
    BY <1>6 DEF EraseTask
  <2> QED
    BY <1>2, <2>2, <2>3, <2>4, TriggerKept DEF isDue
<1>7. CASE SyncDependencies(a)
  BY <1>2, <1>7, TriggerKept, Zenon DEF SyncDependencies, isDue
<1>8. CASE ApiFails(a)
  BY <1>2, <1>8, TriggerKept, Zenon DEF ApiFails, isDue
<1> QED
  BY <1>4, <1>5, <1>6, <1>7, <1>8 DEF ApiStep

(* The reports of success.                                                 *)
LEMMA ReportTrigger ==
  ASSUME "db" \notin Features, CatalogInv, TableInv, TriggerInv,
         NEW r \in Reporters, ReportStep(r) \/ \E i \in 1 .. MaxRuns : ReportSuccess(r, i),
         thr'["loop"] = thr["loop"]
  PROVE  TriggerInv'
<1>1. due' = due
  BY Zenon DEF ReportStep, ReadDownstream, AdvanceDownstream, ReportSuccess
<1>2. CASE AdvanceDownstream(r)
  <2>1. PICK t \in Tasks : t = thr[r].t
    BY <1>2, AtWork DEF AdvanceDownstream, At, Threads
  <2>2. UpdateTask(t, thr[r].copy) /\ owed' = [owed EXCEPT ![t] = @ \/ t \in Present]
    BY <1>2, <2>1 DEF AdvanceDownstream, Fails
  <2>3. \A u \in Tasks : \/ task'[u] = task[u] /\ (u # t \/ u \notin Present)
                         \/ task'[u] = thr[r].copy /\ u = t /\ t \in Present
    BY <2>2, Updated
  <2>4. PICK b \in BOOLEAN : b = (t \in Present)
    <3>1. (t \in Present) \in BOOLEAN
      OBVIOUS
    <3> QED
      BY <3>1, Zenon
  <2>5. (\A u \in Tasks : owed[u] => owed'[u]) /\ (b => owed'[t])
    <3>1. owed' = [owed EXCEPT ![t] = @ \/ b]
      BY <2>2, <2>4, Zenon
    <3> QED
      BY <3>1, OwedMore, Zenon
  <2>6. \A u \in Tasks : isDue(u)' => isDue(u) \/ owed'[u]
    BY <2>3, <2>4, <2>5, Zenon DEF isDue
  <2> QED
    BY <1>1, <2>5, <2>6, TriggerKept
<1>3. CASE (\E d \in Tasks : ReadDownstream(r, d)) \/ \E i \in 1 .. MaxRuns : ReportSuccess(r, i)
  <2>1. UNCHANGED <<task, owed>>
    BY <1>3, Zenon DEF ReadDownstream, ReportSuccess
  <2> QED
    BY <1>1, <2>1, TriggerKept DEF isDue
<1> QED
  BY <1>2, <1>3, Zenon DEF ReportStep

(* Time, the cache and the other reports.                                  *)
LEMMA QuietTrigger ==
  ASSUME CatalogInv, TableInv, TriggerInv, Quietly, thr' = thr
  PROVE  TriggerInv'
<1>1. due' = due
  BY Zenon DEF Quietly, WarmDueTasks, vars, FallsDue, ReportFailed, RetryDispatch, ToolRetry
<1>2. ASSUME NEW t \in Tasks, FallsDue(t) PROVE TriggerInv'
  <2>1. /\ \A u \in Tasks \ {t} : task'[u] = task[u]
        /\ owed'[t] /\ \A u \in Tasks \ {t} : owed'[u] = owed[u]
    BY <1>2 DEF FallsDue, CatalogInv, TableInv
  <2> QED
    BY <1>1, <2>1, TriggerKept DEF isDue
<1>3. CASE UNCHANGED <<task, owed>>
  BY <1>1, <1>3, TriggerKept DEF isDue
<1> QED
  BY <1>2, <1>3, Zenon DEF Quietly, WarmDueTasks, vars, ReportFailed, RetryDispatch, ToolRetry

(* The copies that requests without Rewriting read.                        *)
LEMMA RequestPlaces ==
  ASSUME Ops \cap Rewriting = {}, CatalogInv, NEW a \in Api, NEW t \in Tasks, Request(a, t)
  PROVE  /\ thr'[a].pc \in {"write", "trigger", "insert", "delete"}
         /\ thr'[a].pc = "write" => thr'[a].copy.status = "disabled"
         /\ thr'[a].pc = "insert" => thr'[a].copy.next # "due"
<1>1. task[t] \in Rows /\ a \in Threads
  BY DEF CatalogInv, Threads
<1>2. ASSUME NEW pc, NEW copy, NEW want, Begin(a, t, pc, copy, want)
      PROVE  thr'[a].pc = pc /\ thr'[a].copy = copy
  BY <1>1, <1>2 DEF Begin, CatalogInv
<1>3. CASE PauseTask(a, t)
  <2>1. [task[t] EXCEPT !.status = "disabled"].status = "disabled"
    BY <1>1 DEF Rows
  <2>2. thr'[a].pc = "write" /\ thr'[a].copy = [task[t] EXCEPT !.status = "disabled"]
    BY <1>2, <1>3 DEF PauseTask
  <2> QED
    BY <2>1, <2>2
<1>4. CASE TriggerTask(a, t) \/ DeleteTask(a, t)
  BY <1>2, <1>4 DEF TriggerTask, DeleteTask
<1>5. CASE CreateTask(a, t)
  <2>1. PICK status \in {"enabled", "disabled"}, next \in {"null", "later"} :
           Begin(a, t, "insert", [status |-> status, next |-> next], Upstream[t])
    <3>1. PICK status \in {"enabled", "disabled"},
               next \in IF t \in Cron THEN {"later"} ELSE {"null", "later"} :
             Begin(a, t, "insert", [status |-> status, next |-> next], Upstream[t])
      BY <1>5, Zenon DEF CreateTask
    <3>2. next \in {"null", "later"}
      BY <3>1
    <3> QED
      BY <3>1, <3>2, Zenon
  <2>2. thr'[a].pc = "insert" /\ thr'[a].copy = [status |-> status, next |-> next]
    BY <1>2, <2>1
  <2> QED
    BY <2>2
<1>6. ~(\/ ResumeTask(a, t) \/ ReplaceTask(a, t) \/ ToolPause(a, t) \/ ToolTrigger(a, t)
        \/ ToolCreate(a, t) \/ ToolDelete(a, t))
  BY DEF ResumeTask, ReplaceTask, ToolPause, ToolTrigger, ToolCreate, ToolDelete, ReadRow,
     Rewriting
<1> QED
  BY <1>3, <1>4, <1>5, <1>6, Zenon DEF Request

(* Goroutines stay in their places.                                        *)
LEMMA StepPlaces ==
  ASSUME Ops \cap Rewriting = {}, "crash" \notin Features, CatalogInv, PlacesInv, Mover
  PROVE  PlacesInv'
<1>1. /\ "loop" \in Threads /\ "loop" \notin Api \cup Reporters
      /\ Api \subseteq Threads /\ Reporters \subseteq Threads /\ Api \cap Reporters = {}
  BY CatalogParameters DEF Threads
<1>2. CASE LoopStep /\ Only("loop")
  <2>1. thr'["loop"].pc \in {"idle", "deps", "defer", "create", "dispatch", "next"}
    <3>1. CASE Scan
      BY <3>1 DEF Scan, PlacesInv
    <3>2. CASE HandleTask
      BY <1>1, <3>2 DEF HandleTask, CatalogInv, Idle
    <3>3. CASE CreateInstance("loop")
      <4>1. Len(inst) + 1 \in Nat
        BY DEF CatalogInv
      <4>2. \/ Stop("loop")
            \/ thr' = [thr EXCEPT !["loop"].pc = "dispatch", !["loop"].id = Len(inst) + 1]
        BY <3>3, Zenon DEF CreateInstance
      <4>3. thr'["loop"] = Idle \/ thr'["loop"].pc = "dispatch"
        BY <1>1, <4>1, <4>2, StopMoves, HoldMoves, Zenon
      <4> QED
        BY <4>3 DEF Idle
    <3>4. CASE CheckDependencies \/ DispatchInstance("loop") \/ DeferTask("loop") \/ AdvanceTask("loop")
      <4>1. Stop("loop") \/ \E pc \in {"create", "defer", "next"} : Goto("loop", pc)
        BY <3>4 DEF CheckDependencies, DispatchInstance, DeferTask, AdvanceTask
      <4> QED
        BY <1>1, <4>1, StopMoves, GoMoves DEF Idle
    <3> QED
      BY <1>2, <3>1, <3>2, <3>3, <3>4 DEF LoopStep
  <2> QED
    BY <1>1, <1>2, <2>1 DEF PlacesInv, Only
<1>3. ASSUME NEW a \in Api, ApiStep(a) \/ \E t \in Tasks : Request(a, t), Only(a)
      PROVE  PlacesInv'
  <2>1. /\ thr'[a].pc \in {"idle", "write", "trigger", "insert", "delete", "sync"}
        /\ thr'[a].pc = "write" => thr'[a].copy.status = "disabled"
        /\ thr'[a].pc = "insert" => thr'[a].copy.next # "due"
    <3>1. CASE ApiStep(a)
      <4>1. Stop(a) \/ Goto(a, "sync")
        BY <3>1, ApiFrame
      <4> QED
        BY <1>1, <4>1, StopMoves, GoMoves DEF Idle
    <3> QED
      BY <1>3, <3>1, RequestPlaces
  <2> QED
    BY <1>1, <1>3, <2>1 DEF PlacesInv, Only
<1>4. ASSUME NEW r \in Reporters, ReportStep(r) \/ \E i \in 1 .. MaxRuns : ReportSuccess(r, i),
             Only(r)
      PROVE  PlacesInv'
  <2>1. thr[r] \in ThreadStates
    BY <1>1 DEF CatalogInv
  <2>2. ASSUME NEW x, thr' = [thr EXCEPT ![r].todo = x] PROVE thr'[r].pc = thr[r].pc
    BY <1>1, <2>1, <2>2 DEF CatalogInv, ThreadStates
  <2>3. thr'[r].pc \in {"idle", "advance"}
    <3>1. ASSUME NEW i, ReportSuccess(r, i) PROVE thr'[r].pc = "idle"
      BY <2>2, <3>1 DEF ReportSuccess, At
    <3>2. ASSUME NEW d, ReadDownstream(r, d) PROVE thr'[r].pc \in {"idle", "advance"}
      <4>1. CASE thr' = [thr EXCEPT ![r].todo = @ \ {d}]
        <5>1. thr' = [thr EXCEPT ![r].todo = thr[r].todo \ {d}]
          BY <4>1
        <5> QED
          BY <2>2, <3>2, <5>1 DEF ReadDownstream, At
      <4>2. CASE \E c, x : thr' = [thr EXCEPT ![r] = [Idle EXCEPT !.pc = "advance", !.t = d,
                                                              !.copy = c, !.todo = x]]
        BY <1>1, <4>2 DEF CatalogInv, Idle
      <4> QED
        BY <3>2, <4>1, <4>2, Zenon DEF ReadDownstream
    <3>3. CASE AdvanceDownstream(r)
      BY <1>1, <3>3 DEF AdvanceDownstream, CatalogInv, Idle
    <3> QED
      BY <1>4, <3>1, <3>2, <3>3 DEF ReportStep
  <2> QED
    BY <1>1, <1>4, <2>3 DEF PlacesInv, Only
<1>5. CASE Quietly /\ thr' = thr
  BY <1>5 DEF PlacesInv
<1>6. ~Restart
  BY DEF Restart
<1> QED
  BY <1>2, <1>3, <1>4, <1>5, <1>6 DEF Mover

(* The trigger loop itself.                                                *)
LEMMA LoopTrigger ==
  ASSUME "db" \notin Features, CatalogInv, TableInv, TriggerInv, LoopStep
  PROVE  TriggerInv'
<1>m. "loop" \in Threads
  BY DEF Threads
<1>i. InBatch \subseteq Tasks
  BY DEF InBatch
<1>1. CASE Scan
  <2>1. At("loop", "idle") /\ InBatch = {} /\ UNCHANGED <<task, thr, owed>>
    BY <1>1 DEF Scan
  <2>2. \A t \in ListDueTasks : owed[t]
    BY <2>1 DEF ListDueTasks, TriggerInv, At
  <2>3. \E batch \in SUBSET ListDueTasks :
           due' = due \/ due' = [t \in Tasks |-> IF t \in batch THEN task[t] ELSE Absent]
    BY <1>1, Zenon DEF Scan
  <2>4. InBatch' \subseteq ListDueTasks
    BY <2>1, <2>3 DEF InBatch
  <2> QED
    BY <2>1, <2>2, <2>4 DEF TriggerInv, At, isDue
<1>2. CASE HandleTask
  <2>1. PICK t \in InBatch :
           /\ thr' = [thr EXCEPT !["loop"] = [Idle EXCEPT !.pc = "deps", !.t = t,
                                                         !.copy = due[t]]]
           /\ due' = [due EXCEPT ![t] = Absent]
    BY <1>2, Zenon DEF HandleTask
  <2>2. thr'["loop"].pc = "deps" /\ thr'["loop"].t = t
    BY <1>m, <2>1 DEF CatalogInv, Idle
  <2>3. InBatch' = InBatch \ {t}
    BY <1>i, <2>1 DEF InBatch, CatalogInv
  <2>4. thr["loop"].pc = "idle" /\ UNCHANGED <<task, owed>>
    BY <1>2 DEF HandleTask, At
  <2>5. owed[t] /\ \A u \in Tasks : isDue(u) => owed[u]
    BY <2>4 DEF TriggerInv
  <2> QED
    BY <2>2, <2>3, <2>4, <2>5 DEF TriggerInv, isDue
<1>3. CASE CheckDependencies
  <2>1. PICK pc \in {"create", "defer"} : Goto("loop", pc)
    BY <1>3 DEF CheckDependencies, Fails
  <2>2. thr'["loop"].pc = pc /\ thr'["loop"].t = thr["loop"].t
    BY <1>m, <2>1, GoMoves
  <2>3. thr["loop"].pc = "deps" /\ UNCHANGED <<task, due, owed>>
    BY <1>3 DEF CheckDependencies, At
  <2>4. InBatch' = InBatch
    BY <2>3 DEF InBatch
  <2> QED
    BY <2>2, <2>3, <2>4 DEF TriggerInv, isDue
<1>4. CASE CreateInstance("loop")
  <2>1. thr["loop"].pc = "create" /\ UNCHANGED <<task, due>>
    BY <1>4 DEF CreateInstance, At
  <2>2. PICK t \in Tasks : t = thr["loop"].t
    BY <1>m, <2>1, AtWork
  <2>3. InBatch' = InBatch /\ t \notin InBatch
    BY <2>1, <2>2 DEF InBatch, TriggerInv
  <2>4. \A u \in Tasks : isDue(u) => owed[u]
    BY <2>1 DEF TriggerInv
  <2>5. CASE Stop("loop") /\ owed' = owed
    <3>1. thr'["loop"].pc = "idle"
      BY <1>m, <2>5, StopMoves DEF Idle
    <3> QED
      BY <2>1, <2>3, <2>4, <2>5, <3>1 DEF TriggerInv, isDue
  <2>6. CASE /\ thr' = [thr EXCEPT !["loop"].pc = "dispatch", !["loop"].id = Len(inst) + 1]
             /\ owed' = [owed EXCEPT ![thr["loop"].t] = FALSE]
    <3>1. Len(inst) + 1 \in Nat
      BY DEF CatalogInv
    <3>2. thr'["loop"].pc = "dispatch" /\ thr'["loop"].t = t
      BY <1>m, <2>2, <2>6, <3>1, HoldMoves, Zenon
    <3>3. \A u \in Tasks \ {t} : owed'[u] = owed[u]
      BY <2>2, <2>6, Zenon DEF TableInv
    <3>4. \A u \in InBatch' : owed'[u]
      BY <1>i, <2>3, <3>3 DEF TriggerInv
    <3>5. \A u \in Tasks : isDue(u)' => owed'[u] \/ u = t
      BY <2>1, <2>4, <3>3 DEF isDue
    <3> QED
      BY <2>3, <3>2, <3>4, <3>5, Zenon DEF TriggerInv
  <2> QED
    BY <1>4, <2>5, <2>6 DEF CreateInstance
<1>5. CASE DispatchInstance("loop")
  <2>1. PICK pc \in {"next", "defer"} : Goto("loop", pc)
    BY <1>5 DEF DispatchInstance, Fails
  <2>2. thr'["loop"].pc = pc /\ thr'["loop"].t = thr["loop"].t
    BY <1>m, <2>1, GoMoves
  <2>3. thr["loop"].pc = "dispatch" /\ UNCHANGED <<task, due, owed>>
    BY <1>5 DEF DispatchInstance, At
  <2>4. InBatch' = InBatch
    BY <2>3 DEF InBatch
  <2> QED
    BY <2>2, <2>3, <2>4, Zenon DEF TriggerInv, isDue
<1>6. CASE DeferTask("loop") \/ AdvanceTask("loop")
  <2>1. thr["loop"].pc \in {"defer", "next"} /\ UNCHANGED <<due, owed>> /\ Stop("loop")
    BY <1>6 DEF DeferTask, AdvanceTask, At
  <2>2. PICK t \in Tasks : t = thr["loop"].t
    BY <1>m, <2>1, AtWork
  <2>3. PICK x \in {"later", "never"} : UpdateTask(t, [thr["loop"].copy EXCEPT !.next = x])
    BY <1>6, <2>2 DEF DeferTask, AdvanceTask, AfterRun, Fails
  <2>4. [thr["loop"].copy EXCEPT !.next = x].next = x
    BY <1>m, AtWork DEF Rows
  <2>5. \A u \in Tasks : isDue(u)' => u # t /\ isDue(u)
    <3>1. \A u \in Tasks : \/ task'[u] = task[u] /\ (u # t \/ u \notin Present)
                           \/ task'[u] = [thr["loop"].copy EXCEPT !.next = x] /\ u = t
      BY <2>3, Updated
    <3>2. \A u \in Tasks : u \notin Present => task[u].status # "enabled"
      BY DEF Present
    <3> QED
      BY <2>4, <3>1, <3>2, Zenon DEF isDue
  <2>6. thr'["loop"].pc = "idle"
    BY <1>m, <2>1, StopMoves DEF Idle
  <2>7. InBatch' = InBatch
    BY <2>1 DEF InBatch
  <2> QED
    BY <2>1, <2>2, <2>5, <2>6, <2>7 DEF TriggerInv
<1> QED
  BY <1>1, <1>2, <1>3, <1>4, <1>5, <1>6 DEF LoopStep

(* First runs are added one at a time, by whoever creates them.            *)
LEMMA RunsOnly ==
  ASSUME CatalogInv, CatalogInv', Moves, NEW t \in Tasks, Runs(t)' > Runs(t)
  PROVE  \E p \in Runners : At(p, "create") /\ thr[p].t = t
<1> SUFFICES ASSUME ~\E p \in Runners : At(p, "create") /\ thr[p].t = t
             PROVE  FALSE
  OBVIOUS
<1>0. Len(inst) \in Nat /\ Len(inst') \in Nat
  BY DEF CatalogInv
<1>1. DOMAIN inst = 1 .. Len(inst) /\ DOMAIN inst' = 1 .. Len(inst')
  BY DEF CatalogInv
<1>2. \A k \in 1 .. Len(inst) : inst'[k].task = inst[k].task /\ inst'[k].of = inst[k].of
  BY DEF Moves, Carries
<1>3. CASE Len(inst') = Len(inst)
  <2>1. {k \in DOMAIN inst : inst[k].task = t /\ inst[k].of = 0}
        = {k \in DOMAIN inst' : inst'[k].task = t /\ inst'[k].of = 0}
    BY <1>0, <1>1, <1>2, <1>3
  <2>2. Runs(t)' = Runs(t)
    BY <2>1, Zenon DEF Runs
  <2>3. Runs(t) \in Nat
    <3>1. IsFiniteSet(1 .. Len(inst))
      BY <1>0, FS_Interval
    <3>2. IsFiniteSet({k \in DOMAIN inst : inst[k].task = t /\ inst[k].of = 0})
      BY <1>1, <3>1, FS_Subset
    <3> QED
      BY <3>2, FS_CardinalityType DEF Runs
  <2> QED
    BY <2>2, <2>3
<1>4. CASE Len(inst') = Len(inst) + 1
  <2>1. ~(inst'[Len(inst')].task = t /\ inst'[Len(inst')].of = 0)
    <3>1. CASE Opened(inst'[Len(inst')])
      BY <3>1 DEF Opened, CreateInstance
    <3>2. CASE Repeated(inst'[Len(inst')])
      BY <3>2 DEF Repeated
    <3>3. Opened(inst'[Len(inst')]) \/ Repeated(inst'[Len(inst')])
      <4>1. Len(inst') # Len(inst)
        BY <1>0, <1>4
      <4> QED
        BY <4>1 DEF Moves
    <3> QED
      BY <3>1, <3>2, <3>3
  <2>2. {k \in DOMAIN inst : inst[k].task = t /\ inst[k].of = 0}
        = {k \in DOMAIN inst' : inst'[k].task = t /\ inst'[k].of = 0}
    BY <1>0, <1>1, <1>2, <1>4, <2>1
  <2>3. Runs(t)' = Runs(t)
    BY <2>2, Zenon DEF Runs
  <2>4. Runs(t) \in Nat
    <3>1. IsFiniteSet(1 .. Len(inst))
      BY <1>0, FS_Interval
    <3>2. IsFiniteSet({k \in DOMAIN inst : inst[k].task = t /\ inst[k].of = 0})
      BY <1>1, <3>1, FS_Subset
    <3> QED
      BY <3>2, FS_CardinalityType DEF Runs
  <2> QED
    BY <2>3, <2>4
<1> QED
  BY <1>3, <1>4 DEF Moves

(* handleTask, for any number of tasks, requests and reports: a task is run  *)
(* once for each time it falls due, is triggered or is advanced, as long as  *)
(* the engine is off, the scheduler and the database stay up and no request  *)
(* writes back a trigger time it read before the run.                      *)
THEOREM RunsOnce ==
  ASSUME Features \cap {"engine", "db", "crash"} = {}, Ops \cap Rewriting = {}
  PROVE  Spec => OneRunPerTrigger
<1> DEFINE Inv == CatalogInv /\ TableInv /\ EngineOff /\ TriggerInv /\ PlacesInv
           Due == \A t \in Tasks : Runs(t)' > Runs(t) => owed[t]
<1>1. Init => Inv
  <2> SUFFICES ASSUME Init PROVE TriggerInv /\ PlacesInv
    BY InitCatalog, InitTable, InitOff
  <2>1. \A p \in Threads : thr[p].pc = "idle"
    BY DEF Init, Idle
  <2>2. "loop" \in Threads /\ Api \subseteq Threads /\ Reporters \subseteq Threads
    BY DEF Threads
  <2>3. InBatch = {} /\ \A t \in Tasks : ~isDue(t)
    BY DEF Init, InBatch, isDue, Absent
  <2> QED
    BY <2>1, <2>2, <2>3 DEF TriggerInv, PlacesInv
<1>2. ASSUME Inv, [Next]_vars PROVE Inv'
  <2>1. Mover /\ EngineOff'
    BY <1>2, StepMover
  <2>2. CatalogInv' /\ TableInv'
    BY <1>2, StepKeeps, StepTable DEF Kept
  <2>3. PlacesInv'
    BY <1>2, <2>1, StepPlaces
  <2>4. "loop" \in Threads /\ "loop" \notin Api \cup Reporters
    BY CatalogParameters DEF Threads
  <2>5. TriggerInv'
    <3>1. CASE LoopStep
      BY <1>2, <3>1, LoopTrigger
    <3>2. ASSUME NEW a \in Api, ApiStep(a) \/ \E t \in Tasks : Request(a, t), Only(a)
          PROVE  TriggerInv'
      <4>1. thr'["loop"] = thr["loop"]
        BY <2>4, <3>2 DEF Only
      <4>2. CASE ApiStep(a)
        BY <1>2, <4>1, <4>2, ApiTrigger
      <4>3. CASE \E t \in Tasks : Request(a, t)
        BY <1>2, <4>1, <4>3, TriggerKept, Zenon DEF Request, isDue
      <4> QED
        BY <3>2, <4>2, <4>3
    <3>3. ASSUME NEW r \in Reporters, ReportStep(r) \/ \E i \in 1 .. MaxRuns : ReportSuccess(r, i),
                 Only(r)
          PROVE  TriggerInv'
      <4>1. thr'["loop"] = thr["loop"]
        BY <2>4, <3>3 DEF Only
      <4> QED
        BY <1>2, <3>3, <4>1, ReportTrigger
    <3>4. CASE Quietly /\ thr' = thr
      BY <1>2, <3>4, QuietTrigger
    <3>5. ~Restart
      BY DEF Restart
    <3> QED
      BY <2>1, <3>1, <3>2, <3>3, <3>4, <3>5 DEF Mover
  <2> QED
    BY <2>1, <2>2, <2>3, <2>5
<1>3. ASSUME Inv, [Next]_vars PROVE Due
  <2> SUFFICES ASSUME NEW t \in Tasks, Runs(t)' > Runs(t) PROVE owed[t]
    OBVIOUS
  <2>1. PICK p \in Runners : At(p, "create") /\ thr[p].t = t
    BY <1>3, StepKeeps, StepMoves, RunsOnly DEF Kept
  <2>2. p = "loop"
    BY <1>3, <2>1 DEF At, Runners, EngineOff
  <2> QED
    BY <1>3, <2>1, <2>2 DEF TriggerInv, At
<1>4. Inv /\ [Next]_vars => Inv' /\ [Due]_vars
  BY <1>2, <1>3
<1> HIDE DEF Inv
<1>5. Spec => [][Due]_vars
  BY <1>1, <1>4, PTL DEF Spec
<1> QED
  BY <1>5 DEF OneRunPerTrigger

--------------------------------------------------------------------------------
(* Backpressure.                                                           *)

Pending == {i \in DOMAIN inst : inst[i].status = "pending"}

(* Without the agent's tools a step adds at most the row that it creates.   *)
LEMMA PendingGrows ==
  ASSUME "tools" \notin Ops, CatalogInv, CatalogInv', Moves
  PROVE  /\ CountPending \in Nat /\ CountPending' \in Nat
         /\ CountPending' <= CountPending + 1
         /\ (\A p \in Runners : ~CreateInstance(p)) => CountPending' <= CountPending
<1>0. Len(inst) \in Nat /\ Len(inst') \in Nat
  BY DEF CatalogInv
<1>1. DOMAIN inst = 1 .. Len(inst) /\ DOMAIN inst' = 1 .. Len(inst')
  BY DEF CatalogInv
<1>2. IsFiniteSet(Pending) /\ IsFiniteSet(Pending')
  <2>1. IsFiniteSet(1 .. Len(inst)) /\ IsFiniteSet(1 .. Len(inst'))
    BY <1>0, FS_Interval
  <2>2. Pending \subseteq 1 .. Len(inst) /\ Pending' \subseteq 1 .. Len(inst')
    BY <1>1 DEF Pending
  <2> QED
    BY <2>1, <2>2, FS_Subset, Zenon
<1>3. /\ CountPending = Cardinality(Pending) /\ CountPending' = Cardinality(Pending')
      /\ Cardinality(Pending) \in Nat /\ Cardinality(Pending') \in Nat
  BY <1>2, FS_CardinalityType DEF CountPending, Pending
<1>4. \A k \in 1 .. Len(inst) : inst'[k].status = "pending" => inst[k].status = "pending"
  BY Zenon DEF Moves, Carries
<1>5. 1 .. Len(inst') \subseteq (1 .. Len(inst)) \cup {Len(inst')}
  <2>1. Len(inst') = Len(inst) \/ Len(inst') = Len(inst) + 1
    BY DEF Moves
  <2> QED
    BY <1>0, <2>1
<1>6. Pending' \subseteq Pending \cup {Len(inst')}
  BY <1>1, <1>4, <1>5 DEF Pending
<1>7. Cardinality(Pending') <= Cardinality(Pending) + 1
  <2>1. /\ IsFiniteSet(Pending \cup {Len(inst')})
        /\ Cardinality(Pending \cup {Len(inst')})
              = IF Len(inst') \in Pending THEN Cardinality(Pending) ELSE Cardinality(Pending) + 1
    BY <1>2, FS_AddElement, Zenon
  <2>2. Cardinality(Pending') <= Cardinality(Pending \cup {Len(inst')})
    BY <1>6, <2>1, FS_Subset
  <2> QED
    BY <1>3, <2>1, <2>2
<1>8. ASSUME \A p \in Runners : ~CreateInstance(p)
      PROVE  Cardinality(Pending') <= Cardinality(Pending)
  <2>1. ~Opened(inst'[Len(inst')])
    BY <1>8 DEF Opened
  <2>2. Repeated(inst'[Len(inst')]) => inst'[Len(inst')].status # "pending"
    BY DEF Repeated
  <2>3. Len(inst') = Len(inst) \/ inst'[Len(inst')].status # "pending"
    BY <2>1, <2>2 DEF Moves
  <2>4. Pending' \subseteq Pending
    BY <1>1, <1>4, <1>5, <2>3, Zenon DEF Pending
  <2> QED
    BY <1>2, <2>4, FS_Subset
<1> QED
  BY <1>3, <1>7, <1>8

(* What the loop may yet create.                                           *)
LEMMA BatchFinite ==
  ASSUME CatalogInv
  PROVE  /\ IsFiniteSet(InBatch) /\ Cardinality(InBatch) \in Nat
         /\ Cardinality(InBatch) <= Cardinality(Tasks) /\ Cardinality(Tasks) \in Nat
<1>1. InBatch \subseteq Tasks /\ IsFiniteSet(Tasks)
  BY CatalogParameters DEF InBatch
<1> QED
  BY <1>1, FS_Subset, FS_CardinalityType

(* The loop turns rows to come into pending rows.                          *)
LEMMA LoopLoad ==
  ASSUME "tools" \notin Ops, CatalogInv, CatalogInv', Moves, EngineOff, LoadInv, LoopStep
  PROVE  LoadInv'
<1>m. "loop" \in Threads
  BY DEF Threads
<1>e. ~CreateInstance("engine")
  BY DEF CreateInstance, EngineOff, At
<1>f. /\ CountPending \in Nat /\ CountPending' \in Nat /\ CountPending' <= CountPending + 1
      /\ ~CreateInstance("loop") => CountPending' <= CountPending
  BY <1>e, PendingGrows DEF Runners
<1>b. /\ IsFiniteSet(InBatch) /\ Cardinality(InBatch) \in Nat
      /\ Cardinality(Tasks) \in Nat /\ RedLine \in Nat
  BY BatchFinite, CatalogParameters
<1>1. CASE Scan
  <2>1. UNCHANGED <<inst, thr>> /\ thr["loop"].pc = "idle"
    BY <1>1 DEF Scan, At
  <2>2. CountPending' = CountPending /\ Coming' = Coming /\ Coming = 0
    BY <2>1 DEF CountPending, Coming
  <2>3. CASE due' = due
    BY <2>2, <2>3 DEF LoadInv, InBatch
  <2>4. CASE due' # due
    <3>1. ~(CountPending >= RedLine)
      BY <1>1, <2>4, Zenon DEF Scan, UpdatePending, AllowDispatch
    <3>2. Cardinality(InBatch') <= Cardinality(Tasks) /\ Cardinality(InBatch') \in Nat
      <4>1. InBatch' \subseteq Tasks /\ IsFiniteSet(Tasks)
        BY CatalogParameters DEF InBatch
      <4> QED
        BY <4>1, FS_Subset, FS_CardinalityType
    <3> QED
      BY <1>b, <1>f, <2>2, <3>1, <3>2 DEF LoadInv
  <2> QED
    BY <2>3, <2>4
<1>2. CASE HandleTask
  <2>1. PICK t \in InBatch :
           /\ thr' = [thr EXCEPT !["loop"] = [Idle EXCEPT !.pc = "deps", !.t = t,
                                                         !.copy = due[t]]]
           /\ due' = [due EXCEPT ![t] = Absent]
    BY <1>2, Zenon DEF HandleTask
  <2>2. InBatch' = InBatch \ {t}
    BY <2>1 DEF InBatch, CatalogInv
  <2>3. Cardinality(InBatch') = Cardinality(InBatch) - 1
    BY <1>b, <2>2, FS_RemoveElement
  <2>4. inst' = inst /\ thr["loop"].pc = "idle" /\ thr'["loop"].pc = "deps"
    BY <1>2, <1>m, <2>1 DEF HandleTask, At, CatalogInv, Idle
  <2>5. CountPending' = CountPending /\ Coming = 0 /\ Coming' = 1
    BY <2>4 DEF CountPending, Coming
  <2> QED
    BY <1>b, <1>f, <2>3, <2>5 DEF LoadInv
<1>3. CASE CheckDependencies
  <2>1. UNCHANGED <<inst, due>> /\ thr["loop"].pc = "deps"
    BY <1>3 DEF CheckDependencies, At
  <2>2. CountPending' = CountPending /\ InBatch' = InBatch /\ Coming = 1 /\ Coming' \in {0, 1}
    BY <2>1 DEF CountPending, InBatch, Coming
  <2> QED
    BY <1>b, <1>f, <2>2 DEF LoadInv
<1>4. CASE CreateInstance("loop")
  <2>1. thr["loop"].pc = "create" /\ due' = due
    BY <1>4 DEF CreateInstance, At
  <2>2. thr'["loop"].pc \in {"dispatch", "idle"}
    <3>1. PICK n \in Nat : n = Len(inst) + 1
      BY DEF CatalogInv
    <3>2. Stop("loop") \/ thr' = [thr EXCEPT !["loop"].pc = "dispatch", !["loop"].id = n]
      BY <1>4, <3>1 DEF CreateInstance
    <3>3. CASE Stop("loop")
      BY <1>m, <3>3, StopMoves DEF Idle
    <3>4. CASE thr' = [thr EXCEPT !["loop"].pc = "dispatch", !["loop"].id = n]
      BY <1>m, <3>1, <3>4, HoldMoves, Zenon
    <3> QED
      BY <3>2, <3>3, <3>4
  <2>3. InBatch' = InBatch /\ Coming = 1 /\ Coming' = 0
    BY <2>1, <2>2 DEF InBatch, Coming
  <2> QED
    BY <1>b, <1>f, <2>3 DEF LoadInv
<1>5. CASE DispatchInstance("loop") \/ DeferTask("loop") \/ AdvanceTask("loop")
  <2>1. due' = due /\ ~CreateInstance("loop")
    BY <1>5 DEF DispatchInstance, DeferTask, AdvanceTask, CreateInstance, At
  <2>2. Stop("loop") \/ \E pc \in {"next", "defer"} : Goto("loop", pc)
    BY <1>5 DEF DispatchInstance, DeferTask, AdvanceTask
  <2>3. thr'["loop"].pc \in {"next", "defer", "idle"}
    BY <1>m, <2>2, StopMoves, GoMoves DEF Idle
  <2>4. InBatch' = InBatch /\ Coming \in {0, 1} /\ Coming' = 0
    BY <2>1, <2>3 DEF InBatch, Coming
  <2> QED
    BY <1>b, <1>f, <2>1, <2>4 DEF LoadInv
<1> QED
  BY <1>1, <1>2, <1>3, <1>4, <1>5 DEF LoopStep

(* Loop.scan and BackpressureController, for any number of tasks, requests   *)
(* and reports and under every fault: while the engine is off and no agent's  *)
(* tool adds pending rows, the backlog stays below the red line but for one  *)
(* row of each task.                                                       *)
THEOREM BacklogBounded ==
  ASSUME "engine" \notin Features, "tools" \notin Ops
  PROVE  Spec => []PendingBounded
<1> DEFINE Inv == CatalogInv /\ EngineOff /\ LoadInv
<1>1. Init => Inv
  <2> SUFFICES ASSUME Init PROVE LoadInv
    BY InitCatalog, InitOff
  <2>1. InBatch = {} /\ Coming = 0
    BY DEF Init, InBatch, Coming, Idle, Threads
  <2>2. {i \in DOMAIN inst : inst[i].status = "pending"} = {}
    BY DEF Init
  <2>3. CountPending = 0 /\ Cardinality(InBatch) = 0
    BY <2>1, <2>2, FS_EmptySet DEF CountPending
  <2>4. Cardinality(Tasks) \in Nat /\ RedLine \in Nat \ {0}
    BY CatalogParameters, FS_CardinalityType
  <2> QED
    BY <2>1, <2>3, <2>4 DEF LoadInv
<1>2. ASSUME Inv, [Next]_vars PROVE Inv'
  <2>1. Mover /\ EngineOff'
    BY <1>2, StepMover
  <2>2. CatalogInv' /\ Moves
    BY <1>2, StepKeeps, StepMoves DEF Kept
  <2>3. CASE LoopStep
    BY <1>2, <2>1, <2>2, <2>3, LoopLoad
  <2>4. CASE ~LoopStep
    <3>1. \A p \in Runners : ~CreateInstance(p)
      BY <1>2, <2>4 DEF Runners, LoopStep, CreateInstance, EngineOff, At
    <3>2. CountPending \in Nat /\ CountPending' \in Nat /\ CountPending' <= CountPending
      BY <1>2, <2>2, <3>1, PendingGrows
    <3>3. /\ Cardinality(InBatch) \in Nat /\ Cardinality(Tasks) \in Nat /\ RedLine \in Nat
          /\ Coming \in {0, 1}
      BY <1>2, BatchFinite, CatalogParameters DEF Coming
    <3>4. CASE thr'["loop"] = thr["loop"] /\ due' = due
      <4>1. InBatch' = InBatch /\ Coming' = Coming
        BY <3>4 DEF InBatch, Coming
      <4> QED
        BY <1>2, <2>1, <2>2, <3>2, <3>3, <4>1 DEF LoadInv
    <3>5. CASE Restart
      <4>1. InBatch' = {} /\ Coming' = 0
        BY <3>5, CatalogParameters DEF Restart, InBatch, Coming, Threads, Idle
      <4>2. Cardinality(InBatch') = 0
        BY <4>1, FS_EmptySet
      <4> QED
        BY <1>2, <2>1, <2>2, <3>2, <3>3, <4>1, <4>2 DEF LoadInv
    <3>6. "loop" \in Threads /\ "loop" \notin Api \cup Reporters
      BY CatalogParameters DEF Threads
    <3>7. ASSUME NEW a \in Api, ApiStep(a) \/ \E t \in Tasks : Request(a, t), Only(a)
          PROVE  thr'["loop"] = thr["loop"] /\ due' = due
      BY <3>6, <3>7, ApiFrame DEF Only, Request
    <3>8. ASSUME NEW r \in Reporters, ReportStep(r) \/ \E i \in 1 .. MaxRuns : ReportSuccess(r, i),
                 Only(r)
          PROVE  thr'["loop"] = thr["loop"] /\ due' = due
      BY <3>6, <3>8, Zenon
         DEF Only, ReportStep, ReadDownstream, AdvanceDownstream, ReportSuccess
    <3>9. ASSUME Quietly, thr' = thr PROVE due' = due
      BY <3>9, Zenon
         DEF Quietly, WarmDueTasks, vars, FallsDue, ReportFailed, RetryDispatch, ToolRetry
    <3> QED
      BY <2>1, <2>4, <3>4, <3>5, <3>7, <3>8, <3>9 DEF Mover
  <2> QED
    BY <2>3, <2>4
<1>3. Inv => PendingBounded
  <2> SUFFICES ASSUME Inv PROVE PendingBounded
    OBVIOUS
  <2>1. /\ Cardinality(InBatch) \in Nat /\ Cardinality(Tasks) \in Nat /\ RedLine \in Nat
        /\ Coming \in {0, 1} /\ CountPending \in Nat
    <3>1. IsFiniteSet(1 .. Len(inst)) /\ DOMAIN inst = 1 .. Len(inst)
      BY FS_Interval DEF CatalogInv
    <3>2. IsFiniteSet({i \in DOMAIN inst : inst[i].status = "pending"})
      BY <3>1, FS_Subset
    <3>3. CountPending \in Nat
      BY <3>2, FS_CardinalityType DEF CountPending
    <3> QED
      BY <3>3, BatchFinite, CatalogParameters DEF Coming
  <2> QED
    BY <2>1 DEF LoadInv, PendingBounded
<1>4. Inv /\ [Next]_vars => Inv'
  BY <1>2
<1> HIDE DEF Inv
<1> QED
  BY <1>1, <1>3, <1>4, PTL DEF Spec

--------------------------------------------------------------------------------
(* Dependencies.                                                           *)

(* A success is final: the loop dispatches a row that it created and nobody  *)
(* took up.                                                               *)
Final == \A k \in 1 .. Len(inst) :
            /\ inst'[k].task = inst[k].task
            /\ inst[k].status = "success" => inst'[k].status = "success"

Shrink == \A t \in Tasks : deps'[t] \subseteq deps[t]

LEMMA SuccessFinal ==
  ASSUME CatalogInv, EngineOff, GateInv, Moves
  PROVE  Final
<1> SUFFICES ASSUME NEW k \in 1 .. Len(inst)
             PROVE  /\ inst'[k].task = inst[k].task
                    /\ inst[k].status = "success" => inst'[k].status = "success"
  BY DEF Final
<1>1. Carries(k)
  BY DEF Moves
<1>2. ASSUME NEW p \in Runners, DispatchInstance(p), thr[p].id = k
      PROVE  inst[k].status = "pending"
  <2>1. p = "loop" /\ At("loop", "dispatch")
    BY <1>2 DEF Runners, DispatchInstance, At, EngineOff
  <2> QED
    BY <1>2, <2>1 DEF GateInv
<1> QED
  BY <1>1, <1>2 DEF Carries

(* Without CreateTask and UpdateTask only DeleteTask writes the edges.      *)
LEMMA EdgesShrink ==
  ASSUME TableInv, GateInv, Mover
  PROVE  Shrink
<1>1. ASSUME deps' = deps PROVE Shrink
  BY <1>1 DEF Shrink
<1>2. ASSUME NEW a \in Api, EraseTask(a) PROVE Shrink
  BY <1>2 DEF EraseTask, Shrink
<1>3. ASSUME NEW a \in Api PROVE ~SyncDependencies(a)
  BY <1>3 DEF SyncDependencies, At, GateInv
<1>4. CASE LoopStep
  BY <1>1, <1>4, Zenon DEF LoopStep, Scan, HandleTask, CheckDependencies, CreateInstance,
     DispatchInstance, DeferTask, AdvanceTask
<1>5. ASSUME NEW a \in Api, ApiStep(a) \/ \E t \in Tasks : Request(a, t) PROVE Shrink
  BY <1>1, <1>2, <1>3, <1>5, Zenon DEF ApiStep, ApiFails, WriteTask, InsertTask, Request
<1>6. ASSUME NEW r \in Reporters, ReportStep(r) \/ \E i \in 1 .. MaxRuns : ReportSuccess(r, i)
      PROVE  Shrink
  BY <1>1, <1>6, Zenon DEF ReportStep, ReadDownstream, AdvanceDownstream, ReportSuccess
<1>7. CASE Quietly \/ Restart
  BY <1>1, <1>7, Zenon
     DEF Quietly, WarmDueTasks, vars, FallsDue, ReportFailed, RetryDispatch, ToolRetry,
     Restart
<1> QED
  BY <1>4, <1>5, <1>6, <1>7 DEF Mover

(* The rows of the table stay behind the gate, the new one too.            *)
LEMMA GateStays ==
  ASSUME CatalogInv, CatalogInv', EngineOff, GateInv, Moves, Final, Shrink
  PROVE  DependencyGate'
<1>0. Len(inst) \in Nat /\ Len(inst') \in Nat
  BY DEF CatalogInv
<1>1. /\ DOMAIN inst = 1 .. Len(inst) /\ DOMAIN inst' = 1 .. Len(inst')
      /\ \A k \in 1 .. Len(inst) : inst[k].task \in Tasks
  <2>1. \A k \in 1 .. Len(inst) : inst[k] \in Instances
    BY DEF CatalogInv
  <2> QED
    BY <2>1 DEF CatalogInv, Instances
<1>2. ASSUME NEW k \in 1 .. Len(inst), NEW d \in deps[inst[k].task]
      PROVE  \E j \in 1 .. k - 1 : inst'[j].task = d /\ inst'[j].status = "success"
  <2>1. PICK j \in 1 .. k - 1 : inst[j].task = d /\ inst[j].status = "success"
    <3>1. k \in DOMAIN inst /\ DependencyGate
      BY <1>1 DEF GateInv
    <3> QED
      BY <1>2, <3>1, Zenon DEF DependencyGate
  <2>2. j \in 1 .. Len(inst)
    BY <1>0
  <2> QED
    BY <2>1, <2>2 DEF Final
<1>3. ASSUME NEW k \in 1 .. Len(inst), NEW d \in deps'[inst'[k].task]
      PROVE  \E j \in 1 .. k - 1 : inst'[j].task = d /\ inst'[j].status = "success"
  <2>1. d \in deps[inst[k].task]
    BY <1>1, <1>3 DEF Final, Shrink
  <2> QED
    BY <1>2, <2>1
<1>4. ASSUME Len(inst') = Len(inst) + 1, NEW d \in deps'[inst'[Len(inst')].task]
      PROVE  \E j \in 1 .. Len(inst) : inst'[j].task = d /\ inst'[j].status = "success"
  <2>1. Opened(inst'[Len(inst')]) \/ Repeated(inst'[Len(inst')])
    <3>1. Len(inst') # Len(inst)
      BY <1>0, <1>4
    <3> QED
      BY <3>1 DEF Moves
  <2>2. CASE Opened(inst'[Len(inst')])
    <3>1. At("loop", "create") /\ thr["loop"].t = inst'[Len(inst')].task
      BY <2>2 DEF Opened, Runners, CreateInstance, At, EngineOff
    <3>2. thr["loop"].t \in Tasks
      BY <3>1, AtWork DEF At, Threads
    <3>3. d \in deps[thr["loop"].t]
      BY <1>4, <3>1, <3>2 DEF Shrink
    <3>4. Succeeded(d)
      BY <3>1, <3>3 DEF GateInv
    <3> QED
      BY <3>4 DEF Succeeded, Final
  <2>3. CASE Repeated(inst'[Len(inst')])
    <3>1. PICK k \in 1 .. Len(inst) : inst'[Len(inst')].task = inst[k].task
      BY <2>3 DEF Repeated
    <3>2. d \in deps[inst[k].task]
      BY <1>1, <1>4, <3>1 DEF Shrink
    <3>3. PICK j \in 1 .. k - 1 : inst'[j].task = d /\ inst'[j].status = "success"
      BY <1>2, <3>2
    <3>4. j \in 1 .. Len(inst)
      BY <1>0
    <3> QED
      BY <3>3, <3>4
  <2> QED
    BY <2>1, <2>2, <2>3
<1>5. ASSUME NEW i \in 1 .. Len(inst'), NEW d \in deps'[inst'[i].task]
      PROVE  \E j \in 1 .. i - 1 : inst'[j].task = d /\ inst'[j].status = "success"
  <2>1. CASE i \in 1 .. Len(inst)
    BY <1>3, <1>5, <2>1
  <2>2. CASE i \notin 1 .. Len(inst)
    <3>1. Len(inst') = Len(inst) \/ Len(inst') = Len(inst) + 1
      BY DEF Moves
    <3>2. Len(inst') = Len(inst) + 1 /\ i = Len(inst') /\ i - 1 = Len(inst)
      BY <1>0, <2>2, <3>1
    <3> QED
      BY <1>4, <1>5, <3>2
  <2> QED
    BY <2>1, <2>2
<1> QED
  BY <1>1, <1>5, Zenon DEF DependencyGate

(* No request brings a new edge.                                           *)
LEMMA GatePlaces ==
  ASSUME Ops \cap {"create", "update"} = {}, CatalogInv, GateInv, Mover
  PROVE  \A a \in Api : thr'[a].pc \notin {"insert", "update", "sync"}
<1> SUFFICES ASSUME NEW a \in Api PROVE thr'[a].pc \notin {"insert", "update", "sync"}
  OBVIOUS
<1>1. a \in Threads /\ a # "loop" /\ a \notin Reporters /\ thr[a].pc \notin {"insert", "update", "sync"}
  BY CatalogParameters DEF Threads, GateInv
<1>2. ASSUME NEW t \in Tasks, Request(a, t)
      PROVE  thr'[a].pc \notin {"insert", "update", "sync"}
  <2>1. PICK pc \in {"write", "trigger", "delete", "tool_insert"} :
           \E copy, want : Begin(a, t, pc, copy, want)
    BY <1>2
       DEF Request, PauseTask, ResumeTask, TriggerTask, ReplaceTask, CreateTask, DeleteTask,
       ToolPause, ToolTrigger, ToolCreate, ToolDelete, ReadRow
  <2> QED
    BY <1>1, <2>1 DEF Begin, CatalogInv
<1>3. ASSUME ApiStep(a) PROVE thr'[a].pc \notin {"insert", "update", "sync"}
  <2>1. Stop(a)
    BY <1>1, <1>3, ApiFrame
  <2> QED
    BY <1>1, <2>1, StopMoves DEF Idle
<1>4. ASSUME thr'[a] = thr[a] PROVE thr'[a].pc \notin {"insert", "update", "sync"}
  BY <1>1, <1>4
<1>5. CASE Restart
  BY <1>1, <1>4, <1>5 DEF Restart
<1>6. \A p \in Threads : p # a /\ Only(p) => thr'[a] = thr[a]
  BY <1>1 DEF Only
<1>7. "loop" \in Threads /\ Api \subseteq Threads /\ Reporters \subseteq Threads
  BY DEF Threads
<1> QED
  BY <1>1, <1>2, <1>3, <1>4, <1>5, <1>6, <1>7 DEF Mover

(* The loop creates an instance only behind the gate, and dispatches it.    *)
LEMMA LoopGate ==
  ASSUME CatalogInv, LoopStep
  PROVE  /\ At("loop", "create")' => \A d \in deps'[thr'["loop"].t] : Succeeded(d)'
         /\ At("loop", "dispatch")' /\ thr'["loop"].id \in 1 .. Len(inst') =>
               inst'[thr'["loop"].id].status = "pending"
<1>m. "loop" \in Threads
  BY DEF Threads
<1> SUFFICES \/ thr'["loop"].pc \notin {"create", "dispatch"}
             \/ /\ thr'["loop"].pc = "create"
                /\ \A d \in deps'[thr'["loop"].t] : Succeeded(d)'
             \/ /\ thr'["loop"].pc = "dispatch"
                /\ inst'[thr'["loop"].id].status = "pending"
  BY DEF At
<1>1. CASE Scan
  BY <1>1 DEF Scan, At
<1>2. CASE HandleTask
  BY <1>2, <1>m DEF HandleTask, CatalogInv, Idle
<1>3. CASE CheckDependencies
  <2>1. UNCHANGED <<inst, deps>>
    BY <1>3 DEF CheckDependencies
  <2>2. CASE Stop("loop")
    BY <1>m, <2>2, StopMoves DEF Idle
  <2>3. CASE Goto("loop", IF allSatisfied(thr["loop"].t) THEN "create" ELSE "defer")
    <3>1. CASE ~allSatisfied(thr["loop"].t)
      <4>1. Goto("loop", "defer")
        BY <2>3, <3>1, Zenon
      <4> QED
        BY <1>m, <4>1, GoMoves
    <3>2. CASE allSatisfied(thr["loop"].t)
      <4>0. Goto("loop", "create")
        BY <2>3, <3>2, Zenon
      <4>1. thr'["loop"].pc = "create" /\ thr'["loop"].t = thr["loop"].t
        BY <1>m, <4>0, GoMoves
      <4>2. DOMAIN inst = 1 .. Len(inst)
        BY DEF CatalogInv
      <4>3. \A d \in deps[thr["loop"].t] : Succeeded(d)
        BY <3>2, <4>2, Zenon DEF allSatisfied, Successes, Succeeded
      <4>4. \A d : Succeeded(d) => Succeeded(d)'
        BY <2>1 DEF Succeeded
      <4> QED
        BY <2>1, <4>1, <4>3, <4>4, Zenon
    <3> QED
      BY <3>1, <3>2, Zenon
  <2> QED
    BY <1>3, <2>2, <2>3 DEF CheckDependencies
<1>4. CASE CreateInstance("loop")
  <2>1. CASE Stop("loop")
    BY <1>m, <2>1, StopMoves DEF Idle
  <2>2. CASE /\ inst' = Append(inst, FirstRun(thr["loop"].t))
             /\ thr' = [thr EXCEPT !["loop"].pc = "dispatch", !["loop"].id = Len(inst) + 1]
    <3>1. PICK n \in Nat : n = Len(inst) + 1
      BY DEF CatalogInv
    <3>2. thr'["loop"].pc = "dispatch" /\ thr'["loop"].id = n
      BY <1>m, <2>2, <3>1, HoldMoves, Zenon
    <3>3. inst'[n] = FirstRun(thr["loop"].t)
      BY <2>2, <3>1 DEF CatalogInv
    <3> QED
      BY <3>2, <3>3 DEF FirstRun
  <2> QED
    BY <1>4, <2>1, <2>2 DEF CreateInstance
<1>5. CASE DispatchInstance("loop") \/ DeferTask("loop") \/ AdvanceTask("loop")
  <2>1. Stop("loop") \/ \E pc \in {"next", "defer"} : Goto("loop", pc)
    BY <1>5 DEF DispatchInstance, DeferTask, AdvanceTask
  <2> QED
    BY <1>m, <2>1, StopMoves, GoMoves DEF Idle
<1> QED
  BY <1>1, <1>2, <1>3, <1>4, <1>5, Zenon DEF LoopStep

(* Nobody else touches what the loop has in hand.                          *)
LEMMA OtherGate ==
  ASSUME CatalogInv, TableInv, EngineOff, GateInv, Moves, Final, Shrink, ~LoopStep,
         thr'["loop"] = thr["loop"]
  PROVE  /\ At("loop", "create")' => \A d \in deps'[thr'["loop"].t] : Succeeded(d)'
         /\ At("loop", "dispatch")' /\ thr'["loop"].id \in 1 .. Len(inst') =>
               inst'[thr'["loop"].id].status = "pending"
<1>0. Len(inst) \in Nat /\ Len(inst) <= Len(inst')
  BY DEF CatalogInv, Moves
<1>m. "loop" \in Threads
  BY DEF Threads
<1>1. ASSUME NEW d, Succeeded(d) PROVE Succeeded(d)'
  <2>1. PICK j \in 1 .. Len(inst) : inst[j].task = d /\ inst[j].status = "success"
    BY <1>1 DEF Succeeded
  <2>2. inst'[j].task = d /\ inst'[j].status = "success"
    BY <2>1 DEF Final
  <2>3. j \in 1 .. Len(inst')
    <3>1. Len(inst') = Len(inst) \/ Len(inst') = Len(inst) + 1
      BY DEF Moves
    <3> QED
      BY <1>0, <3>1
  <2> QED
    BY <2>2, <2>3 DEF Succeeded
<1>2. ASSUME thr["loop"].pc = "create"
      PROVE  \A d \in deps'[thr["loop"].t] : Succeeded(d)'
  <2>1. thr["loop"].t \in Tasks
    BY <1>2, <1>m, AtWork DEF At
  <2>2. \A d \in deps[thr["loop"].t] : Succeeded(d)
    BY <1>2 DEF GateInv, At
  <2> QED
    BY <1>1, <2>1, <2>2 DEF Shrink
<1>3. ASSUME thr["loop"].pc = "dispatch", thr["loop"].id \in 1 .. Len(inst')
      PROVE  inst'[thr["loop"].id].status = "pending"
  <2>1. PICK k : k = thr["loop"].id
    OBVIOUS
  <2>2. k \in 1 .. Len(inst)
    BY <1>0, <1>3, <1>m, <2>1 DEF TableInv
  <2>3. inst[k].status = "pending"
    BY <1>3, <2>1, <2>2, Zenon DEF GateInv, At
  <2>4. Carries(k)
    BY <2>2 DEF Moves
  <2>5. \A p \in Runners : ~DispatchInstance(p)
    BY DEF Runners, LoopStep, DispatchInstance, EngineOff, At
  <2> QED
    BY <2>1, <2>3, <2>4, <2>5, Zenon DEF Carries
<1> QED
  BY <1>2, <1>3 DEF At

(* handleTask's gate, for any number of tasks, requests and reports and      *)
(* under every fault: while the engine, which does not look at dependencies, *)
(* is off and nobody adds an edge, a task has an instance only after each of *)
(* its upstream tasks had an earlier one that succeeded.                   *)
THEOREM GateHolds ==
  ASSUME "engine" \notin Features, Ops \cap {"create", "update"} = {}
  PROVE  Spec => []DependencyGate
<1> DEFINE Inv == CatalogInv /\ TableInv /\ EngineOff /\ GateInv
<1>1. Init => Inv
  <2> SUFFICES ASSUME Init PROVE GateInv
    BY InitCatalog, InitTable, InitOff
  <2>1. \A p \in Threads : thr[p].pc = "idle"
    BY DEF Init, Idle
  <2>2. "loop" \in Threads /\ Api \subseteq Threads
    BY DEF Threads
  <2>3. DOMAIN inst = {}
    BY DEF Init
  <2> QED
    BY <2>1, <2>2, <2>3, Zenon DEF GateInv, DependencyGate, At
<1>2. ASSUME Inv, [Next]_vars PROVE Inv'
  <2>1. Mover /\ EngineOff'
    BY <1>2, StepMover
  <2>2. CatalogInv' /\ TableInv' /\ Moves
    BY <1>2, StepKeeps, StepTable, StepMoves DEF Kept
  <2>3. Final /\ Shrink
    BY <1>2, <2>1, <2>2, SuccessFinal, EdgesShrink
  <2>4. DependencyGate' /\ \A a \in Api : thr'[a].pc \notin {"insert", "update", "sync"}
    BY <1>2, <2>1, <2>2, <2>3, GateStays, GatePlaces
  <2>5. "loop" \in Threads /\ "loop" \notin Api \cup Reporters
    BY CatalogParameters DEF Threads
  <2>6. CASE LoopStep
    BY <1>2, <2>1, <2>2, <2>3, <2>4, <2>6, LoopGate, Zenon DEF GateInv
  <2>7. CASE ~LoopStep /\ thr'["loop"] = thr["loop"]
    BY <1>2, <2>1, <2>2, <2>3, <2>4, <2>7, OtherGate, Zenon DEF GateInv
  <2>8. CASE Restart
    <3>1. thr'["loop"].pc = "idle"
      BY <2>5, <2>8 DEF Restart, Idle
    <3> QED
      BY <2>1, <2>2, <2>4, <3>1 DEF GateInv, At
  <2>9. LoopStep \/ Restart \/ thr'["loop"] = thr["loop"]
    BY <2>1, <2>5 DEF Mover, Only
  <2> QED
    BY <2>6, <2>7, <2>8, <2>9
<1>3. Inv => DependencyGate
  BY DEF GateInv
<1>4. Inv /\ [Next]_vars => Inv'
  BY <1>2
<1> HIDE DEF Inv
<1> QED
  BY <1>1, <1>3, <1>4, PTL DEF Spec

================================================================================
