------------------------------ MODULE TaskCatalog ------------------------------
(***************************************************************************)
(* The task table and everyone who writes it: the trigger loop, the engine  *)
(* callback, the task API, the tools of the chat agent and the report       *)
(* handler that advances downstream tasks. Each of them reads a whole row,  *)
(* changes its copy and writes the whole copy back; the version column is   *)
(* counted up and never compared.                                          *)
(*                                                                         *)
(* What happens to an instance after its dispatch is TaskRuntime's subject;  *)
(* here it is dispatched, refused or left pending in one step.              *)
(***************************************************************************)
EXTENDS Naturals, FiniteSets, Sequences

CONSTANTS
    Tasks,       \* task ids
    Cron,        \* the tasks with a cron expression
    NoTask,
    MaxRuns,     \* bound on task_instance rows
    RedLine,     \* pending rows from which the pressure is red
    Api,         \* slots for concurrent task API requests and tool calls
    Ops,         \* what these requests ask for, a subset of AllOps
    Reporters,   \* slots for concurrent reports of success
    Upstream,    \* Upstream[t]: depends_on in the requests about t
    Features     \* a subset of AllFeatures

AllOps == {"create", "pause", "resume", "trigger", "update", "delete",
           "tools"}     \* the tools of the chat agent

AllFeatures ==
    {"engine",          \* the timing engine runs beside the trigger loop
     "cache",           \* Redis is configured
     "no_worker",       \* Pick finds no worker
     "dispatch_error",  \* Dispatch fails
     "retry",           \* a failed run is retried
     "db",              \* a database statement fails
     "crash"}           \* the scheduler restarts

ASSUME CatalogParameters ==
    /\ NoTask \notin Tasks /\ Cron \subseteq Tasks /\ IsFiniteSet(Tasks)
    /\ MaxRuns \in Nat /\ RedLine \in Nat \ {0}
    /\ Ops \subseteq AllOps /\ Features \subseteq AllFeatures
    /\ Upstream \in [Tasks -> SUBSET Tasks]
    /\ Api \cap Reporters = {} /\ {"loop", "engine"} \cap (Api \cup Reporters) = {}

VARIABLES
    task,    \* task table
    deps,    \* task_dependency table
    inst,    \* task_instance table in order of created_at
    red,     \* BackpressureController.state = PressureRed
    due,     \* the trigger loop's snapshot: copies of due rows still to be handled
    wheel,   \* task ids armed in the timing wheel and in the retry heap
    cached,  \* task ids in Redis' sorted set
    thr,     \* trigger loop, engine, API and report goroutines
    owed     \* history: t fell due or was asked for since its last instance

vars == <<task, deps, inst, red, due, wheel, cached, thr, owed>>

--------------------------------------------------------------------------------
(* Rows and copies. next_trigger_time matters only as past (due), as a time  *)
(* that will pass (later), as a year away (never) or as NULL.               *)

Rows == [status : {"absent", "enabled", "disabled", "deleted"},
         next : {"null", "due", "later", "never"}]

Absent == [status |-> "absent", next |-> "null"]

(* of: the position of the instance that is retried, 0 for a first run.     *)
Instances == [task : Tasks, of : Nat,
              status : {"pending", "retry_waiting", "dispatched", "failed", "success"}]

FirstRun(t) == [task |-> t, of |-> 0, status |-> "pending"]

(* A task may be armed in the slot of the time it fell due, in that of the   *)
(* time the engine computed after a run, and in the heap for a retry.       *)
Armed == Tasks \X {"due", "next", "retry"}

Threads == {"loop", "engine"} \cup Api \cup Reporters

Idle == [pc |-> "idle", t |-> NoTask, copy |-> Absent, id |-> 0, todo |-> {}]

PCs == {"idle", "deps", "defer", "create", "dispatch", "next",
        "fire", "write", "trigger", "update", "insert", "tool_insert", "delete", "sync", "advance"}

At(p, pc) == thr[p].pc = pc

Present == {t \in Tasks : task[t].status \in {"enabled", "disabled"}}

Goto(p, pc) == thr' = [thr EXCEPT ![p].pc = pc]

Stop(p) == thr' = [thr EXCEPT ![p] = Idle]

Fails == "db" \in Features

isDue(t) == task[t].status = "enabled" /\ task[t].next = "due"

(* ListDueTasks. Batches of 100 and 500 rows hold every task of the model.  *)
ListDueTasks == {t \in Tasks : isDue(t)}

(* UPDATE ... WHERE id: every column from the copy; no row, no effect.      *)
UpdateTask(t, copy) ==
    task' = [task EXCEPT ![t] = IF t \in Present THEN copy ELSE @]

CountPending == Cardinality({i \in DOMAIN inst : inst[i].status = "pending"})

(* Yellow and green both let tasks through, yellow after a pause.           *)
UpdatePending(count) == red' = (count >= RedLine)

AllowDispatch(isRed) == ~isRed

(* nextTriggerTime, cronexpr.NextAfter                                     *)
AfterRun(t) == IF t \in Cron THEN "later" ELSE "never"

(* The catalogue starts empty when tasks are created in the run, and        *)
(* otherwise with every task created and waiting for its first trigger.     *)
Init == /\ task = [t \in Tasks |->
                     IF "create" \in Ops THEN Absent
                     ELSE [status |-> "enabled", next |-> "later"]]
        /\ deps = IF "create" \in Ops THEN [t \in Tasks |-> {}] ELSE Upstream
        /\ inst = << >>
        /\ red = FALSE
        /\ due = [t \in Tasks |-> Absent]
        /\ wheel = {} /\ cached = {}
        /\ thr = [p \in Threads |-> Idle]
        /\ owed = [t \in Tasks |-> FALSE]

(* A trigger time passes.                                                  *)
FallsDue(t) ==
    /\ t \in Present /\ task[t].next = "later"
    /\ task' = [task EXCEPT ![t].next = "due"]
    /\ owed' = [owed EXCEPT ![t] = TRUE]
    /\ UNCHANGED <<deps, inst, red, due, wheel, cached, thr>>

--------------------------------------------------------------------------------
(* handleTask and OnTrigger share these steps; p is "loop" or "engine". An   *)
(* INSERT fails when the database does, and at the bound on rows.           *)

CreateInstanceCounted(p) ==
    /\ At(p, "create") /\ Len(inst) < MaxRuns
    /\ inst' = Append(inst, FirstRun(thr[p].t))
    /\ thr' = [thr EXCEPT ![p].pc = "dispatch", ![p].id = Len(inst) + 2]
    /\ owed' = [owed EXCEPT ![thr[p].t] = FALSE]
    /\ UNCHANGED <<task, deps, red, due, wheel, cached>>

CreateInstance(p) ==
    /\ At(p, "create")
    /\ \/ /\ Len(inst) < MaxRuns
          /\ inst' = Append(inst, FirstRun(thr[p].t))
          /\ thr' = [thr EXCEPT ![p].pc = "dispatch", ![p].id = Len(inst) + 1]
          /\ owed' = [owed EXCEPT ![thr[p].t] = FALSE]
       \/ /\ Fails \/ Len(inst) = MaxRuns
          /\ Stop(p)
          /\ UNCHANGED <<inst, owed>>
    /\ UNCHANGED <<task, deps, red, due, wheel, cached>>

DispatchInstanceReturns(p) ==
    /\ At(p, "dispatch")
    /\ \/ /\ inst' = [inst EXCEPT ![thr[p].id].status = "dispatched"]
          /\ Goto(p, "next")
       \/ /\ inst' = [inst EXCEPT ![thr[p].id].status = "failed"]
          /\ Stop(p)
    /\ UNCHANGED <<task, deps, red, due, wheel, cached, owed>>

(* Pick, UpdateInstanceDispatch and Dispatch. With no worker the instance    *)
(* stays pending; after a failed dispatch the loop goes on to the next       *)
(* trigger time and the engine returns.                                     *)
DispatchInstance(p) ==
    /\ At(p, "dispatch")
    /\ \/ /\ inst' = [inst EXCEPT ![thr[p].id].status = "dispatched"]
          /\ Goto(p, "next")
       \/ /\ "no_worker" \in Features
          /\ Goto(p, "defer")
          /\ UNCHANGED inst
       \/ /\ "dispatch_error" \in Features
          /\ inst' = [inst EXCEPT ![thr[p].id].status = "failed"]
          /\ IF p = "loop" THEN Goto(p, "next") ELSE Stop(p)
       \/ /\ Fails
          /\ Stop(p)
          /\ UNCHANGED inst
    /\ UNCHANGED <<task, deps, red, due, wheel, cached, owed>>

(* The trigger time is pushed back, by five or ten seconds.                 *)
DeferTask(p) ==
    /\ At(p, "defer")
    /\ \/ UpdateTask(thr[p].t, [thr[p].copy EXCEPT !.next = "later"])
       \/ Fails /\ UNCHANGED task
    /\ Stop(p)
    /\ UNCHANGED <<deps, inst, red, due, wheel, cached, owed>>

(* The next trigger time after a run. The engine leaves a task without a     *)
(* cron expression alone, and arms the wheel again for the others.          *)
AdvanceTask(p) ==
    /\ At(p, "next")
    /\ IF p = "engine" /\ thr[p].t \notin Cron
       THEN UNCHANGED <<task, wheel>>
       ELSE /\ \/ UpdateTask(thr[p].t, [thr[p].copy EXCEPT !.next = AfterRun(thr[p].t)])
               \/ Fails /\ UNCHANGED task
            /\ wheel' = IF p = "engine" THEN wheel \cup {<<thr[p].t, "next">>} ELSE wheel
    /\ Stop(p)
    /\ UNCHANGED <<deps, inst, red, due, cached, owed>>

--------------------------------------------------------------------------------
(* Trigger loop *)

InBatch == {t \in Tasks : due[t] # Absent}

ScanUnchecked ==
    /\ At("loop", "idle") /\ InBatch = {}
    /\ UpdatePending(CountPending)
    /\ due' = [t \in Tasks |-> IF t \in ListDueTasks THEN task[t] ELSE Absent]
    /\ UNCHANGED <<task, deps, inst, wheel, cached, thr, owed>>

(* Loop.scan up to the loop over the tasks. Red rejects the scan; a throttled *)
(* scan only starts later. The cache proposes ids, the rows decide; the whole *)
(* table is asked only when that leaves nothing.                            *)
Scan ==
    /\ At("loop", "idle") /\ InBatch = {}
    /\ UpdatePending(CountPending)
    /\ LET fromCache == cached \cap ListDueTasks
           batch == IF fromCache # {} THEN fromCache ELSE ListDueTasks
       IN  IF ~AllowDispatch(red') \/ batch = {}
           THEN UNCHANGED due
           ELSE due' = [t \in Tasks |-> IF t \in batch THEN task[t] ELSE Absent]
    /\ UNCHANGED <<task, deps, inst, wheel, cached, thr, owed>>

(* One turn of the loop over the snapshot. Only Scan sets the   *)
(* pressure, so that the test for it in this loop never fires.              *)
HandleTask ==
    /\ At("loop", "idle")
    /\ \E t \in InBatch :
         /\ thr' = [thr EXCEPT !["loop"] = [Idle EXCEPT !.pc = "deps", !.t = t,
                                                       !.copy = due[t]]]
         /\ due' = [due EXCEPT ![t] = Absent]
    /\ UNCHANGED <<task, deps, inst, red, wheel, cached, owed>>

Successes == {i \in DOMAIN inst : inst[i].status = "success"}

allSatisfiedAnyStatus(t) ==
    \A d \in deps[t] : \E i \in DOMAIN inst : inst[i].task = d

allSatisfiedNewest(t) ==
    \A d \in deps[t] :
        \E i \in Successes : inst[i].task = d /\ \A j \in Successes : j <= i

(* ListInstancesByStatus("success", 1) is the oldest success in the table,   *)
(* whatever its task, and every upstream task is compared with that one.    *)
allSatisfied(t) ==
    \A d \in deps[t] :
        \E i \in Successes : inst[i].task = d /\ \A j \in Successes : i <= j

CheckDependencies ==
    /\ At("loop", "deps")
    /\ \/ Goto("loop", IF allSatisfied(thr["loop"].t) THEN "create" ELSE "defer")
       \/ Fails /\ Stop("loop")
    /\ UNCHANGED <<task, deps, inst, red, due, wheel, cached, owed>>

WarmDueTasksOnce ==
    /\ "cache" \in Features /\ cached = {}
    /\ cached' = ListDueTasks
    /\ UNCHANGED <<task, deps, inst, red, due, wheel, thr, owed>>

(* Manager.warmDueTasks                                                    *)
WarmDueTasks ==
    /\ "cache" \in Features
    /\ cached' = ListDueTasks
    /\ UNCHANGED <<task, deps, inst, red, due, wheel, thr, owed>>

--------------------------------------------------------------------------------
(* Engine. A slot comes round within a minute of being armed, whatever the   *)
(* trigger time it was armed for: the wheel says only which ids will fire.  *)

Retrying == {inst[i].task : i \in {j \in DOMAIN inst : inst[j].status = "retry_waiting"}}

Warm ==
    /\ "engine" \in Features
    /\ wheel' = wheel \cup (ListDueTasks \X {"due"}) \cup (Retrying \X {"retry"})
    /\ UNCHANGED <<task, deps, inst, red, due, cached, thr, owed>>

(* Tick or PopUntil, and OnTrigger's test of the pressure.                  *)
Fire(e) ==
    /\ At("engine", "idle") /\ e \in wheel
    /\ wheel' = wheel \ {e}
    /\ thr' = IF ~AllowDispatch(red) THEN thr
              ELSE [thr EXCEPT !["engine"] = [Idle EXCEPT !.pc = "fire", !.t = e[1]]]
    /\ UNCHANGED <<task, deps, inst, red, due, cached, owed>>

OnTriggerUnchecked ==
    /\ At("engine", "fire")
    /\ thr' = [thr EXCEPT !["engine"].pc = "create",
                         !["engine"].copy = task[thr["engine"].t]]
    /\ UNCHANGED <<task, deps, inst, red, due, wheel, cached, owed>>

(* GetTask and the test of its status: neither the trigger time nor the      *)
(* dependencies are looked at.                                              *)
OnTrigger ==
    /\ At("engine", "fire")
    /\ LET t == thr["engine"].t
       IN  \/ /\ task[t].status = "enabled"
              /\ thr' = [thr EXCEPT !["engine"].pc = "create", !["engine"].copy = task[t]]
           \/ /\ task[t].status # "enabled" \/ Fails
              /\ Stop("engine")
    /\ UNCHANGED <<task, deps, inst, red, due, wheel, cached, owed>>

--------------------------------------------------------------------------------
(* Task API. A request reads the row, edits its copy and writes it.         *)

Begin(a, t, pc, copy, want) ==
    thr' = [thr EXCEPT ![a] = [pc |-> pc, t |-> t, copy |-> copy, id |-> 0, todo |-> want]]

ReadRow(a, t, op) == At(a, "idle") /\ op \in Ops /\ t \in Present

PauseTask(a, t) ==
    /\ ReadRow(a, t, "pause")
    /\ Begin(a, t, "write", [task[t] EXCEPT !.status = "disabled"], {})

ResumeTask(a, t) ==
    /\ ReadRow(a, t, "resume")
    /\ Begin(a, t, "write", [status |-> "enabled",
                             next |-> IF t \in Cron THEN "later" ELSE task[t].next], {})

TriggerTask(a, t) ==
    /\ ReadRow(a, t, "trigger")
    /\ task[t].status = "enabled"
    /\ Begin(a, t, "trigger", [task[t] EXCEPT !.next = "due"], {})

(* The request says what the status and the dependencies become, and may     *)
(* bring a trigger time of its own. Without one a cron task gets its next     *)
(* time and another task keeps the time it has.                             *)
ReplaceTask(a, t) ==
    /\ ReadRow(a, t, "update")
    /\ \E status \in {"enabled", "disabled"}, want \in {{}, Upstream[t]},
          next \in IF t \in Cron THEN {"later"} ELSE {task[t].next, "later"} :
         Begin(a, t, "update", [status |-> status, next |-> next], want)

CreateTask(a, t) ==
    /\ At(a, "idle") /\ "create" \in Ops /\ task[t].status = "absent"
    /\ \A b \in Api : thr[b].t # t
    /\ \E status \in {"enabled", "disabled"},
          next \in IF t \in Cron THEN {"later"} ELSE {"null", "later"} :
         Begin(a, t, "insert", [status |-> status, next |-> next], Upstream[t])

DeleteTask(a, t) ==
    /\ ReadRow(a, t, "delete")
    /\ Begin(a, t, "delete", Absent, {})

(* The agent's tools. pause_task pauses an enabled task or resumes a         *)
(* disabled one, whose trigger time stays; it answers the other cases at    *)
(* once.                                                                   *)
ToolPause(a, t) ==
    /\ ReadRow(a, t, "tools")
    /\ Begin(a, t, "write",
             [task[t] EXCEPT !.status = IF @ = "enabled" THEN "disabled" ELSE "enabled"], {})

(* trigger_task does not look at the status.                               *)
ToolTrigger(a, t) ==
    /\ ReadRow(a, t, "tools")
    /\ Begin(a, t, "trigger", [task[t] EXCEPT !.next = "due"], {})

(* create_task demands a cron expression and knows no dependencies.        *)
ToolCreate(a, t) ==
    /\ At(a, "idle") /\ "tools" \in Ops /\ task[t].status = "absent" /\ t \in Cron
    /\ \A b \in Api : thr[b].t # t
    /\ Begin(a, t, "tool_insert", [status |-> "enabled", next |-> "later"], {})

ToolDelete(a, t) ==
    /\ ReadRow(a, t, "tools")
    /\ Begin(a, t, "delete", Absent, {})

Request(a, t) ==
    /\ \/ PauseTask(a, t) \/ ResumeTask(a, t) \/ TriggerTask(a, t)
       \/ ReplaceTask(a, t) \/ CreateTask(a, t) \/ DeleteTask(a, t)
       \/ ToolPause(a, t) \/ ToolTrigger(a, t) \/ ToolCreate(a, t) \/ ToolDelete(a, t)
    /\ UNCHANGED <<task, deps, inst, red, due, wheel, cached, owed>>

(* The statement that ends a request, or precedes syncDependencies.         *)
WriteTask(a) ==
    /\ thr[a].pc \in {"write", "trigger", "update"}
    /\ LET t == thr[a].t
       IN  /\ UpdateTask(t, thr[a].copy)
           /\ IF t \in Present /\ At(a, "update") THEN Goto(a, "sync") ELSE Stop(a)
           /\ owed' = [owed EXCEPT ![t] = @ \/ (t \in Present /\ At(a, "trigger"))]
    /\ UNCHANGED <<deps, inst, red, due, wheel, cached>>

InsertTask(a) ==
    /\ thr[a].pc \in {"insert", "tool_insert"}
    /\ task' = [task EXCEPT ![thr[a].t] = thr[a].copy]
    /\ IF At(a, "insert") THEN Goto(a, "sync") ELSE Stop(a)
    /\ UNCHANGED <<deps, inst, red, due, wheel, cached, owed>>

(* The statement fails and the request is answered with the error.          *)
ApiFails(a) ==
    /\ Fails
    /\ thr[a].pc \in {"write", "trigger", "update", "insert", "tool_insert", "delete"}
    /\ Stop(a)
    /\ UNCHANGED <<task, deps, inst, red, due, wheel, cached, owed>>

(* The edges of a deleted task go with it (ON DELETE CASCADE).              *)
EraseTask(a) ==
    /\ At(a, "delete")
    /\ task' = [task EXCEPT ![thr[a].t].status = "deleted", ![thr[a].t].next = "null"]
    /\ deps' = [t \in Tasks |-> IF t = thr[a].t THEN {} ELSE deps[t] \ {thr[a].t}]
    /\ Stop(a)
    /\ UNCHANGED <<inst, red, due, wheel, cached, owed>>

(* syncDependencies drops the unwanted edges and then adds the missing ones. *)
(* A failed statement, or an edge to a task that does not exist, ends it     *)
(* part of the way.                                                        *)
SyncDependencies(a) ==
    /\ At(a, "sync")
    /\ LET t == thr[a].t
           want == thr[a].todo
           unwanted == deps[t] \ want
       IN  \E dropped \in SUBSET unwanted, added \in SUBSET (want \cap Present) :
              /\ ~Fails => dropped = unwanted
              /\ ~Fails /\ want \subseteq Present /\ t \in Present => added = want
              /\ t \notin Present \/ dropped # unwanted => added = {}
              /\ deps' = [deps EXCEPT ![t] = (@ \ dropped) \cup added]
    /\ Stop(a)
    /\ UNCHANGED <<task, inst, red, due, wheel, cached, owed>>

--------------------------------------------------------------------------------
(* Reports *)

(* A failed report, and the row of the retry it may create.                 *)
ReportFailed(i) ==
    /\ i \in DOMAIN inst /\ inst[i].status = "dispatched"
    /\ LET failed == [inst EXCEPT ![i].status = "failed"]
       IN  \/ inst' = failed
          \/ /\ "retry" \in Features /\ Len(inst) < MaxRuns
             /\ inst' = Append(failed, [inst[i] EXCEPT !.status = "retry_waiting", !.of = i])
    /\ UNCHANGED <<task, deps, red, due, wheel, cached, thr, owed>>

(* retry_failed_instance, once for an instance: the schedule id of a second  *)
(* row would be the same. Nobody takes a pending row.                       *)
ToolRetry(i) ==
    /\ "tools" \in Ops /\ Len(inst) < MaxRuns
    /\ i \in DOMAIN inst /\ inst[i].status = "failed" /\ inst[i].task \in Present
    /\ \A j \in DOMAIN inst : inst[j].of = i => inst[j].status # "pending"
    /\ inst' = Append(inst, [inst[i] EXCEPT !.status = "pending", !.of = i])
    /\ UNCHANGED <<task, deps, red, due, wheel, cached, thr, owed>>

(* The retry loop takes a waiting row.                                      *)
RetryDispatch(i) ==
    /\ i \in DOMAIN inst /\ inst[i].status = "retry_waiting"
    /\ inst[i].task \in Present
    /\ inst' = [inst EXCEPT ![i].status = "dispatched"]
    /\ UNCHANGED <<task, deps, red, due, wheel, cached, thr, owed>>

(* UpdateInstanceResult("success") and ListDownstreamTasks                  *)
ReportSuccess(r, i) ==
    /\ At(r, "idle") /\ thr[r].todo = {}
    /\ i \in DOMAIN inst /\ inst[i].status = "dispatched"
    /\ inst' = [inst EXCEPT ![i].status = "success"]
    /\ LET downstream == {d \in Tasks : inst[i].task \in deps[d]}
       IN  thr' = [thr EXCEPT ![r].todo = downstream]
    /\ UNCHANGED <<task, deps, red, due, wheel, cached, owed>>

(* fireDownstream, for one downstream task: the row is read ...             *)
ReadDownstream(r, d) ==
    /\ At(r, "idle") /\ d \in thr[r].todo
    /\ \/ /\ task[d].status = "enabled"
          /\ thr' = [thr EXCEPT ![r] = [Idle EXCEPT !.pc = "advance", !.t = d,
                             !.copy = [task[d] EXCEPT !.next = "due"],
                             !.todo = thr[r].todo \ {d}]]
       \/ /\ task[d].status # "enabled" \/ Fails
          /\ thr' = [thr EXCEPT ![r].todo = @ \ {d}]
    /\ UNCHANGED <<task, deps, inst, red, due, wheel, cached, owed>>

(* ... and its copy is written with the present as its trigger time.        *)
AdvanceDownstream(r) ==
    /\ At(r, "advance")
    /\ LET d == thr[r].t
       IN  \/ /\ UpdateTask(d, thr[r].copy)
              /\ owed' = [owed EXCEPT ![d] = @ \/ d \in Present]
           \/ Fails /\ UNCHANGED <<task, owed>>
    /\ thr' = [thr EXCEPT ![r] = [Idle EXCEPT !.todo = thr[r].todo]]
    /\ UNCHANGED <<deps, inst, red, due, wheel, cached>>

(* The scheduler stops and starts again: the trigger loop, the engine and    *)
(* the report handlers live in it, the task API does not.                   *)
Restart ==
    /\ "crash" \in Features
    /\ thr' = [p \in Threads |-> IF p \in Api THEN thr[p] ELSE Idle]
    /\ due' = [t \in Tasks |-> Absent]
    /\ wheel' = {} /\ red' = FALSE
    /\ UNCHANGED <<task, deps, inst, cached, owed>>

--------------------------------------------------------------------------------
LoopStep == \/ Scan \/ HandleTask \/ CheckDependencies \/ CreateInstance("loop")
            \/ DispatchInstance("loop") \/ DeferTask("loop") \/ AdvanceTask("loop")

EngineStep == \/ OnTrigger \/ CreateInstance("engine") \/ DispatchInstance("engine")
              \/ DeferTask("engine") \/ AdvanceTask("engine")

ApiStep(a) == \/ WriteTask(a) \/ InsertTask(a) \/ EraseTask(a) \/ SyncDependencies(a)
              \/ ApiFails(a)

ReportStep(r) == (\E d \in Tasks : ReadDownstream(r, d)) \/ AdvanceDownstream(r)

Next == \/ LoopStep \/ EngineStep \/ WarmDueTasks \/ Warm \/ Restart
        \/ \E t \in Tasks : FallsDue(t)
        \/ \E e \in Armed : Fire(e)
        \/ \E a \in Api : ApiStep(a) \/ \E t \in Tasks : Request(a, t)
        \/ \E i \in 1 .. MaxRuns : \/ ReportFailed(i) \/ RetryDispatch(i) \/ ToolRetry(i)
                                \/ \E r \in Reporters : ReportSuccess(r, i)
        \/ \E r \in Reporters : ReportStep(r)

Spec == Init /\ [][Next]_vars

(* Tickers drive the loop and the cache, time passes, started requests and   *)
(* reports are carried through and a dispatched run is reported. Whether it  *)
(* succeeds, whether a worker is found and who calls the API is open.       *)
FairSpec == /\ Spec
            /\ WF_vars(LoopStep) /\ WF_vars(WarmDueTasks) /\ WF_vars(EngineStep)
            /\ \A t \in Tasks : WF_vars(FallsDue(t))
            /\ \A a \in Api : WF_vars(ApiStep(a))
            /\ \A r \in Reporters : WF_vars(ReportStep(r))

--------------------------------------------------------------------------------
(* Properties *)

(* Every variable keeps its type: a goroutine of the scheduler or of the API *)
(* that has an instance in hand has created it.                             *)
TypeOK ==
    /\ task \in [Tasks -> Rows] /\ due \in [Tasks -> Rows]
    /\ deps \in [Tasks -> SUBSET Tasks] /\ owed \in [Tasks -> BOOLEAN]
    /\ inst \in Seq(Instances) /\ Len(inst) <= MaxRuns
    /\ red \in BOOLEAN /\ wheel \subseteq Armed /\ cached \subseteq Tasks
    /\ thr \in [Threads -> [pc : PCs, t : Tasks \cup {NoTask}, copy : Rows,
                            id : 0 .. MaxRuns, todo : SUBSET Tasks]]
    /\ \A p \in Threads : thr[p].id <= Len(inst)

Runs(t) == Cardinality({i \in DOMAIN inst : inst[i].task = t /\ inst[i].of = 0})

HoldsEnabled(t) ==
    \/ due[t].status = "enabled"
    \/ \E p \in Threads : thr[p].t = t /\ thr[p].copy.status = "enabled"

(* PauseTask takes effect once the goroutines that read the row before it    *)
(* are done: a disabled task of which nobody holds an enabled copy is        *)
(* neither enabled nor run, by the trigger loop, the cache, the wheel or a   *)
(* success upstream.                                                       *)
PauseHolds ==
    [][\A t \in Tasks :
          task[t].status = "disabled" /\ ~HoldsEnabled(t)
             => task'[t].status # "enabled" /\ Runs(t)' = Runs(t)]_vars

(* handleTask runs a task once for each time it falls due, is triggered or   *)
(* is advanced by an upstream success: never twice for one of them.         *)
OneRunPerTrigger ==
    [][\A t \in Tasks : Runs(t)' > Runs(t) => owed[t]]_vars

(* The gate in handleTask: a task has an instance only after each of its     *)
(* upstream tasks had an earlier instance that succeeded.                   *)
DependencyGate ==
    \A i \in DOMAIN inst : \A d \in deps[inst[i].task] :
        \E j \in 1 .. i - 1 : inst[j].task = d /\ inst[j].status = "success"

(* Backpressure: a scan that starts below the red line adds at most one      *)
(* pending instance for each task of its batch.                             *)
PendingBounded == CountPending <= RedLine - 1 + Cardinality(Tasks)

(* t waits for its next run, and there is room for another row.             *)
Waits(t) == owed[t] /\ task[t].status = "enabled" /\ Len(inst) < MaxRuns

BacklogStays == <>[](CountPending >= RedLine)

UpstreamSucceeded(t) == \A d \in deps[t] : \E i \in Successes : inst[i].task = d

(* The trigger loop: an enabled task that falls due or was advanced, and all  *)
(* of whose upstream tasks, if it has any, have succeeded, is run, unless the  *)
(* backlog of pending instances stays at the red line. Without a cron         *)
(* expression it can be overtaken: the loop ends a run by writing its whole   *)
(* copy with a year's delay, over what fireDownstream wrote meanwhile         *)
(* (AdvancedTaskRuns). The row then says so, and no other wait is endless.   *)
DueTaskRuns ==
    \A t \in Tasks :
        <>[](/\ Waits(t) /\ UpstreamSucceeded(t)
             /\ t \in Cron \/ task[t].next # "never")
        => BacklogStays

(* docs/architecture.md: "On success: downstream dependency tasks advance".  *)
(* An enabled task that fireDownstream advanced, and all of whose upstream    *)
(* tasks have succeeded, is run.                                            *)
AdvancedTaskRuns ==
    \A t \in Tasks :
        <>[](Waits(t) /\ deps[t] # {} /\ UpstreamSucceeded(t)) => BacklogStays
================================================================================
