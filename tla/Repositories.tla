------------------------------ MODULE Repositories -----------------------------
(***************************************************************************)
(* The two implementations of the repositories, called in lockstep: the      *)
(* maps that the tests run on, and the MySQL tables that production runs on.  *)
(* What a test shows carries over to production as far as they agree; causes   *)
(* collects what a history of calls has done that lets them part.            *)
(***************************************************************************)
EXTENDS Naturals, Sequences, FiniteSets

CONSTANTS
    Names,      \* task names (of one tenant)
    Scheds,     \* schedule instance ids
    TaskOf,     \* the task that a schedule id was made for
    Nodes,      \* worker ids
    MaxRows,    \* bound on rows of a table, and on ids given out
    MaxVersion, \* bound on updates of one task
    LastTime,    \* times are 0 .. LastTime; 0 is the zero time of Go
    Null        \* the NULL of a column

RepositoryParameters == LastTime \in Nat /\ Null \notin Nat

VARIABLES
    mem,     \* the maps of package teststore, with their counters
    db,      \* the tables, with the ids MySQL gives out next
    causes   \* why the two need not agree any more

repoVars == <<mem, db, causes>>

Ids == 1 .. MaxRows

Times == 0 .. LastTime

Put(f, k, v) == [x \in DOMAIN f \cup {k} |-> IF x = k THEN v ELSE f[x]]

Drop(f, k) == [x \in DOMAIN f \ {k} |-> f[x]]

Empty == [x \in {} |-> x]

ReposInit == /\ mem = [tasks |-> Empty, nextTask |-> 1, deps |-> Empty, insts |-> Empty,
                  nextInst |-> 1, bySched |-> Empty, workers |-> Empty]
        /\ db = [tasks |-> Empty, nextTask |-> 1, deps |-> {}, insts |-> Empty,
                 nextInst |-> 1, workers |-> Empty]
        /\ causes = {}

--------------------------------------------------------------------------------
(* Rows. A row has no column for the event of an event task and for the shard *)
(* of an instance.                                                          *)

TimeOrNil(t) == IF t = 0 THEN Null ELSE t

OrZero(c) == IF c = Null THEN 0 ELSE c

TaskToRow(t) == [name |-> t.name, status |-> t.status, next |-> TimeOrNil(t.next),
                 version |-> t.version]

RowToTask(r) == [name |-> r.name, status |-> r.status, next |-> OrZero(r.next),
                 event |-> FALSE, version |-> r.version]

InstanceToRow(i) == [task |-> i.task, sched |-> i.sched, status |-> i.status, worker |-> i.worker,
                     dispatch |-> TimeOrNil(i.dispatch), start |-> TimeOrNil(i.start),
                     finish |-> TimeOrNil(i.finish), retry |-> TimeOrNil(i.retry),
                     analysis |-> i.analysis]

RowToInstance(r) == [task |-> r.task, sched |-> r.sched, status |-> r.status, worker |-> r.worker,
                     dispatch |-> OrZero(r.dispatch), start |-> OrZero(r.start),
                     finish |-> OrZero(r.finish), retry |-> OrZero(r.retry),
                     analysis |-> r.analysis, shard |-> 0]

(* What a call answers, an error or not, and leaves.                       *)
Returns(ok, to) == [ok |-> ok, to |-> to]

(* One call of both.                                                       *)
Call(m, d, why) ==
    /\ mem' = m.to /\ db' = d.to
    /\ causes' = causes \cup (IF m.ok = d.ok THEN {} ELSE {"answer"}) \cup why

--------------------------------------------------------------------------------
(* Tasks and their dependencies.                                           *)

MemCreateTask(t) ==
    Returns(TRUE, [mem EXCEPT !.tasks = Put(@, mem.nextTask, [t EXCEPT !.version = 1]),
                             !.nextTask = @ + 1])

(* A rejected insert has used up its id.                                   *)
SqlCreateTask(t) ==
    LET taken == \E i \in DOMAIN db.tasks : db.tasks[i].name = t.name
        row == TaskToRow([t EXCEPT !.version = 1])
    IN  Returns(~taken, [db EXCEPT !.tasks = IF taken THEN @ ELSE Put(@, db.nextTask, row),
                                  !.nextTask = @ + 1])

MemUpdateTask(i, t) ==
    IF i \notin DOMAIN mem.tasks THEN Returns(FALSE, mem)
    ELSE LET version == mem.tasks[i].version + 1
         IN  Returns(TRUE, [mem EXCEPT !.tasks[i] = [t EXCEPT !.version = version]])

(* Variant: the column of the trigger time is forgotten.                   *)
AssignTaskButNext(row, t) == [TaskToRow(t) EXCEPT !.next = row.next,
                                                  !.version = row.version + 1]

(* The columns that UpdateTask assigns: all of a row.                      *)
AssignTask(row, t) == [TaskToRow(t) EXCEPT !.version = row.version + 1]

(* The update of a row that is not there is no error, reading it back is.   *)
SqlUpdateTask(i, t) ==
    IF i \notin DOMAIN db.tasks THEN Returns(FALSE, db)
    ELSE LET row == AssignTask(db.tasks[i], t)
             taken == \E j \in DOMAIN db.tasks \ {i} : db.tasks[j].name = row.name
         IN  Returns(~taken, IF taken THEN db ELSE [db EXCEPT !.tasks[i] = row])

MemDeleteTask(i) == Returns(i \in DOMAIN mem.tasks, [mem EXCEPT !.tasks = Drop(@, i)])

(* The foreign keys take the edges of a task with it.                      *)
SqlDeleteTask(i) ==
    Returns(TRUE, [db EXCEPT !.tasks = Drop(@, i),
                            !.deps = {e \in @ : i \notin {e[1], e[2]}}])

(* The slice of edges: how often each is in it.                            *)
MemAddDependency(i, j) ==
    LET copies == IF <<i, j>> \in DOMAIN mem.deps THEN mem.deps[<<i, j>>] ELSE 0
    IN  IF {i, j} \subseteq DOMAIN mem.tasks
        THEN Returns(TRUE, [mem EXCEPT !.deps = Put(@, <<i, j>>, copies + 1)])
        ELSE Returns(FALSE, mem)

SqlAddDependency(i, j) ==
    IF {i, j} \subseteq DOMAIN db.tasks /\ <<i, j>> \notin db.deps
    THEN Returns(TRUE, [db EXCEPT !.deps = @ \cup {<<i, j>>}])
    ELSE Returns(FALSE, db)

MemRemoveDependency(i, j) == Returns(TRUE, [mem EXCEPT !.deps = Drop(@, <<i, j>>)])

SqlRemoveDependency(i, j) == Returns(TRUE, [db EXCEPT !.deps = @ \ {<<i, j>>}])

--------------------------------------------------------------------------------
(* Instances. The map keeps two instances of one schedule id, and finds the   *)
(* later one.                                                               *)

MemCreateInstance(n) ==
    Returns(TRUE, [mem EXCEPT !.insts = Put(@, mem.nextInst, n),
                             !.bySched = Put(@, n.sched, mem.nextInst),
                             !.nextInst = @ + 1])

SqlCreateInstance(n) ==
    LET taken == \E i \in DOMAIN db.insts : db.insts[i].sched = n.sched
    IN  Returns(~taken,
               [db EXCEPT !.insts = IF taken THEN @ ELSE Put(@, db.nextInst, InstanceToRow(n)),
                          !.nextInst = @ + 1])

MemBySchedule(s) == IF s \in DOMAIN mem.bySched THEN {mem.bySched[s]} ELSE {}

SqlBySchedule(s) == {i \in DOMAIN db.insts : db.insts[i].sched = s}

Changed(f, ids, change(_)) == [i \in DOMAIN f |-> IF i \in ids THEN change(f[i]) ELSE f[i]]

(* The map answers an error if there is nothing to change; an UPDATE that      *)
(* selects no row is none.                                                  *)
MemUpdate(ids, change(_)) ==
    Returns(ids \cap DOMAIN mem.insts # {}, [mem EXCEPT !.insts = Changed(@, ids, change)])

SqlUpdate(ids, change(_)) == Returns(TRUE, [db EXCEPT !.insts = Changed(@, ids, change)])

MemUpdateInstanceStatus(i, s) == MemUpdate({i}, LAMBDA r : [r EXCEPT !.status = s])

SqlUpdateInstanceStatus(i, s) == SqlUpdate({i}, LAMBDA r : [r EXCEPT !.status = s])

(* An empty dispatch time leaves the map's and clears the row's.           *)
MemUpdateInstanceDispatch(i, w, t) ==
    MemUpdate({i}, LAMBDA r : [r EXCEPT !.worker = w, !.status = "dispatched",
                                        !.dispatch = IF t = 0 THEN @ ELSE t])

SqlUpdateInstanceDispatch(i, w, t) ==
    SqlUpdate({i}, LAMBDA r : [r EXCEPT !.worker = w, !.status = "dispatched",
                                        !.dispatch = TimeOrNil(t)])

MemUpdateInstanceResult(s, o) ==
    MemUpdate(MemBySchedule(s), LAMBDA r : [r EXCEPT !.status = o])

SqlUpdateInstanceResult(s, o) ==
    SqlUpdate(SqlBySchedule(s), LAMBDA r : [r EXCEPT !.status = o])

MemUpdateInstanceAnalysis(s) ==
    MemUpdate(MemBySchedule(s), LAMBDA r : [r EXCEPT !.analysis = TRUE])

SqlUpdateInstanceAnalysis(s) ==
    SqlUpdate(SqlBySchedule(s), LAMBDA r : [r EXCEPT !.analysis = TRUE])

MemUpdateInstanceTimestamps(s, a, b) ==
    MemUpdate(MemBySchedule(s), LAMBDA r : [r EXCEPT !.start = IF a = 0 THEN @ ELSE a,
                                                     !.finish = IF b = 0 THEN @ ELSE b])

(* Variant: the row gets the start as its end.                             *)
SqlUpdateStartTwice(s, a, b) ==
    SqlUpdate(SqlBySchedule(s), LAMBDA r : [r EXCEPT !.start = TimeOrNil(a),
                                                     !.finish = TimeOrNil(a)])

SqlUpdateInstanceTimestamps(s, a, b) ==
    SqlUpdate(SqlBySchedule(s), LAMBDA r : [r EXCEPT !.start = TimeOrNil(a),
                                                     !.finish = TimeOrNil(b)])

--------------------------------------------------------------------------------
(* Workers. The callers set the time of the heartbeat.                     *)

MemUpsertWorker(n, w) == Returns(TRUE, [mem EXCEPT !.workers = Put(@, n, w)])

(* Variant: the conflict clause forgets the load.                          *)
SqlUpsertButLoad(n, w) ==
    LET old == IF n \in DOMAIN db.workers THEN db.workers[n].load ELSE w.load
    IN  Returns(TRUE, [db EXCEPT !.workers = Put(@, n, [w EXCEPT !.load = old])])

SqlUpsertWorker(n, w) == Returns(TRUE, [db EXCEPT !.workers = Put(@, n, w)])

--------------------------------------------------------------------------------
(* The queries, each of the maps and of the tables. Instances are made in the  *)
(* order of their ids, which stands for created_at.                          *)

(* The record under a key, if there is one.                                *)
Found(f, k) == IF k \in DOMAIN f THEN {f[k]} ELSE {}

Sorted(ids) == CHOOSE s \in [1 .. Cardinality(ids) -> ids] :
                  \A a, b \in DOMAIN s : a < b => s[a] < s[b]

Ordered(f) == Sorted(DOMAIN f)

NewestFirst(f) == LET q == Ordered(f) IN [k \in DOMAIN q |-> q[Len(q) - k + 1]]

(* A list of records: the order of their ids, and the record of each.      *)
Listed(f) == [order |-> Ordered(f), rows |-> f]

Where(f, P(_)) == Sorted({i \in DOMAIN f : P(f[i])})

Limited(q, limit) == IF limit > 0 /\ limit < Len(q) THEN SubSeq(q, 1, limit) ELSE q

MemGetTask(i) == Found(mem.tasks, i)

SqlGetTask(i) == {RowToTask(r) : r \in Found(db.tasks, i)}

MemListTasks == Listed(mem.tasks)

SqlListTasks == Listed([i \in DOMAIN db.tasks |-> RowToTask(db.tasks[i])])

MemListDueTasks(now) ==
    {i \in DOMAIN mem.tasks : /\ mem.tasks[i].status = "enabled"
                              /\ mem.tasks[i].next # 0 /\ mem.tasks[i].next <= now}

SqlListDueTasks(now) ==
    {i \in DOMAIN db.tasks : /\ db.tasks[i].status = "enabled"
                             /\ db.tasks[i].next # Null /\ db.tasks[i].next <= now}

MemListUpstreamDeps(i) == {e[2] : e \in {e \in DOMAIN mem.deps : e[1] = i}}

SqlListUpstreamDeps(i) == {e[2] : e \in {e \in db.deps : e[1] = i}}

MemListDownstreamTasks(i) == {e[1] : e \in {e \in DOMAIN mem.deps : e[2] = i}}

SqlListDownstreamTasks(i) == {e[1] : e \in {e \in db.deps : e[2] = i}}

MemGetInstance(i) == Found(mem.insts, i)

SqlGetInstance(i) == {RowToInstance(r) : r \in Found(db.insts, i)}

MemListInstances == Listed(mem.insts)

SqlListInstances == Listed([i \in DOMAIN db.insts |-> RowToInstance(db.insts[i])])

MemListInstancesByTaskID(t) == Where(mem.insts, LAMBDA r : r.task = t)

SqlListInstancesByTaskID(t) == Where(db.insts, LAMBDA r : r.task = t)

MemCountInstancesByStatus(s) ==
    Cardinality({i \in DOMAIN mem.insts : mem.insts[i].status = s})

SqlCountInstancesByStatus(s) ==
    Cardinality({i \in DOMAIN db.insts : db.insts[i].status = s})

MemListDueRetryInstances(now, limit) ==
    Limited(Where(mem.insts, LAMBDA r : r.status = "retry_waiting"
                                        /\ ~(r.retry # 0 /\ r.retry > now)), limit)

SqlListDueRetryInstances(now, limit) ==
    Limited(Where(db.insts, LAMBDA r : r.status = "retry_waiting"
                                       /\ (r.retry = Null \/ r.retry <= now)), limit)

MemListInstancesByStatus(s, limit) == Limited(Where(mem.insts, LAMBDA r : r.status = s), limit)

SqlListInstancesByStatus(s, limit) == Limited(Where(db.insts, LAMBDA r : r.status = s), limit)

(* An offset past the end is no offset for the map, and leaves no rows.    *)
MemListInstancesByTimeRange(limit, offset) ==
    LET q == NewestFirst(mem.insts)
    IN  Limited(IF offset > 0 /\ offset < Len(q) THEN SubSeq(q, offset + 1, Len(q)) ELSE q, limit)

SqlListInstancesByTimeRange(limit, offset) ==
    LET q == NewestFirst(db.insts)
    IN  Limited(IF offset > 0 THEN SubSeq(q, offset + 1, Len(q)) ELSE q, limit)

MemGetWorker(n) == Found(mem.workers, n)

SqlGetWorker(n) == Found(db.workers, n)

(* In the order of the ids, which does not matter here.                    *)
MemListWorkers == {mem.workers[n] : n \in DOMAIN mem.workers}

SqlListWorkers == {db.workers[n] : n \in DOMAIN db.workers}

Available(w) == w.online /\ w.load < 1

MemListAvailableWorkers == {n \in DOMAIN mem.workers : Available(mem.workers[n])}

SqlListAvailableWorkers == {n \in DOMAIN db.workers : Available(db.workers[n])}

MemListStaleWorkers(cutoff) ==
    {n \in DOMAIN mem.workers : mem.workers[n].online /\ mem.workers[n].beat < cutoff}

SqlListStaleWorkers(cutoff) ==
    {n \in DOMAIN db.workers : db.workers[n].online /\ db.workers[n].beat < cutoff}

--------------------------------------------------------------------------------
(* The calls. Callers read a task, change it and write it back.            *)

CreateTask(n, e) ==
    LET t == [name |-> n, status |-> "enabled", next |-> 0, event |-> e, version |-> 0]
    IN  /\ mem.nextTask \in Ids /\ db.nextTask \in Ids
        /\ Call(MemCreateTask(t), SqlCreateTask(t), {})

Young(f, i) == i \in DOMAIN f => f[i].version < MaxVersion

UpdateTask(i, n, s, x) ==
    LET change(t) == [t EXCEPT !.name = n, !.status = s, !.next = x]
    IN  /\ Young(mem.tasks, i) /\ Young(db.tasks, i)
        /\ Call(MemUpdateTask(i, change(mem.tasks[i])),
                SqlUpdateTask(i, change(RowToTask(db.tasks[i]))), {})

(* The map keeps the edges of a deleted task.                              *)
DeleteTask(i) ==
    Call(MemDeleteTask(i), SqlDeleteTask(i),
         IF \E e \in DOMAIN mem.deps : i \in {e[1], e[2]}
         THEN {"cascade"} ELSE {})

AddDependency(i, j) ==
    /\ Cardinality(DOMAIN mem.deps) < MaxRows
    /\ Call(MemAddDependency(i, j), SqlAddDependency(i, j), {})

RemoveDependency(i, j) == Call(MemRemoveDependency(i, j), SqlRemoveDependency(i, j), {})

CreateInstance(s, st, r) ==
    LET n == [task |-> TaskOf[s], sched |-> s, status |-> st, worker |-> "", dispatch |-> 0,
              start |-> 0, finish |-> 0, retry |-> r, analysis |-> FALSE, shard |-> 1]
    IN  /\ mem.nextInst \in Ids /\ db.nextInst \in Ids
        /\ Call(MemCreateInstance(n), SqlCreateInstance(n), {})

(* A time that is there is overwritten with the zero time.                 *)
Erases(ids, f, t) ==
    IF t = 0 /\ \E i \in ids \cap DOMAIN mem.insts : mem.insts[i][f] # 0 THEN {"zero"} ELSE {}

UpdateInstanceStatus(i, s) ==
    Call(MemUpdateInstanceStatus(i, s), SqlUpdateInstanceStatus(i, s), {})

UpdateInstanceDispatch(i, t) ==
    Call(MemUpdateInstanceDispatch(i, "w", t), SqlUpdateInstanceDispatch(i, "w", t),
         Erases({i}, "dispatch", t))

UpdateInstanceResult(s, o) ==
    Call(MemUpdateInstanceResult(s, o), SqlUpdateInstanceResult(s, o), {})

UpdateInstanceAnalysis(s) ==
    Call(MemUpdateInstanceAnalysis(s), SqlUpdateInstanceAnalysis(s), {})

UpdateInstanceTimestamps(s, a, b) ==
    Call(MemUpdateInstanceTimestamps(s, a, b), SqlUpdateInstanceTimestamps(s, a, b),
         Erases(MemBySchedule(s), "start", a) \cup Erases(MemBySchedule(s), "finish", b))

UpsertWorker(n, w) == Call(MemUpsertWorker(n, w), SqlUpsertWorker(n, w), {})

TaskCall ==
    \/ \E n \in Names, e \in BOOLEAN : CreateTask(n, e)
    \/ \E i \in Ids, n \in Names, s \in {"enabled", "disabled"}, x \in Times :
          UpdateTask(i, n, s, x)
    \/ \E i \in Ids : DeleteTask(i)
    \/ \E i, j \in Ids : AddDependency(i, j) \/ RemoveDependency(i, j)

InstanceCall ==
    \/ \E s \in Scheds : \/ CreateInstance(s, "pending", 0)
                         \/ \E r \in Times : CreateInstance(s, "retry_waiting", r)
    \/ \E i \in Ids : \/ UpdateInstanceStatus(i, "retry_waiting")
                      \/ \E t \in Times : UpdateInstanceDispatch(i, t)
    \/ \E s \in Scheds : \/ UpdateInstanceResult(s, "success") \/ UpdateInstanceAnalysis(s)
                         \/ \E a, b \in Times : UpdateInstanceTimestamps(s, a, b)

WorkerCall == \E n \in Nodes, w \in [online : BOOLEAN, load : 0 .. 1, beat : Times \ {0}] :
                 UpsertWorker(n, w)

(* The comparison is over once there is a cause to part.                   *)
ReposNext == causes = {} /\ (TaskCall \/ InstanceCall \/ WorkerCall)

ReposSpec == ReposInit /\ [][ReposNext]_repoVars

--------------------------------------------------------------------------------
(* The repositories of tasks: as long as both answered every call alike and   *)
(* no task was deleted together with its edges, the map and the tables answer  *)
(* with the same tasks but for their events, the same are due at any time, and  *)
(* every task has the same upstream and downstream tasks.                   *)
TasksAgree ==
    causes = {} =>
       /\ \A i \in Ids : SqlGetTask(i) = {[t EXCEPT !.event = FALSE] : t \in MemGetTask(i)}
       /\ SqlListTasks = [MemListTasks EXCEPT !.rows =
                             [i \in DOMAIN @ |-> [@[i] EXCEPT !.event = FALSE]]]
       /\ \A now \in Times : MemListDueTasks(now) = SqlListDueTasks(now)
       /\ \A i \in Ids : /\ MemListUpstreamDeps(i) = SqlListUpstreamDeps(i)
                         /\ MemListDownstreamTasks(i) = SqlListDownstreamTasks(i)

(* The repositories of instances: as long as both answered every call alike   *)
(* and no time was overwritten with the zero time, an id and a schedule id     *)
(* find the same instance, the lists, by task and by status too, are the same   *)
(* but for the shards, the same retries are due in the same order, and a page    *)
(* that starts within the list is the same page.                             *)
InstancesAgree ==
    causes = {} =>
       /\ \A i \in Ids :
             SqlGetInstance(i) = {[r EXCEPT !.shard = 0] : r \in MemGetInstance(i)}
       /\ SqlListInstances = [MemListInstances EXCEPT !.rows =
                                 [i \in DOMAIN @ |-> [@[i] EXCEPT !.shard = 0]]]
       /\ \A t \in {TaskOf[s] : s \in Scheds} :
             MemListInstancesByTaskID(t) = SqlListInstancesByTaskID(t)
       /\ \A s \in Scheds : MemBySchedule(s) = SqlBySchedule(s)
       /\ \A now \in Times, limit \in 0 .. 1 :
             MemListDueRetryInstances(now, limit) = SqlListDueRetryInstances(now, limit)
       /\ \A s \in {"pending", "success"}, limit \in 0 .. 1 :
             /\ MemListInstancesByStatus(s, limit) = SqlListInstancesByStatus(s, limit)
             /\ MemCountInstancesByStatus(s) = SqlCountInstancesByStatus(s)
       /\ \A limit \in 0 .. 2, offset \in 0 .. MaxRows :
             offset < Len(MemListInstancesByTimeRange(0, 0)) =>
                MemListInstancesByTimeRange(limit, offset)
                   = SqlListInstancesByTimeRange(limit, offset)

(* The repositories of workers: both know the same workers, the same can take   *)
(* a task and the same are stale.                                            *)
WorkersAgree ==
    causes = {} =>
       /\ \A n \in Nodes : MemGetWorker(n) = SqlGetWorker(n)
       /\ MemListWorkers = SqlListWorkers
       /\ MemListAvailableWorkers = SqlListAvailableWorkers
       /\ \A cutoff \in Times : MemListStaleWorkers(cutoff) = SqlListStaleWorkers(cutoff)

================================================================================
