------------------------------ MODULE EventPublish -----------------------------
(***************************************************************************)
(* POST /events/publish: every enabled task that waits for the event gets an   *)
(* instance per shard, which is dispatched at once. An instance is known by     *)
(* its task and the clock when it was made; the table rejects a second one.    *)
(***************************************************************************)
EXTENDS Naturals, FiniteSets

CONSTANTS
    Publishers,    \* concurrent requests
    EventTasks,    \* ids of the tasks that wait for the event
    TotalShards,   \* task.TotalShards of each
    MaxClock,      \* bound on the clock
    PublishFaults  \* a subset of {"db", "no_worker", "dispatch_error", "dispatch_timeout"}

VARIABLES
    table,    \* task_instance: the status of each schedule id
    pub,      \* the requests
    sent,     \* requests the workers got: <<publisher, task, shard, schedule id>>
    clock

publishVars == <<table, pub, sent, clock>>

ScheduleIDs == EventTasks \X (0 .. MaxClock)

Shards(t) == 0 .. (IF TotalShards[t] <= 0 THEN 1 ELSE TotalShards[t]) - 1

(* No shard and no schedule id.                                            *)
Nothing == <<0, 0>>

NoRequest == [pc |-> "idle", todo |-> {}, at |-> Nothing, id |-> Nothing, triggered |-> 0]

PublishInit == /\ table = [k \in ScheduleIDs |-> "none"]
        /\ pub = [x \in Publishers |-> NoRequest]
        /\ sent = {}
        /\ clock = 0

(* On to the next shard, with n more instances triggered.                  *)
Continue(x, n) ==
    pub' = [pub EXCEPT ![x].pc = "next", ![x].at = Nothing, ![x].id = Nothing,
                       ![x].triggered = @ + n]

(* ListTasks and the conditions on its rows: what comes after goes by this     *)
(* list. Tasks are paused and resumed all the time.                         *)
List(x) ==
    /\ pub[x].pc = "idle"
    /\ \E enabled \in SUBSET EventTasks :
          pub' = [pub EXCEPT ![x].pc = "next",
                             ![x].todo = UNION {{t} \X Shards(t) : t \in enabled}]
    /\ UNCHANGED <<table, sent, clock>>

generateScheduleInstanceID(t) == <<t, clock>>

Before(a, b) == a[1] < b[1] \/ (a[1] = b[1] /\ a[2] <= b[2])

(* Variant: a shard whose row was rejected is dispatched all the same.     *)
CreateShardAnyway(x) ==
    /\ pub[x].pc = "next"
    /\ \E a \in pub[x].todo :
          LET k == generateScheduleInstanceID(a[1]) IN
          /\ \A b \in pub[x].todo : Before(a, b)
          /\ table' = [table EXCEPT ![k] = IF @ = "none" THEN "pending" ELSE @]
          /\ pub' = [pub EXCEPT ![x].todo = @ \ {a}, ![x].pc = "pick", ![x].at = a, ![x].id = k]
    /\ UNCHANGED <<sent, clock>>

(* A shard whose row cannot be inserted is passed over.                    *)
CreateShard(x) ==
    /\ pub[x].pc = "next"
    /\ \E a \in pub[x].todo :
          LET k == generateScheduleInstanceID(a[1]) IN
          /\ \A b \in pub[x].todo : Before(a, b)
          /\ \/ /\ table[k] = "none"
                /\ table' = [table EXCEPT ![k] = "pending"]
                /\ pub' = [pub EXCEPT ![x].todo = @ \ {a}, ![x].pc = "pick",
                                      ![x].at = a, ![x].id = k]
             \/ /\ table[k] # "none" \/ "db" \in PublishFaults
                /\ pub' = [pub EXCEPT ![x].todo = @ \ {a}]
                /\ UNCHANGED table
    /\ UNCHANGED <<sent, clock>>

(* Pick and UpdateInstanceDispatch. Without a worker the row stays pending; the  *)
(* error of the update is ignored.                                          *)
Assign(x) ==
    /\ pub[x].pc = "pick"
    /\ \/ /\ pub' = [pub EXCEPT ![x].pc = "send"]
          /\ \/ table' = [table EXCEPT ![pub[x].id] = "dispatched"]
             \/ "db" \in PublishFaults /\ UNCHANGED table
       \/ /\ PublishFaults \cap {"no_worker", "db"} # {}
          /\ Continue(x, 0)
          /\ UNCHANGED table
    /\ UNCHANGED <<sent, clock>>

(* Variant: a failed dispatch is counted.                                  *)
DispatchCounted(x) ==
    /\ pub[x].pc = "send"
    /\ "dispatch_error" \in PublishFaults
    /\ Continue(x, 1)
    /\ UNCHANGED <<table, sent, clock>>

(* A failed dispatch is only logged: the row stays dispatched.             *)
DispatchShard(x) ==
    /\ pub[x].pc = "send"
    /\ \/ /\ sent' = sent \cup {<<x, pub[x].at[1], pub[x].at[2], pub[x].id>>}
          /\ \/ Continue(x, 1)
             \/ "dispatch_timeout" \in PublishFaults /\ Continue(x, 0)
       \/ /\ "dispatch_error" \in PublishFaults
          /\ Continue(x, 0)
          /\ UNCHANGED sent
    /\ UNCHANGED <<table, clock>>

Answer(x) ==
    /\ pub[x].pc = "next" /\ pub[x].todo = {}
    /\ pub' = [pub EXCEPT ![x].pc = "done"]
    /\ UNCHANGED <<table, sent, clock>>

ClockTick == /\ clock < MaxClock
        /\ clock' = clock + 1
        /\ UNCHANGED <<table, pub, sent>>

PublishNext == \/ \E x \in Publishers : \/ List(x) \/ CreateShard(x) \/ Assign(x)
                                 \/ DispatchShard(x) \/ Answer(x)
        \/ ClockTick

PublishSpec == PublishInit /\ [][PublishNext]_publishVars

--------------------------------------------------------------------------------
(* Publish and the unique schedule id: no two requests that reached a worker    *)
(* carry the same schedule id, whichever shards, tasks and concurrent events    *)
(* they are for, and each has its row.                                       *)
ShardsApart ==
    /\ \A d, e \in sent : d[4] = e[4] => d = e
    /\ \A d \in sent : table[d[4]] # "none"

(* The answer of Publish: it counts no more instances than the workers got, each *)
(* under an id of its own, whatever failed in between.                       *)
TriggeredDelivered ==
    \A x \in Publishers :
        pub[x].triggered <= Cardinality({d[4] : d \in {e \in sent : e[1] = x}})

================================================================================
