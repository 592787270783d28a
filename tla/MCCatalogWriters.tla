--------------------------- MODULE MCCatalogWriters ---------------------------
(***************************************************************************)
(* The writers of the task table in two scenes: one task that is never       *)
(* deleted, with two requests at a time (one of them to pause or resume it),   *)
(* the engine and retries; or a chain of two tasks with one request at a time  *)
(* and the reports that advance the second.                                  *)
(***************************************************************************)
EXTENDS MCTaskCatalog

CONSTANT a1

(* Both tasks of the chain have been created.                              *)
ChainInit ==
    /\ task = [t \in Tasks |-> [status |-> "enabled", next |-> "later"]]
    /\ deps = Chain
    /\ inst = << >> /\ red = FALSE /\ wheel = {} /\ cached = {}
    /\ due = [t \in Tasks |-> Absent]
    /\ thr = [p \in Threads |-> Idle]
    /\ owed = [t \in Tasks |-> FALSE]

(* The row of a retry fills the table: no further run can be started.       *)
Retried == \E i \in DOMAIN inst' : inst'[i].of # 0

SceneInit == Init \/ ChainInit

SceneSpec == SceneInit /\ [][Next]_vars

(* Which requests overlap. The second task never exists in the first scene     *)
(* and is at most deleted in the other.                                     *)
SceneStep ==
    IF task[t2] = Absent
    THEN /\ task'[t2] = Absent
         /\ \A p \in Threads : thr'[p].t # t2 /\ (p \in Reporters => thr'[p] = thr[p])
         /\ \A a \in Api \ {a1} : /\ thr'[a].pc \in {"idle", "write"}
                                  /\ thr'[a].pc = "idle" \/ thr'[a1].pc # "sync"
         /\ thr'[a1].pc # "delete" /\ Cardinality(wheel') <= 1 /\ cached' = {}
         /\ \A i \in DOMAIN inst' : inst'[i].status # "success"
         /\ Retried => \A a \in Api : thr'[a] = Idle
    ELSE /\ wheel' = {} /\ cached' \subseteq {t1} /\ \A a \in Api \ {a1} : thr'[a] = thr[a]
         /\ \A a \in Api : thr'[a].pc \notin {"trigger", "update", "insert"}
         /\ \A i \in DOMAIN inst' : inst'[i].status \notin {"failed", "retry_waiting"}
         /\ thr'["loop"].pc = "defer" => thr'["loop"].id = 0
================================================================================
