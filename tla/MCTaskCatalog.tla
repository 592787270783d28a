---------------------------- MODULE MCTaskCatalog ----------------------------
(***************************************************************************)
(* Small instances of TaskCatalog: a chain of two tasks, and a task that     *)
(* joins two others.                                                        *)
(***************************************************************************)
EXTENDS TaskCatalog

CONSTANTS t1, t2, t3

(* t2 waits for t1 *)
Chain == [t \in Tasks |-> IF t = t2 THEN {t1} ELSE {}]

(* t3 waits for t1 and t2 *)
Join == [t \in Tasks |-> IF t = t3 THEN {t1, t2} ELSE {}]
==============================================================================
