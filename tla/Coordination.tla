------------------------------ MODULE Coordination -----------------------------
(***************************************************************************)
(* The parts that coordinate processes through rows and locks they share: the  *)
(* worker registry, the leader election and the event handler. They have no    *)
(* state in common.                                                        *)
(***************************************************************************)
EXTENDS WorkerRegistry, LeaderElection, EventPublish

ASSUME CoordinationParameters == LeaderParameters /\ MaxClock \in Nat

(* Publish: no two dispatched shards share a schedule id, and the answer counts   *)
(* no more instances than workers got.                                      *)
EventsDelivered == ShardsApart /\ TriggeredDelivered

================================================================================
