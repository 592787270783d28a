--------------------------- MODULE MCWorkerRegistry ---------------------------
(***************************************************************************)
(* Instances of WorkerRegistry and of LeaderElection for TLC, with their       *)
(* liveness. A behaviour is one of the registry or one of the election; in the  *)
(* latter no worker has registered and every job was given up, so that nothing  *)
(* in the registry is waiting to be done.                                    *)
(***************************************************************************)
EXTENDS WorkerRegistry, LeaderElection

CONSTANTS w1, j1

VARIABLE electing   \* whether the behaviour is one of the election

(* The labels of job j1 match one worker only, the others match every one. *)
MCEligible == [j \in Jobs |-> IF j = j1 THEN {w1} ELSE Workers]

LiveInit == \/ Init /\ ElectionInit /\ electing = FALSE
            \/ /\ row = [w \in Workers |-> NoRow]
               /\ proc = [w \in Workers |-> "down"]
               /\ job = [j \in Jobs |-> [NoJob EXCEPT !.pc = "gone"]]
               /\ beat = [w \in Workers |-> NoBeat]
               /\ evict = [w \in Workers |-> "none"]
               /\ rr = 0
               /\ ElectionInit /\ electing = TRUE

LiveNext == /\ \/ ~electing /\ Next /\ UNCHANGED electionVars
               \/ electing /\ ElectionNext /\ UNCHANGED vars
            /\ UNCHANGED electing

LiveSpec == LiveInit /\ [][LiveNext]_<<vars, electing, electionVars>>
            /\ Fairness /\ ElectionFairness

================================================================================
