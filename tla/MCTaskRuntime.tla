----------------------------- MODULE MCTaskRuntime -----------------------------
(***************************************************************************)
(* Small instances of TaskRuntime for TLC, with the inductive invariant of  *)
(* the proofs in scope.                                                    *)
(***************************************************************************)
EXTENDS TaskRuntimeProofs, TLC

(* Workers and handler slots are interchangeable. Not for liveness.         *)
MCSymmetry == Permutations(Workers) \cup Permutations(Reporters)

================================================================================
