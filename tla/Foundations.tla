------------------------------ MODULE Foundations ------------------------------
(***************************************************************************)
(* The parts that the others stand on: the timing wheel, the repositories and  *)
(* the migrations. They have no state in common.                            *)
(***************************************************************************)
EXTENDS TimingWheel, Repositories, Migrations

ASSUME FoundationParameters == WheelParameters /\ RepositoryParameters

(* The repositories of the tests and of MySQL give the same tasks, instances     *)
(* and workers until a call gives cause to part.                             *)
RepositoriesAgree == TasksAgree /\ InstancesAgree /\ WorkersAgree

(* RunMigrations leaves what one undisturbed run leaves, and fails only behind    *)
(* a rival or for want of what it should have read.                         *)
MigrationsConverge == SchemaComplete /\ FailsBehindRival

================================================================================
