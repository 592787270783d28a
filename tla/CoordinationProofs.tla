--------------------------- MODULE CoordinationProofs --------------------------
(***************************************************************************)
(* What the leader election, the worker registry and the event handler       *)
(* promise, for every number of schedulers, workers, jobs, requests, tasks    *)
(* and shards, and every fault.                                            *)
(***************************************************************************)
EXTENDS Coordination, FiniteSetTheorems, TLAPS

--------------------------------------------------------------------------------
(* The leader election.                                                    *)


(* Every step of Acquire, of its errors and of the backend keeps the types. *)
LEMMA ElectionTyped == ElectionSpec => []ElectionTypeOK
<1>1. ElectionInit => ElectionTypeOK
  BY DEF ElectionInit, ElectionTypeOK, States
<1>2. ElectionTypeOK /\ [ElectionNext]_electionVars => ElectionTypeOK'
  <2> SUFFICES ASSUME ElectionTypeOK, [ElectionNext]_electionVars PROVE ElectionTypeOK'
    OBVIOUS
  <2>1. CASE UNCHANGED electionVars
    BY <2>1 DEF ElectionTypeOK, electionVars
  <2>2. ASSUME NEW s \in Schedulers,
               \/ Start(s) \/ Acquire(s) \/ AcquireError(s) \/ Cancel(s)
               \/ ReleaseLock(s) \/ Crash(s) \/ Expire(s) \/ LoseSession(s)
        PROVE  ElectionTypeOK'
    BY <2>2 DEF ElectionTypeOK, States, Start, Acquire, AcquireError, Cancel, ReleaseLock,
                Crash, Expire, LoseSession
  <2>. QED
    BY <2>1, <2>2 DEF ElectionNext
<1>. QED
  BY <1>1, <1>2, PTL DEF ElectionSpec

(* Acquire gives the lock to one process, and only the end of that process,  *)
(* of its session or its release gives it back: every process past Acquire   *)
(* has the lock or has strayed, for any number of schedulers, any backend    *)
(* and every fault.                                                        *)
LEMMA LockKept == ElectionSpec => []LeaderHolds
<1>1. ElectionInit => LeaderHolds
  BY DEF ElectionInit, LeaderHolds
<1>2. ElectionTypeOK /\ LeaderHolds /\ [ElectionNext]_electionVars => LeaderHolds'
  <2> SUFFICES ASSUME ElectionTypeOK, LeaderHolds, [ElectionNext]_electionVars
               PROVE  LeaderHolds'
    OBVIOUS
  <2>1. CASE UNCHANGED electionVars
    BY <2>1 DEF LeaderHolds, electionVars
  <2>2. ASSUME NEW s \in Schedulers, Start(s) \/ Cancel(s) \/ Crash(s)
        PROVE  LeaderHolds'
    BY <2>2 DEF LeaderHolds, ElectionTypeOK, States, Start, Cancel, Crash
  <2>3. ASSUME NEW s \in Schedulers, Acquire(s)
        PROVE  LeaderHolds'
    BY <2>3, CoordinationParameters
       DEF LeaderParameters, LeaderHolds, ElectionTypeOK, States, Acquire
  <2>4. ASSUME NEW s \in Schedulers, AcquireError(s)
        PROVE  LeaderHolds'
    BY <2>4 DEF LeaderHolds, ElectionTypeOK, States, AcquireError
  <2>5. ASSUME NEW s \in Schedulers, ReleaseLock(s)
        PROVE  LeaderHolds'
    BY <2>5 DEF LeaderHolds, ElectionTypeOK, States, ReleaseLock
  <2>6. ASSUME NEW s \in Schedulers, Expire(s) \/ LoseSession(s)
        PROVE  LeaderHolds'
    BY <2>6 DEF LeaderHolds, ElectionTypeOK, States, Expire, LoseSession
  <2>. QED
    BY <2>1, <2>2, <2>3, <2>4, <2>5, <2>6 DEF ElectionNext
<1>. QED
  BY <1>1, <1>2, ElectionTyped, PTL DEF ElectionSpec

(* Of two leaders one has lost its session unnoticed or never asked for one, *)
(* for any number of schedulers, any backend and every fault.               *)
THEOREM Elected == ElectionSpec => []OneElected
<1>1. LeaderHolds => OneElected
  BY DEF LeaderHolds, OneElected, Leaders
<1>. QED
  BY <1>1, LockKept, PTL

(* Elector: "grants one scheduler process permission to run leader-only      *)
(* loops", for any number of schedulers, if the lock is reliable: then       *)
(* Acquire and its errors never make a process stray.                       *)
THEOREM Exclusive == ASSUME LockReliable PROVE ElectionSpec => []AtMostOneLeader
<1> DEFINE NoneStrays == strayed = {}
<1>1. ElectionInit => NoneStrays
  BY DEF ElectionInit
<1>2. NoneStrays /\ [ElectionNext]_electionVars => NoneStrays'
  BY
     DEF ElectionNext, electionVars, LockReliable, Start, Acquire, AcquireError, Cancel,
         ReleaseLock,
         Crash, Expire, LoseSession
<1>3. OneElected /\ NoneStrays => AtMostOneLeader
  BY DEF OneElected, AtMostOneLeader
<1>. QED
  <2> HIDE DEF NoneStrays
  <2>. QED
    BY <1>1, <1>2, <1>3, Elected, PTL DEF ElectionSpec

--------------------------------------------------------------------------------
(* The worker registry.                                                    *)


Held == {"listed", "reserved", "release", "running", "report", "owing", "late"}

Copied == Held \ {"running", "owing"}

(* Pick, Release and ReportStatus: a job in hand is on a worker that has     *)
(* registered, and a copy that will be written back is of such a row.       *)
KnownWorker ==
    \A j \in Jobs :
       job[j].pc \in Held => /\ job[j].w \in Workers
                             /\ row[job[j].w].status # "none"
                             /\ job[j].pc \in Copied => job[j].copy.status # "none"

RegistryInv == TypeOK /\ KnownWorker

JobType == [pc : JobPCs, w : Workers \cup {NoWorker}, copy : Rows]

--------------------------------------------------------------------------------
(* Init: the table is empty and no job has begun.                          *)
LEMMA InitRegistry == Init => RegistryInv
<1> SUFFICES ASSUME Init PROVE RegistryInv
  OBVIOUS
<1>1. NoRow \in Rows
  BY DEF NoRow, Rows, Loads
<1>2. NoJob \in JobType
  BY <1>1 DEF NoJob, JobType, JobPCs
<1>3. TypeOK
  BY <1>1, <1>2 DEF Init, TypeOK, JobType, NoBeat, Loads
<1> QED
  BY <1>3 DEF Init, RegistryInv, KnownWorker, NoJob, Held

(* Fewer, of Release and ReportStatus, changes the load only.              *)
LEMMA FewerType ==
  ASSUME NEW r \in Rows PROVE Fewer(r) \in Rows /\ Fewer(r).status = r.status
  BY DEF Fewer, Rows, Loads

(* A job that is over.                                                     *)
LEMMA OverType ==
  ASSUME RegistryInv, NEW j \in Jobs, NEW pc \in {"new", "gone"}, Over(j, pc)
  PROVE  /\ job' \in [Jobs -> JobType]
         /\ job'[j].pc \notin Held
         /\ \A i \in Jobs \ {j} : job'[i] = job[i]
<1>1. [NoJob EXCEPT !.pc = pc] \in JobType /\ [NoJob EXCEPT !.pc = pc].pc = pc
  BY DEF NoJob, JobType, JobPCs, NoRow, Rows, Loads
<1> QED
  BY <1>1 DEF Over, RegistryInv, TypeOK, JobType, Held

(* Router.Pick chooses one of the listed workers, under either strategy.   *)
LEMMA Picks ==
  ASSUME RegistryInv, NEW S \in SUBSET Workers, S # {}, NEW s \in Listings(S)
  PROVE  pickLeastLoaded(s) \in S /\ pickRoundRobin(s) \in S
<1>1. IsFiniteSet(S)
  BY RegistryParameters, FS_Subset
<1>2. Cardinality(S) \in Nat /\ Cardinality(S) > 0
  BY <1>1, FS_CardinalityType, FS_EmptySet
<1> DEFINE n == Cardinality(S)
<1>3. s \in [1 .. n -> S]
  BY DEF Listings
<1> HIDE DEF n
<1>4. n \in Nat /\ n > 0
  BY <1>2 DEF n
<1>5. Len(s) = n
  BY <1>3, <1>4
<1>6. (rr % n) + 1 \in 1 .. n
  BY <1>4 DEF RegistryInv, TypeOK
<1> QED
  BY <1>3, <1>4, <1>5, <1>6 DEF pickLeastLoaded, pickRoundRobin

--------------------------------------------------------------------------------
(* The part of the type invariant that a step on jobs and rows can disturb. *)
TypesKept == row' \in [Workers -> Rows] /\ job' \in [Jobs -> JobType]

(* UpsertWorker: a row that has been registered is never unregistered.     *)
StaysKnown == \A w \in Workers : row[w].status # "none" => row'[w].status # "none"

KnownJob(j) == job[j].pc \in Held => /\ job[j].w \in Workers
                                     /\ row[job[j].w].status # "none"
                                     /\ job[j].pc \in Copied => job[j].copy.status # "none"

(* A step of one job: it is enough to look at this job and at the rows.    *)
LEMMA OneJob ==
  ASSUME RegistryInv, NEW j \in Jobs, TypesKept, StaysKnown, KnownJob(j)',
         \A i \in Jobs \ {j} : job'[i] = job[i], rr' \in Nat,
         UNCHANGED <<proc, beat, evict>>
  PROVE  RegistryInv'
<1>1. TypeOK'
  BY DEF RegistryInv, TypeOK, TypesKept, JobType
<1>2. KnownWorker'
  BY DEF RegistryInv, KnownWorker, KnownJob, StaysKnown
<1> QED
  BY <1>1, <1>2 DEF RegistryInv

(* A row is written that was registered.                                   *)
LEMMA Upsert ==
  ASSUME RegistryInv, NEW w \in Workers, NEW r \in Rows, r.status # "none",
         SaveWorker(w, r)
  PROVE  row' \in [Workers -> Rows] /\ StaysKnown /\ row'[w].status # "none"
  BY DEF RegistryInv, TypeOK, SaveWorker, StaysKnown

(* Router.Pick reads the available workers: all of them have registered.   *)
LEMMA PickListKeeps ==
  ASSUME RegistryInv, NEW j \in Jobs, PickList(j) PROVE RegistryInv'
<1> DEFINE S == filterByLabels(ListAvailableWorkers, j)
<1>1. S \in SUBSET Workers /\ S # {} /\ \A w \in S : row[w].status = "online"
  BY DEF PickList, filterByLabels, ListAvailableWorkers
<1>2. PICK s \in Listings(S) :
         LET w == IF Strategy = "round_robin" THEN pickRoundRobin(s) ELSE pickLeastLoaded(s)
         IN  job' = [job EXCEPT ![j] = [pc |-> "listed", w |-> w, copy |-> row[w]]]
  BY Zenon DEF PickList
<1>3. UNCHANGED <<row, proc, beat, evict>> /\ rr' = IF Strategy = "round_robin" THEN NextRR ELSE rr
  BY DEF PickList
<1> HIDE DEF S
<1>4. pickLeastLoaded(s) \in S /\ pickRoundRobin(s) \in S
  BY <1>1, Picks
<1>5. PICK w \in S : job' = [job EXCEPT ![j] = [pc |-> "listed", w |-> w, copy |-> row[w]]]
  BY <1>2, <1>4, Zenon
<1>6. w \in Workers /\ row[w] \in Rows /\ row[w].status = "online"
  BY <1>1 DEF RegistryInv, TypeOK
<1>7. [pc |-> "listed", w |-> w, copy |-> row[w]] \in JobType
  BY <1>6 DEF JobType, JobPCs
<1>8. job' \in [Jobs -> JobType] /\ \A i \in Jobs \ {j} : job'[i] = job[i]
  BY <1>5, <1>7 DEF RegistryInv, TypeOK, JobType
<1>9. KnownJob(j)'
  BY <1>3, <1>5, <1>6 DEF KnownJob, RegistryInv, TypeOK
<1>10. rr' \in Nat
  BY <1>3, RegistryParameters DEF NextRR, RegistryInv, TypeOK
<1>11. TypesKept /\ StaysKnown
  BY <1>3, <1>8 DEF TypesKept, StaysKnown, RegistryInv, TypeOK
<1> QED
  BY <1>3, <1>8, <1>9, <1>10, <1>11, OneJob

(* Router.Pick writes the copy back with one more.                         *)
LEMMA PickWriteKeeps ==
  ASSUME RegistryInv, NEW j \in Jobs, PickWrite(j) PROVE RegistryInv'
<1> DEFINE r == [job[j].copy EXCEPT !.load = @ + 1]
<1>1. /\ job[j] \in JobType /\ job[j].pc = "listed"
      /\ job[j].w \in Workers /\ row[job[j].w].status # "none" /\ job[j].copy.status # "none"
  BY DEF PickWrite, RegistryInv, TypeOK, JobType, KnownWorker, Held, Copied
<1>2. r \in Rows /\ r.status # "none"
  BY <1>1 DEF JobType, Rows, Loads
<1>3. UNCHANGED <<proc, beat, evict, rr>> /\ rr' \in Nat
  BY DEF PickWrite, RegistryInv, TypeOK
<1>4. \/ SaveWorker(job[j].w, r) /\ job' = [job EXCEPT ![j].pc = "reserved", ![j].copy = r]
      \/ (\E pc \in {"new", "gone"} : Over(j, pc)) /\ UNCHANGED row
  BY DEF PickWrite
<1> HIDE DEF r
<1>5. CASE SaveWorker(job[j].w, r) /\ job' = [job EXCEPT ![j].pc = "reserved", ![j].copy = r]
  <2>1. row' \in [Workers -> Rows] /\ StaysKnown /\ row'[job[j].w].status # "none"
    BY <1>1, <1>2, <1>5, Upsert
  <2>2. job' \in [Jobs -> JobType] /\ \A i \in Jobs \ {j} : job'[i] = job[i]
    BY <1>1, <1>2, <1>5, Zenon DEF RegistryInv, TypeOK, JobType, JobPCs
  <2>3. job'[j].w = job[j].w /\ job'[j].copy = r
    BY <1>1, <1>5 DEF RegistryInv, TypeOK, JobType
  <2>4. KnownJob(j)'
    BY <1>1, <1>2, <2>1, <2>3 DEF KnownJob
  <2> QED
    BY <1>3, <2>1, <2>2, <2>4, OneJob DEF TypesKept
<1>6. CASE (\E pc \in {"new", "gone"} : Over(j, pc)) /\ UNCHANGED row
  <2>1. /\ job' \in [Jobs -> JobType] /\ job'[j].pc \notin Held
        /\ \A i \in Jobs \ {j} : job'[i] = job[i]
    BY <1>6, OverType
  <2> QED
    BY <1>3, <1>6, <2>1, OneJob DEF TypesKept, StaysKnown, KnownJob, RegistryInv, TypeOK
<1> QED
  BY <1>4, <1>5, <1>6

(* Release and ReportStatus write their copy back with one less, or not at    *)
(* all, and are done; a job without a worker is given up.                   *)
LEMMA LastWrite ==
  ASSUME RegistryInv, NEW j \in Jobs, PickNone(j) \/ Release(j) \/ ReportWrite(j)
  PROVE  RegistryInv'
<1>1. \E pc \in {"new", "gone"} : Over(j, pc)
  BY DEF PickNone, Release, ReportWrite
<1>2. /\ job' \in [Jobs -> JobType] /\ job'[j].pc \notin Held
      /\ \A i \in Jobs \ {j} : job'[i] = job[i]
  BY <1>1, OverType
<1>3. UNCHANGED <<proc, beat, evict, rr>> /\ rr' \in Nat
  BY DEF PickNone, Release, ReportWrite, RegistryInv, TypeOK
<1>4. row' \in [Workers -> Rows] /\ StaysKnown
  <2>1. CASE UNCHANGED row
    BY <2>1 DEF StaysKnown, RegistryInv, TypeOK
  <2>2. CASE job[j].pc \in {"release", "report", "late"}
             /\ SaveWorker(job[j].w, Fewer(job[j].copy))
    <3>1. job[j].w \in Workers /\ job[j].copy \in Rows /\ job[j].copy.status # "none"
      BY <2>2 DEF RegistryInv, TypeOK, KnownWorker, Held, Copied
    <3>2. Fewer(job[j].copy) \in Rows /\ Fewer(job[j].copy).status # "none"
      BY <3>1, FewerType
    <3> QED
      BY <2>2, <3>1, <3>2, Upsert
  <2> QED
    BY <2>1, <2>2 DEF PickNone, Release, ReportWrite
<1> QED
  BY <1>2, <1>3, <1>4, OneJob DEF TypesKept, KnownJob

(* Dispatch and the read of ReportStatus, in time or late: the job stays on its   *)
(* worker, or is over.                                                       *)
LEMMA Moves ==
  ASSUME RegistryInv, NEW j \in Jobs, Dispatch(j) \/ ReportRead(j) \/ LateReport(j)
  PROVE  RegistryInv'
<1>1. /\ job[j] \in JobType /\ job[j].pc \in {"reserved", "running", "owing"}
      /\ job[j].w \in Workers /\ row[job[j].w] \in Rows /\ row[job[j].w].status # "none"
      /\ job[j].pc = "reserved" => job[j].copy.status # "none"
  BY DEF Dispatch, ReportRead, LateReport, RegistryInv, TypeOK, JobType, KnownWorker,
         Held, Copied
<1>2. UNCHANGED <<row, proc, beat, evict, rr>> /\ rr' \in Nat
  BY DEF Dispatch, ReportRead, LateReport, RegistryInv, TypeOK
<1>3. StaysKnown /\ row' \in [Workers -> Rows]
  BY <1>2 DEF StaysKnown, RegistryInv, TypeOK
<1>4. CASE job[j].pc = "reserved" /\ job' = [job EXCEPT ![j].pc = "running", ![j].copy = NoRow]
  <2>1. NoRow \in Rows
    BY DEF NoRow, Rows, Loads
  <2>2. job' \in [Jobs -> JobType] /\ \A i \in Jobs \ {j} : job'[i] = job[i]
    BY <1>1, <1>4, <2>1, Zenon DEF RegistryInv, TypeOK, JobType, JobPCs
  <2>3. job'[j].pc = "running" /\ job'[j].w = job[j].w
    BY <1>1, <1>4 DEF RegistryInv, TypeOK, JobType
  <2>4. KnownJob(j)'
    BY <1>1, <1>2, <2>3 DEF KnownJob, Held, Copied
  <2> QED
    BY <1>2, <1>3, <2>2, <2>4, OneJob DEF TypesKept
<1>5. CASE job[j].pc = "reserved" /\ job' = [job EXCEPT ![j].pc = "release"]
  <2>1. job' \in [Jobs -> JobType] /\ \A i \in Jobs \ {j} : job'[i] = job[i]
    BY <1>1, <1>5 DEF RegistryInv, TypeOK, JobType, JobPCs
  <2>2. job'[j].copy = job[j].copy /\ job'[j].w = job[j].w
    BY <1>1, <1>5 DEF RegistryInv, TypeOK, JobType
  <2>3. KnownJob(j)'
    BY <1>1, <1>2, <1>5, <2>2 DEF KnownJob
  <2> QED
    BY <1>2, <1>3, <2>1, <2>3, OneJob DEF TypesKept
<1>6. ASSUME NEW pc \in {"report", "late"},
             job' = [job EXCEPT ![j].pc = pc, ![j].copy = row[job[j].w]]
      PROVE  RegistryInv'
  <2>1. job' \in [Jobs -> JobType] /\ \A i \in Jobs \ {j} : job'[i] = job[i]
    BY <1>1, <1>6, Zenon DEF RegistryInv, TypeOK, JobType, JobPCs
  <2>2. job'[j].copy = row[job[j].w] /\ job'[j].w = job[j].w
    BY <1>1, <1>6 DEF RegistryInv, TypeOK, JobType
  <2>3. KnownJob(j)'
    BY <1>1, <1>2, <2>2 DEF KnownJob
  <2> QED
    BY <1>2, <1>3, <2>1, <2>3, OneJob DEF TypesKept
<1>7. CASE Over(j, "gone")
  <2>1. /\ job' \in [Jobs -> JobType] /\ job'[j].pc \notin Held
        /\ \A i \in Jobs \ {j} : job'[i] = job[i]
    BY <1>7, OverType
  <2> QED
    BY <1>2, <1>3, <2>1, OneJob DEF TypesKept, KnownJob
<1> QED
  BY <1>4, <1>5, <1>6, <1>7 DEF Dispatch, ReportRead, LateReport

--------------------------------------------------------------------------------
(* Registration writes an online row.                                      *)
LEMMA RegisterKeeps ==
  ASSUME RegistryInv, NEW w \in Workers, RegisterWorker(w) PROVE RegistryInv'
<1> DEFINE r == [status |-> "online", load |-> 0, seen |-> "fresh"]
<1>1. r \in Rows /\ r.status # "none"
  BY DEF Rows, Loads
<1>2. SaveWorker(w, r) /\ UNCHANGED <<job, beat, evict, rr>>
  BY DEF RegisterWorker
<1> HIDE DEF r
<1>3. row' \in [Workers -> Rows] /\ StaysKnown
  BY <1>1, <1>2, Upsert
<1>4. proc' \in [Workers -> {"up", "down"}]
  BY DEF RegisterWorker, RegistryInv, TypeOK
<1> QED
  BY <1>2, <1>3, <1>4 DEF RegistryInv, TypeOK, KnownWorker, StaysKnown

Beats == [pc : {"none", "sent", "read"}, load : Loads, seen : {"fresh", "stale"}]

(* Heartbeat: what travels is a count of running tasks, what is written is an   *)
(* online row.                                                              *)
LEMMA HeartbeatKeeps ==
  ASSUME RegistryInv, NEW w \in Workers, Heartbeat(w) PROVE RegistryInv'
<1>1. beat \in [Workers -> Beats] /\ beat[w] \in Beats
  BY DEF RegistryInv, TypeOK, Beats
<1>2. NoBeat \in Beats
  BY DEF NoBeat, Beats, Loads
<1>3. UNCHANGED <<proc, job, evict, rr>>
  BY DEF Heartbeat, HeartbeatSend, HeartbeatRead, HeartbeatWrite
<1>4. CASE HeartbeatSend(w)
  <2>1. RunningTasks(w) \in Nat
    BY RegistryParameters, FS_Subset, FS_CardinalityType DEF RunningTasks, On
  <2>2. [pc |-> "sent", load |-> RunningTasks(w), seen |-> "fresh"] \in Beats
    BY <2>1 DEF Beats, Loads
  <2>3. beat' \in [Workers -> Beats] /\ row' = row
    BY <1>1, <1>4, <2>2 DEF HeartbeatSend
  <2> QED
    BY <1>3, <2>3 DEF RegistryInv, TypeOK, KnownWorker, Beats
<1>5. CASE HeartbeatRead(w)
  <2>1. beat' \in [Workers -> Beats] /\ row' = row
    BY <1>1, <1>2, <1>5 DEF HeartbeatRead, Beats
  <2> QED
    BY <1>3, <2>1 DEF RegistryInv, TypeOK, KnownWorker, Beats
<1>6. CASE HeartbeatWrite(w)
  <2>1. beat' \in [Workers -> Beats]
    BY <1>1, <1>2, <1>6 DEF HeartbeatWrite
  <2>2. BeatRow(w) \in Rows /\ BeatRow(w).status # "none"
    BY <1>1 DEF BeatRow, Beats, Rows
  <2>3. row' \in [Workers -> Rows] /\ StaysKnown
    BY <1>6, <2>2, Upsert DEF HeartbeatWrite, StaysKnown, RegistryInv, TypeOK
  <2> QED
    BY <1>3, <2>1, <2>3 DEF RegistryInv, TypeOK, KnownWorker, StaysKnown, Beats
<1> QED
  BY <1>4, <1>5, <1>6 DEF Heartbeat

(* EvictStaleWorkers: it writes offline rows of workers that were online.  *)
LEMMA CheckerKeeps == ASSUME RegistryInv, Checker PROVE RegistryInv'
<1>1. UNCHANGED <<proc, job, beat, rr>>
  BY Zenon DEF Checker, EvictList, EvictWrite
<1>2. CASE EvictList
  <2>1. evict' \in [Workers -> {"none", "fresh", "stale"}] /\ row' = row
    BY <1>2 DEF EvictList, RegistryInv, TypeOK, Rows
  <2> QED
    BY <1>1, <2>1 DEF RegistryInv, TypeOK, KnownWorker
<1>3. ASSUME NEW w \in Workers, EvictWrite(w) PROVE RegistryInv'
  <2>1. evict' \in [Workers -> {"none", "fresh", "stale"}]
    BY <1>3 DEF EvictWrite, RegistryInv, TypeOK
  <2> DEFINE r == [status |-> "offline", load |-> 0, seen |-> evict[w]]
  <2>2. r \in Rows /\ r.status # "none"
    BY <1>3 DEF EvictWrite, Evicting, RegistryInv, TypeOK, Rows, Loads
  <2>3. SaveWorker(w, r) \/ UNCHANGED row
    BY <1>3 DEF EvictWrite
  <2> HIDE DEF r
  <2>4. row' \in [Workers -> Rows] /\ StaysKnown
    BY <2>2, <2>3, Upsert DEF StaysKnown, RegistryInv, TypeOK
  <2> QED
    BY <1>1, <2>1, <2>4 DEF RegistryInv, TypeOK, KnownWorker, StaysKnown
<1> QED
  BY <1>2, <1>3 DEF Checker

(* The heartbeat timeout makes rows and copies old, nothing else.          *)
LEMMA TimeKeeps == ASSUME RegistryInv, TimePasses PROVE RegistryInv'
<1>1. \A r \in Rows : Old(r) \in Rows /\ Old(r).status = r.status
  BY DEF Old, Rows
<1>2. row' \in [Workers -> Rows] /\ \A w \in Workers : row'[w].status = row[w].status
  BY <1>1 DEF TimePasses, RegistryInv, TypeOK
<1>3. \A j \in Jobs : /\ job'[j] \in JobType
                      /\ job'[j].pc = job[j].pc /\ job'[j].w = job[j].w
                      /\ job'[j].copy.status = job[j].copy.status
  BY <1>1 DEF TimePasses, RegistryInv, TypeOK, JobType
<1>4. job' \in [Jobs -> JobType]
  BY <1>3 DEF TimePasses
<1>5. beat' \in [Workers -> Beats]
  BY Zenon DEF TimePasses, RegistryInv, TypeOK, Beats
<1>6. evict' \in [Workers -> {"none", "fresh", "stale"}] /\ UNCHANGED <<proc, rr>>
  BY DEF TimePasses
<1>7. TypeOK'
  BY <1>2, <1>4, <1>5, <1>6 DEF RegistryInv, TypeOK, JobType, Beats
<1>8. KnownWorker'
  BY <1>2, <1>3 DEF RegistryInv, KnownWorker
<1> QED
  BY <1>7, <1>8 DEF RegistryInv

(* Crashes drop jobs, or leave a report that is being handled behind.      *)
LEMMA CrashKeeps ==
  ASSUME RegistryInv, SchedulerCrash \/ \E w \in Workers : WorkerCrash(w)
  PROVE  RegistryInv'
<1>1. [NoJob EXCEPT !.pc = "gone"] \in JobType /\ [NoJob EXCEPT !.pc = "gone"].pc = "gone"
  BY DEF NoJob, JobType, JobPCs, NoRow, Rows, Loads
<1>2. job \in [Jobs -> JobType]
  BY DEF RegistryInv, TypeOK, JobType
<1>3. CASE SchedulerCrash
  <2>1. job' \in [Jobs -> JobType] /\ \A j \in Jobs : job'[j] = job[j] \/ job'[j].pc = "gone"
    BY <1>1, <1>2, <1>3 DEF SchedulerCrash
  <2>2. beat' \in [Workers -> Beats]
    BY <1>3 DEF SchedulerCrash, NoBeat, Beats, Loads
  <2>3. /\ evict' \in [Workers -> {"none", "fresh", "stale"}] /\ rr' \in Nat
        /\ UNCHANGED <<row, proc>>
    BY <1>3 DEF SchedulerCrash
  <2>4. TypeOK'
    BY <2>1, <2>2, <2>3 DEF RegistryInv, TypeOK, JobType, Beats
  <2>5. KnownWorker'
    BY <2>1, <2>3 DEF RegistryInv, KnownWorker, Held
  <2> QED
    BY <2>4, <2>5 DEF RegistryInv
<1>4. ASSUME NEW w \in Workers, WorkerCrash(w) PROVE RegistryInv'
  <2>1. \A j \in Jobs : /\ [job[j] EXCEPT !.pc = "late"] \in JobType
                        /\ [job[j] EXCEPT !.pc = "owing"] \in JobType
    BY <1>2 DEF JobType, JobPCs
  <2>2. PICK ended \in SUBSET On(w) :
           job' = [j \in Jobs |->
                     IF j \notin On(w) THEN job[j]
                     ELSE IF job[j].pc = "report" THEN [job[j] EXCEPT !.pc = "late"]
                     ELSE IF j \in ended THEN [job[j] EXCEPT !.pc = "owing"]
                     ELSE [NoJob EXCEPT !.pc = "gone"]]
    BY <1>4, Zenon DEF WorkerCrash
  <2>3. job' \in [Jobs -> JobType]
    BY <1>1, <1>2, <2>1, <2>2
  <2>4. \A j \in Jobs : \/ job'[j] = job[j] \/ job'[j].pc = "gone"
                        \/ /\ job[j].pc = "report" /\ job'[j].pc = "late"
                           /\ job'[j].w = job[j].w /\ job'[j].copy = job[j].copy
                        \/ /\ job[j].pc = "running" /\ job'[j].pc = "owing"
                           /\ job'[j].w = job[j].w
    BY <1>1, <1>2, <2>2 DEF On, JobType
  <2>5. proc' \in [Workers -> {"up", "down"}] /\ UNCHANGED <<row, beat, evict, rr>>
    BY <1>4 DEF WorkerCrash, RegistryInv, TypeOK
  <2>6. TypeOK'
    BY <2>3, <2>5 DEF RegistryInv, TypeOK, JobType
  <2>7. KnownWorker'
    BY <2>4, <2>5 DEF RegistryInv, KnownWorker, Held, Copied
  <2> QED
    BY <2>6, <2>7 DEF RegistryInv
<1> QED
  BY <1>3, <1>4

(* The invariant holds in every reachable state of the registry.           *)
LEMMA RegistryAlways == Spec => []RegistryInv
<1>1. RegistryInv /\ [Next]_vars => RegistryInv'
  <2> SUFFICES ASSUME RegistryInv, [Next]_vars PROVE RegistryInv'
    OBVIOUS
  <2>1. CASE UNCHANGED vars
    BY <2>1 DEF vars, RegistryInv, TypeOK, KnownWorker
  <2>2. ASSUME NEW j \in Jobs, Job(j) \/ LateReport(j) PROVE RegistryInv'
    BY <2>2, PickListKeeps, PickWriteKeeps, LastWrite, Moves DEF Job
  <2>3. ASSUME NEW w \in Workers, RegisterWorker(w) \/ Heartbeat(w) PROVE RegistryInv'
    BY <2>3, RegisterKeeps, HeartbeatKeeps
  <2> QED
    BY <2>1, <2>2, <2>3, CheckerKeeps, TimeKeeps, CrashKeeps DEF Next
<1> QED
  BY <1>1, InitRegistry, PTL DEF Spec

(* The types of the registry, for any number of workers and jobs.          *)
THEOREM RegistryTypes == Spec => []TypeOK
  BY RegistryAlways, PTL DEF RegistryInv

--------------------------------------------------------------------------------
OfflineKept ==
    \A w \in Workers :
       /\ proc[w] = "down" /\ row[w].status = "offline" /\ ~OnlineCopy(w)
       => row'[w].status = "offline" \/ RegisterWorker(w)

(* A goroutine that writes its copy of another worker, or a copy that is not   *)
(* online, brings nobody back.                                              *)
LEMMA OfflineWrite ==
  ASSUME RegistryInv, NEW w \in Workers, row[w].status = "offline",
         NEW v \in Workers, NEW r \in Rows, SaveWorker(v, r),
         v = w => r.status = "offline"
  PROVE  row'[w].status = "offline"
  BY DEF SaveWorker, RegistryInv, TypeOK

(* Pick, Release and ReportStatus: without an online copy of the row of w, none  *)
(* of them writes an online row for w.                                       *)
LEMMA OfflineJob ==
  ASSUME RegistryInv, NEW w \in Workers, row[w].status = "offline", ~OnlineCopy(w),
         NEW j \in Jobs, Job(j)
  PROVE  row'[w].status = "offline"
<1>1. CASE row' = row
  BY <1>1
<1>2. CASE job[j].pc \in Copied
           /\ SaveWorker(job[j].w, [job[j].copy EXCEPT !.load = @ + 1])
  <2>1. job[j].w \in Workers /\ job[j].copy \in Rows /\ job[j].copy.status # "none"
    BY <1>2 DEF RegistryInv, TypeOK, KnownWorker, Held, Copied
  <2>2. job[j].w = w => job[j].copy.status = "offline"
    BY <2>1 DEF OnlineCopy, Rows
  <2> DEFINE r == [job[j].copy EXCEPT !.load = @ + 1]
  <2>3. r \in Rows /\ r.status = job[j].copy.status
    BY <2>1 DEF Rows, Loads
  <2>4. SaveWorker(job[j].w, r)
    BY <1>2
  <2> HIDE DEF r
  <2> QED
    BY <2>1, <2>2, <2>3, <2>4, OfflineWrite
<1>3. CASE job[j].pc \in Copied /\ SaveWorker(job[j].w, Fewer(job[j].copy))
  <2>1. job[j].w \in Workers /\ job[j].copy \in Rows /\ job[j].copy.status # "none"
    BY <1>3 DEF RegistryInv, TypeOK, KnownWorker, Held, Copied
  <2>2. job[j].w = w => job[j].copy.status = "offline"
    BY <2>1 DEF OnlineCopy, Rows
  <2>3. Fewer(job[j].copy) \in Rows /\ Fewer(job[j].copy).status = job[j].copy.status
    BY <2>1, FewerType
  <2> QED
    BY <1>3, <2>1, <2>2, <2>3, OfflineWrite
<1>4. CASE PickList(j) \/ PickNone(j) \/ Dispatch(j) \/ ReportRead(j)
  BY <1>1, <1>4 DEF PickList, PickNone, Dispatch, ReportRead
<1>5. CASE PickWrite(j)
  BY <1>1, <1>2, <1>5 DEF PickWrite, Copied, Held
<1>6. CASE Release(j) \/ ReportWrite(j)
  BY <1>1, <1>3, <1>6 DEF Release, ReportWrite, Copied, Held
<1> QED
  BY <1>4, <1>5, <1>6 DEF Job

(* The other writers: a heartbeat of w would be an online copy, the checker    *)
(* writes offline rows, and the registration of another worker is another row.  *)
LEMMA OfflineOthers ==
  ASSUME RegistryInv, [Next]_vars, NEW w \in Workers, row[w].status = "offline",
         ~OnlineCopy(w), ~ \E j \in Jobs : Job(j)
  PROVE  row'[w].status = "offline" \/ RegisterWorker(w)
<1>1. CASE row' = row
  BY <1>1
<1>2. ASSUME NEW v \in Workers, RegisterWorker(v)
      PROVE  row'[w].status = "offline" \/ RegisterWorker(w)
  BY <1>2, Zenon DEF RegisterWorker, SaveWorker, RegistryInv, TypeOK
<1>3. ASSUME NEW v \in Workers, HeartbeatWrite(v) PROVE row'[w].status = "offline"
  <2>1. v # w
    BY <1>3 DEF HeartbeatWrite, OnlineCopy
  <2> QED
    BY <1>3, <2>1 DEF HeartbeatWrite, SaveWorker, RegistryInv, TypeOK
<1>4. ASSUME NEW v \in Workers, EvictWrite(v) PROVE row'[w].status = "offline"
  BY <1>4 DEF EvictWrite, SaveWorker, RegistryInv, TypeOK
<1>5. CASE TimePasses
  <2>1. row'[w] = Old(row[w]) /\ row[w] \in Rows
    BY <1>5 DEF TimePasses, RegistryInv, TypeOK
  <2> QED
    BY <2>1 DEF Old, Rows
<1>6. (\E j \in Jobs : LateReport(j)) \/ (\E v \in Workers : WorkerCrash(v)) \/ SchedulerCrash
      => row' = row
  BY Zenon DEF LateReport, WorkerCrash, SchedulerCrash
<1>7. \/ row' = row \/ TimePasses
      \/ \E v \in Workers : RegisterWorker(v) \/ HeartbeatWrite(v) \/ EvictWrite(v)
  BY <1>6, Zenon DEF Next, vars, Heartbeat, HeartbeatSend, HeartbeatRead, Checker, EvictList
<1> QED
  BY <1>1, <1>2, <1>3, <1>4, <1>5, <1>7

(* EvictStaleWorkers against the goroutines of Pick, Release and ReportStatus,   *)
(* for any number of them: an evicted worker that is gone comes back online    *)
(* only through a copy of its row read before, or by registering.             *)
THEOREM GoneStays == Spec => GoneStaysOffline
<1>1. RegistryInv /\ [Next]_vars => [OfflineKept]_vars
  BY OfflineJob, OfflineOthers DEF OfflineKept
<1> QED
  BY <1>1, RegistryAlways, PTL DEF Spec, GoneStaysOffline, OfflineKept

--------------------------------------------------------------------------------
(* The event handler.                                                      *)

(* An element that is not there yet makes a finite set larger by one.       *)
LEMMA OneMore ==
  ASSUME NEW S, IsFiniteSet(S), NEW e, e \notin S
  PROVE  IsFiniteSet(S \cup {e}) /\ Cardinality(S \cup {e}) = Cardinality(S) + 1
BY FS_AddElement


AnyShard == UNION {Shards(t) : t \in EventTasks}

Requests == [pc : {"idle", "next", "pick", "send", "done"},
             todo : SUBSET (EventTasks \X AnyShard),
             at : (EventTasks \X AnyShard) \cup {Nothing},
             id : ScheduleIDs \cup {Nothing},
             triggered : Nat]

PublishTypeOK == /\ table \in [ScheduleIDs -> {"none", "pending", "dispatched"}]
                 /\ pub \in [Publishers -> Requests]
                 /\ clock \in 0 .. MaxClock

Holds(x) == pub[x].pc \in {"pick", "send"}

(* Publish between the insert of a row and the end of its dispatch: the     *)
(* request alone has the row, which no worker has been sent yet.            *)
OwnRow == \A x \in Publishers :
             Holds(x) => /\ pub[x].id \in ScheduleIDs
                         /\ table[pub[x].id] # "none"
                         /\ \A d \in sent : d[4] # pub[x].id
                         /\ \A y \in Publishers \ {x} : Holds(y) => pub[y].id # pub[x].id

SentRows == \A d \in sent : d[4] \in ScheduleIDs /\ table[d[4]] # "none"

SentOnce == \A d, e \in sent : d[4] = e[4] => d = e

PublishInv == PublishTypeOK /\ OwnRow /\ SentRows /\ SentOnce

--------------------------------------------------------------------------------
(* Publish starts with no request under way and an empty table.            *)
LEMMA InitPublish == ASSUME PublishInit PROVE PublishInv
<1>1. NoRequest \in Requests
  BY DEF NoRequest, Requests
<1>2. PublishTypeOK
  BY <1>1, CoordinationParameters DEF PublishInit, PublishTypeOK
<1>3. OwnRow /\ SentRows /\ SentOnce
  BY DEF PublishInit, OwnRow, Holds, NoRequest, SentRows, SentOnce
<1> QED
  BY <1>2, <1>3 DEF PublishInv

(* A request that goes on to the next shard, counting it or not, lets go of    *)
(* its row.                                                                 *)
LEMMA Continues ==
  ASSUME PublishInv, NEW x \in Publishers, NEW n \in 0 .. 1, Continue(x, n)
  PROVE  /\ pub' \in [Publishers -> Requests]
         /\ ~Holds(x)'
         /\ \A y \in Publishers \ {x} : pub'[y] = pub[y]
<1>1. pub[x] \in Requests
  BY DEF PublishInv, PublishTypeOK
<1> DEFINE count == pub[x].triggered + n
<1>2. count \in Nat
  BY <1>1 DEF Requests
<1>3. pub' = [pub EXCEPT ![x].pc = "next", ![x].at = Nothing, ![x].id = Nothing,
                         ![x].triggered = count]
  BY DEF Continue
<1> HIDE DEF count
<1>4. pub' \in [Publishers -> Requests]
  BY <1>1, <1>2, <1>3, Zenon DEF PublishInv, PublishTypeOK, Requests
<1>5. pub'[x].pc = "next"
  BY <1>1, <1>3 DEF PublishInv, PublishTypeOK, Continue, Requests
<1> QED
  BY <1>4, <1>5 DEF PublishInv, PublishTypeOK, Continue, Holds

(* generateScheduleInstanceID gives an id that the table has a place for.  *)
LEMMA FreshID ==
  ASSUME PublishInv, NEW t \in EventTasks, MaxClock \in Nat
  PROVE  generateScheduleInstanceID(t) \in ScheduleIDs
  BY DEF PublishInv, PublishTypeOK, generateScheduleInstanceID, ScheduleIDs

(* ListTasks: a request that reads its list holds no row.                  *)
LEMMA ListKeeps == ASSUME PublishInv, NEW x \in Publishers, List(x) PROVE PublishInv'
<1>1. pub[x] \in Requests
  BY DEF PublishInv, PublishTypeOK
<1>2. PICK enabled \in SUBSET EventTasks :
         pub' = [pub EXCEPT ![x].pc = "next",
                            ![x].todo = UNION {{t} \X Shards(t) : t \in enabled}]
  BY Zenon DEF List
<1>3. UNION {{t} \X Shards(t) : t \in enabled} \in SUBSET (EventTasks \X AnyShard)
  BY DEF AnyShard
<1>4. pub' \in [Publishers -> Requests]
  BY <1>1, <1>2, <1>3, Zenon DEF PublishInv, PublishTypeOK, Requests
<1>5. ~Holds(x)' /\ \A y \in Publishers \ {x} : pub'[y] = pub[y]
  BY <1>1, <1>2 DEF PublishInv, PublishTypeOK, Requests, Holds
<1> QED
  BY <1>4, <1>5 DEF List, PublishInv, PublishTypeOK, OwnRow, SentRows, SentOnce, Holds

(* CreateInstance: the id of a new row is in nobody's hands, as every held or    *)
(* sent id has its row already.                                             *)
LEMMA CreateKeeps ==
  ASSUME MaxClock \in Nat, PublishInv, NEW x \in Publishers, CreateShard(x)
  PROVE  PublishInv'
<1>1. pub[x] \in Requests /\ pub[x].pc = "next"
  BY DEF PublishInv, PublishTypeOK, CreateShard
<1>2. PICK a \in pub[x].todo :
         LET k == generateScheduleInstanceID(a[1]) IN
         \/ /\ table[k] = "none"
            /\ table' = [table EXCEPT ![k] = "pending"]
            /\ pub' = [pub EXCEPT ![x].todo = @ \ {a}, ![x].pc = "pick",
                                  ![x].at = a, ![x].id = k]
         \/ /\ pub' = [pub EXCEPT ![x].todo = @ \ {a}]
            /\ UNCHANGED table
  BY Zenon DEF CreateShard
<1> DEFINE k == generateScheduleInstanceID(a[1])
<1>3. a \in EventTasks \X AnyShard /\ a[1] \in EventTasks
  BY <1>1 DEF Requests
<1>4. k \in ScheduleIDs
  BY <1>3, FreshID
<1> HIDE DEF k
<1>5. UNCHANGED <<sent, clock>>
  BY DEF CreateShard
<1>6. CASE /\ table[k] = "none"
           /\ table' = [table EXCEPT ![k] = "pending"]
           /\ pub' = [pub EXCEPT ![x].todo = @ \ {a}, ![x].pc = "pick", ![x].at = a, ![x].id = k]
  <2>1. PublishTypeOK'
    <3>1. pub' \in [Publishers -> Requests]
      BY <1>1, <1>3, <1>4, <1>6 DEF PublishInv, PublishTypeOK, Requests
    <3> QED
      BY <3>1, <1>4, <1>5, <1>6 DEF PublishInv, PublishTypeOK
  <2>2. /\ pub'[x].id = k /\ pub'[x].pc = "pick"
        /\ \A y \in Publishers \ {x} : pub'[y] = pub[y]
    BY <1>1, <1>6 DEF PublishInv, PublishTypeOK, Requests
  <2>3. \A i \in ScheduleIDs : table[i] # "none" => i # k /\ table'[i] = table[i]
    BY <1>6 DEF PublishInv, PublishTypeOK
  <2>4. table'[k] # "none"
    BY <1>4, <1>6 DEF PublishInv, PublishTypeOK
  <2>5. OwnRow'
    BY <1>4, <1>5, <2>2, <2>3, <2>4 DEF PublishInv, OwnRow, SentRows, Holds
  <2>6. SentRows' /\ SentOnce'
    BY <1>5, <2>3 DEF PublishInv, SentRows, SentOnce
  <2> QED
    BY <2>1, <2>5, <2>6 DEF PublishInv
<1>7. CASE pub' = [pub EXCEPT ![x].todo = @ \ {a}] /\ UNCHANGED table
  <2>1. pub' \in [Publishers -> Requests]
    BY <1>1, <1>7 DEF PublishInv, PublishTypeOK, Requests
  <2>2. ~Holds(x)' /\ \A y \in Publishers \ {x} : pub'[y] = pub[y]
    BY <1>1, <1>7 DEF PublishInv, PublishTypeOK, Requests, Holds
  <2> QED
    BY <1>5, <1>7, <2>1, <2>2
    DEF PublishInv, PublishTypeOK, OwnRow, SentRows, SentOnce, Holds
<1> QED
  BY <1>2, <1>6, <1>7, Zenon DEF k

(* Pick and UpdateInstanceDispatch: the row stays, and stays with its request   *)
(* unless the shard is given up.                                             *)
LEMMA AssignKeeps == ASSUME PublishInv, NEW x \in Publishers, Assign(x) PROVE PublishInv'
<1>1. pub[x] \in Requests /\ Holds(x) /\ pub[x].id \in ScheduleIDs
  BY DEF PublishInv, PublishTypeOK, OwnRow, Assign, Holds
<1>2. UNCHANGED <<sent, clock>>
  BY DEF Assign
<1>3. CASE pub' = [pub EXCEPT ![x].pc = "send"]
           /\ (table' = [table EXCEPT ![pub[x].id] = "dispatched"] \/ UNCHANGED table)
  <2>1. pub' \in [Publishers -> Requests]
    BY <1>1, <1>3 DEF PublishInv, PublishTypeOK, Requests
  <2>2. \A y \in Publishers : pub'[y].id = pub[y].id /\ (Holds(y)' <=> Holds(y))
    BY <1>1, <1>3 DEF PublishInv, PublishTypeOK, Requests, Holds
  <2>3. table' \in [ScheduleIDs -> {"none", "pending", "dispatched"}]
    BY <1>1, <1>3 DEF PublishInv, PublishTypeOK
  <2>4. \A i \in ScheduleIDs : table[i] # "none" => table'[i] # "none"
    BY <1>1, <1>3 DEF PublishInv, PublishTypeOK
  <2>5. PublishTypeOK'
    BY <1>2, <2>1, <2>3 DEF PublishInv, PublishTypeOK
  <2>6. OwnRow'
    BY <1>2, <2>2, <2>4 DEF PublishInv, OwnRow
  <2>7. SentRows' /\ SentOnce'
    BY <1>2, <2>4 DEF PublishInv, SentRows, SentOnce
  <2> QED
    BY <2>5, <2>6, <2>7 DEF PublishInv
<1>4. CASE Continue(x, 0) /\ UNCHANGED table
  <2>1. /\ pub' \in [Publishers -> Requests]
        /\ ~Holds(x)'
        /\ \A y \in Publishers \ {x} : pub'[y] = pub[y]
    BY <1>4, Continues
  <2>2. PublishTypeOK'
    BY <1>2, <1>4, <2>1 DEF PublishInv, PublishTypeOK
  <2>3. OwnRow'
    BY <1>2, <1>4, <2>1 DEF PublishInv, OwnRow, Holds
  <2>4. SentRows' /\ SentOnce'
    BY <1>2, <1>4 DEF PublishInv, SentRows, SentOnce
  <2> QED
    BY <2>2, <2>3, <2>4 DEF PublishInv
<1> QED
  BY <1>3, <1>4 DEF Assign

(* Dispatch: what is sent is the row the request had to itself, and it lets    *)
(* go of it whether the call succeeded or not.                              *)
LEMMA DispatchKeeps == ASSUME PublishInv, NEW x \in Publishers, DispatchShard(x) PROVE PublishInv'
<1> DEFINE new == <<x, pub[x].at[1], pub[x].at[2], pub[x].id>>
<1>1. /\ Holds(x) /\ pub[x].id \in ScheduleIDs /\ table[pub[x].id] # "none"
      /\ new[4] = pub[x].id
      /\ \A d \in sent : d[4] # pub[x].id
      /\ \A y \in Publishers \ {x} : Holds(y) => pub[y].id # pub[x].id
  BY DEF PublishInv, OwnRow, DispatchShard, Holds
<1>2. UNCHANGED <<table, clock>> /\ (sent' = sent \cup {new} \/ sent' = sent)
  BY DEF DispatchShard
<1> HIDE DEF new
<1>3. Continue(x, 1) \/ Continue(x, 0)
  BY DEF DispatchShard
<1>4. /\ pub' \in [Publishers -> Requests]
      /\ ~Holds(x)'
      /\ \A y \in Publishers \ {x} : pub'[y] = pub[y]
  BY <1>3, Continues
<1>5. PublishTypeOK'
  BY <1>2, <1>4 DEF PublishInv, PublishTypeOK
<1>6. OwnRow'
  BY <1>1, <1>2, <1>4 DEF PublishInv, OwnRow, Holds
<1>7. SentRows' /\ SentOnce'
  BY <1>1, <1>2 DEF PublishInv, SentRows, SentOnce
<1> QED
  BY <1>5, <1>6, <1>7 DEF PublishInv

(* The answer and the clock touch no row.                                  *)
LEMMA RestKeeps ==
  ASSUME MaxClock \in Nat, PublishInv, ClockTick \/ \E x \in Publishers : Answer(x)
  PROVE  PublishInv'
<1>1. CASE ClockTick
  BY <1>1 DEF ClockTick, PublishInv, PublishTypeOK, OwnRow, SentRows, SentOnce, Holds
<1>2. ASSUME NEW x \in Publishers, Answer(x) PROVE PublishInv'
  <2>1. pub[x] \in Requests
    BY DEF PublishInv, PublishTypeOK
  <2>2. pub' \in [Publishers -> Requests]
    BY <1>2, <2>1 DEF Answer, PublishInv, PublishTypeOK, Requests
  <2>3. ~Holds(x)' /\ \A y \in Publishers \ {x} : pub'[y] = pub[y]
    BY <1>2, <2>1 DEF Answer, PublishInv, PublishTypeOK, Requests, Holds
  <2> QED
    BY <1>2, <2>2, <2>3 DEF Answer, PublishInv, PublishTypeOK, OwnRow, SentRows, SentOnce, Holds
<1> QED
  BY <1>1, <1>2

(* Publish: the invariant holds in every reachable state.                  *)
LEMMA PublishAlways == PublishSpec => []PublishInv
<1>1. PublishInit => PublishInv
  BY InitPublish
<1>2. PublishInv /\ [PublishNext]_publishVars => PublishInv'
  <2> SUFFICES ASSUME PublishInv, [PublishNext]_publishVars PROVE PublishInv'
    OBVIOUS
  <2>1. CASE UNCHANGED publishVars
    BY <2>1 DEF publishVars, PublishInv, PublishTypeOK, OwnRow, SentRows, SentOnce, Holds
  <2>2. ASSUME NEW x \in Publishers, List(x) PROVE PublishInv'
    BY <2>2, ListKeeps
  <2>3. ASSUME NEW x \in Publishers, CreateShard(x) PROVE PublishInv'
    BY <2>3, CreateKeeps, CoordinationParameters
  <2>4. ASSUME NEW x \in Publishers, Assign(x) PROVE PublishInv'
    BY <2>4, AssignKeeps
  <2>5. ASSUME NEW x \in Publishers, DispatchShard(x) PROVE PublishInv'
    BY <2>5, DispatchKeeps
  <2>6. CASE ClockTick \/ \E x \in Publishers : Answer(x)
    BY <2>6, RestKeeps, CoordinationParameters
  <2> QED
    BY <2>1, <2>2, <2>3, <2>4, <2>5, <2>6 DEF PublishNext
<1> QED
  BY <1>1, <1>2, PTL DEF PublishSpec

(* Publish, however many requests run at once and whatever fails: no two     *)
(* dispatched shards share a schedule id, and each has its row.             *)
LEMMA DispatchedApart == PublishSpec => []ShardsApart
<1>1. PublishInv => ShardsApart
  BY DEF PublishInv, SentOnce, SentRows, ShardsApart
<1> QED
  BY <1>1, PublishAlways, PTL

--------------------------------------------------------------------------------
(* The schedule ids that reached a worker for a request.                   *)
Got(x) == {d[4] : d \in {e \in sent : e[1] = x}}

CountInv == \A x \in Publishers : /\ IsFiniteSet(Got(x))
                                  /\ pub[x].triggered <= Cardinality(Got(x))

(* Dispatch is the only step that sends or counts: the id it sends is new to    *)
(* the request, so counting it once keeps the count below the ids sent.      *)
LEMMA DispatchCounts ==
  ASSUME PublishInv, CountInv, NEW x \in Publishers, DispatchShard(x)
  PROVE  CountInv'
<1>1. pub[x] \in Requests /\ pub[x].triggered \in Nat
  BY DEF PublishInv, PublishTypeOK, Requests
<1>2. /\ pub'[x].triggered \in {pub[x].triggered, pub[x].triggered + 1}
      /\ \A y \in Publishers \ {x} : pub'[y] = pub[y]
  BY <1>1 DEF DispatchShard, Continue, PublishInv, PublishTypeOK, Requests
<1>3. \A d \in sent : d[4] # pub[x].id
  BY DEF PublishInv, OwnRow, DispatchShard, Holds
<1>4. IsFiniteSet(Got(x)) /\ Cardinality(Got(x)) \in Nat
      /\ pub[x].triggered <= Cardinality(Got(x))
  BY FS_CardinalityType DEF CountInv
<1>5. CASE sent' = sent \cup {<<x, pub[x].at[1], pub[x].at[2], pub[x].id>>}
  <2> DEFINE new == <<x, pub[x].at[1], pub[x].at[2], pub[x].id>>
  <2>1. new[1] = x /\ new[4] = pub[x].id /\ sent' = sent \cup {new}
    BY <1>5
  <2> HIDE DEF new
  <2>2. Got(x)' = Got(x) \cup {pub[x].id} /\ pub[x].id \notin Got(x)
    BY <1>3, <2>1 DEF Got
  <2>3. IsFiniteSet(Got(x)') /\ Cardinality(Got(x)') = Cardinality(Got(x)) + 1
    BY <1>4, <2>2, OneMore
  <2>4. \A y \in Publishers \ {x} : Got(y)' = Got(y)
    BY <2>1 DEF Got
  <2> QED
    BY <1>1, <1>2, <1>4, <2>3, <2>4 DEF CountInv
<1>6. CASE sent' = sent /\ Continue(x, 0)
  <2>1. pub'[x].triggered = pub[x].triggered
    BY <1>1, <1>6 DEF Continue, PublishInv, PublishTypeOK, Requests
  <2>2. \A y \in Publishers : Got(y)' = Got(y)
    BY <1>6 DEF Got
  <2> QED
    BY <1>2, <2>1, <2>2 DEF CountInv
<1> QED
  BY <1>5, <1>6 DEF DispatchShard

(* The other steps send and count nothing.                                 *)
LEMMA OthersCount ==
  ASSUME PublishInv, CountInv, NEW x \in Publishers,
         List(x) \/ CreateShard(x) \/ Assign(x) \/ Answer(x)
  PROVE  CountInv'
<1>1. pub[x] \in Requests
  BY DEF PublishInv, PublishTypeOK
<1>2. sent' = sent
  BY Zenon DEF List, CreateShard, Assign, Answer
<1>3. \A y \in Publishers : pub'[y].triggered = pub[y].triggered
  <2>1. CASE List(x)
    <3>1. \E todo : pub' = [pub EXCEPT ![x].pc = "next", ![x].todo = todo]
      BY <2>1 DEF List
    <3> QED
      BY <1>1, <3>1 DEF PublishInv, PublishTypeOK, Requests
  <2>2. CASE CreateShard(x)
    <3>1. \E todo, a, k :
             \/ pub' = [pub EXCEPT ![x].todo = todo, ![x].pc = "pick", ![x].at = a, ![x].id = k]
             \/ pub' = [pub EXCEPT ![x].todo = todo]
      <4>1. PICK a \in pub[x].todo :
               LET k == generateScheduleInstanceID(a[1]) IN
               \/ pub' = [pub EXCEPT ![x].todo = @ \ {a}, ![x].pc = "pick",
                                     ![x].at = a, ![x].id = k]
               \/ pub' = [pub EXCEPT ![x].todo = @ \ {a}]
        BY <2>2, Zenon DEF CreateShard
      <4> QED
        BY <4>1, Zenon
    <3> QED
      BY <1>1, <3>1 DEF PublishInv, PublishTypeOK, Requests
  <2>3. CASE Assign(x)
    BY <1>1, <2>3 DEF Assign, Continue, PublishInv, PublishTypeOK, Requests
  <2>4. CASE Answer(x)
    BY <1>1, <2>4 DEF Answer, PublishInv, PublishTypeOK, Requests
  <2> QED
    BY <2>1, <2>2, <2>3, <2>4
<1> QED
  BY <1>2, <1>3 DEF CountInv, Got

(* Publish: the number in the answer is never more than the ids that the     *)
(* workers got from this request, whatever failed in between.               *)
LEMMA CountedDelivered == PublishSpec => []TriggeredDelivered
<1>1. PublishInit => CountInv
  <2> SUFFICES ASSUME PublishInit PROVE CountInv
    OBVIOUS
  <2>1. \A x \in Publishers : Got(x) = {} /\ pub[x].triggered = 0
    BY DEF PublishInit, Got, NoRequest
  <2> QED
    BY <2>1, FS_EmptySet DEF CountInv
<1>2. PublishInv /\ CountInv /\ [PublishNext]_publishVars => CountInv'
  <2> SUFFICES ASSUME PublishInv, CountInv, [PublishNext]_publishVars PROVE CountInv'
    OBVIOUS
  <2>1. CASE UNCHANGED publishVars
    BY <2>1 DEF publishVars, CountInv, Got
  <2>2. CASE ClockTick
    BY <2>2 DEF ClockTick, CountInv, Got
  <2>3. ASSUME NEW x \in Publishers, DispatchShard(x) PROVE CountInv'
    BY <2>3, DispatchCounts
  <2>4. ASSUME NEW x \in Publishers, List(x) \/ CreateShard(x) \/ Assign(x) \/ Answer(x)
        PROVE  CountInv'
    BY <2>4, OthersCount
  <2> QED
    BY <2>1, <2>2, <2>3, <2>4 DEF PublishNext
<1>3. CountInv => TriggeredDelivered
  BY DEF CountInv, Got, TriggeredDelivered
<1>4. PublishSpec => []PublishInv
  BY PublishAlways
<1> QED
  BY <1>1, <1>2, <1>3, <1>4, PTL DEF PublishSpec

(* Publish: concurrent events never dispatch two shards under one schedule    *)
(* id, and an answer counts no more instances than workers got, for any number  *)
(* of requests, tasks and shards and any failures.                           *)
THEOREM Delivered == PublishSpec => []EventsDelivered
BY DispatchedApart, CountedDelivered, PTL DEF EventsDelivered
================================================================================
