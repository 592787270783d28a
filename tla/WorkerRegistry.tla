----------------------------- MODULE WorkerRegistry -----------------------------
(***************************************************************************)
(* The worker_node table: who is online and how much it carries. Router     *)
(* reservations, status reports, heartbeats and the health checker all read *)
(* a row, change the copy and write the whole copy back (UpsertWorker), with *)
(* no transaction or version check between the read and the write.          *)
(***************************************************************************)
EXTENDS Naturals, FiniteSets, Sequences

CONSTANTS
    Workers,         \* worker ids
    NoWorker,
    MaxConcurrency,  \* max_concurrency of every worker
    Jobs,            \* dispatches that want a worker, a bound on the run
    Pickers,         \* goroutines that may be inside Pick .. Dispatch at once
    Eligible,        \* Eligible[j]: workers whose labels match the job's selector
    Strategy,        \* "round_robin" or "least_loaded"
    RRCycle,         \* bound on rrCounter: a multiple of every length of a listing
    Faults           \* a subset of AllFaults

AllFaults == {"dispatch_error", "db", "cancel", "heartbeat_loss", "worker_crash", "crash"}

ASSUME RegistryParameters ==
    /\ NoWorker \notin Workers
    /\ IsFiniteSet(Workers) /\ IsFiniteSet(Jobs)
    /\ MaxConcurrency \in Nat \ {0} /\ Pickers \in Nat \ {0}
    /\ Eligible \in [Jobs -> SUBSET Workers]
    /\ Strategy \in {"round_robin", "least_loaded"}
    /\ RRCycle \in Nat \ {0} /\ \A n \in 1 .. Cardinality(Workers) : RRCycle % n = 0
    /\ Faults \subseteq AllFaults

VARIABLES
    row,    \* worker_node table
    proc,   \* proc[w]: the worker process is "up" or "down"
    job,    \* the goroutine that places a job, runs it and takes its report
    beat,   \* beat[w]: the heartbeat of w on its way or being handled
    evict,  \* last_heartbeat_at in the health checker's copies still to be written
    rr      \* Router.rrCounter

vars == <<row, proc, job, beat, evict, rr>>

--------------------------------------------------------------------------------
(* Rows. last_heartbeat_at matters only as fresh or older than the timeout. *)

Loads == Nat

Rows == [status : {"none", "online", "offline"}, load : Loads, seen : {"fresh", "stale"}]

NoRow == [status |-> "none", load |-> 0, seen |-> "stale"]

SaveWorker(w, r) == row' = [row EXCEPT ![w] = r]

Fewer(r) == [r EXCEPT !.load = IF @ > 0 THEN @ - 1 ELSE @]

NoJob == [pc |-> "new", w |-> NoWorker, copy |-> NoRow]

JobPCs == {"new", "listed", "reserved", "release", "running", "report", "owing", "late",
           "gone"}

(* owing: the run ended before its worker died, and its report is in flight or   *)
(* in the local store. late: such a report is being handled.                *)
Over(j, pc) == job' = [job EXCEPT ![j] = [NoJob EXCEPT !.pc = pc]]

NoBeat == [pc |-> "none", load |-> 0, seen |-> "stale"]

On(w) == {j \in Jobs : job[j].w = w /\ job[j].pc \in {"running", "report"}}

(* Handler.running: the run() goroutines of the worker.                    *)
RunningTasks(w) == Cardinality(On(w))

Init == /\ row = [w \in Workers |-> NoRow]
        /\ proc = [w \in Workers |-> "down"]
        /\ job = [j \in Jobs |-> NoJob]
        /\ beat = [w \in Workers |-> NoBeat]
        /\ evict = [w \in Workers |-> "none"]
        /\ rr = 0

--------------------------------------------------------------------------------
(* Router.Pick: read, choose, write the copy back with one more.           *)

Picking == {j \in Jobs : job[j].pc \in {"listed", "reserved", "release"}}

ListAvailableWorkers == {w \in Workers : row[w].status = "online"
                                         /\ row[w].load < MaxConcurrency}

filterByLabels(S, j) == S \cap Eligible[j]

(* ORDER BY current_load; heartbeats decide among equals.                  *)
Listings(S) == {s \in [1 .. Cardinality(S) -> S] :
                   \A a, b \in DOMAIN s : a < b => s[a] # s[b] /\ row[s[a]].load <= row[s[b]].load}

pickLeastLoaded(s) == s[1]

pickRoundRobin(s) == s[(rr % Len(s)) + 1]

NextRR == (rr + 1) % RRCycle

PickList(j) ==
    LET S == filterByLabels(ListAvailableWorkers, j) IN
    /\ job[j].pc = "new"
    /\ Cardinality(Picking) < Pickers
    /\ S # {}
    /\ \E s \in Listings(S) :
          LET w == IF Strategy = "round_robin" THEN pickRoundRobin(s)
                                               ELSE pickLeastLoaded(s) IN
          job' = [job EXCEPT ![j] = [pc |-> "listed", w |-> w, copy |-> row[w]]]
    /\ rr' = IF Strategy = "round_robin" THEN NextRR ELSE rr
    /\ UNCHANGED <<row, proc, beat, evict>>

(* ErrNoAvailableWorker or a failing query: tried again later or given up. *)
PickNone(j) ==
    /\ job[j].pc = "new"
    /\ Cardinality(Picking) < Pickers
    /\ filterByLabels(ListAvailableWorkers, j) = {} \/ "db" \in Faults
    /\ Over(j, "gone")
    /\ UNCHANGED <<row, proc, beat, evict, rr>>

PickWrite(j) ==
    LET r == [job[j].copy EXCEPT !.load = @ + 1] IN
    /\ job[j].pc = "listed"
    /\ \/ /\ SaveWorker(job[j].w, r)
          /\ job' = [job EXCEPT ![j].pc = "reserved", ![j].copy = r]
       \/ /\ "db" \in Faults
          /\ \E pc \in {"new", "gone"} : Over(j, pc)
          /\ UNCHANGED row
    /\ UNCHANGED <<proc, beat, evict, rr>>

Dispatch(j) ==
    /\ job[j].pc = "reserved"
    /\ \/ /\ proc[job[j].w] = "up"
          /\ job' = [job EXCEPT ![j].pc = "running", ![j].copy = NoRow]
       \/ /\ proc[job[j].w] = "down" \/ "dispatch_error" \in Faults
          /\ job' = [job EXCEPT ![j].pc = "release"]
    /\ UNCHANGED <<row, proc, beat, evict, rr>>

(* Router.Release writes the copy made by Pick, one less; the job is given  *)
(* up (trigger side) or tried again (retry side).                          *)
Release(j) ==
    /\ job[j].pc = "release"
    /\ \/ SaveWorker(job[j].w, Fewer(job[j].copy))
       \/ "db" \in Faults /\ UNCHANGED row
    /\ \E pc \in {"new", "gone"} : Over(j, pc)
    /\ UNCHANGED <<proc, beat, evict, rr>>

--------------------------------------------------------------------------------
(* ReportStatus takes the load off the worker that reports a final status.  *)

(* GetWorker. A report about a cancelled row, or one whose worker cannot be *)
(* read, returns without touching the load.                                *)
ReportRead(j) ==
    /\ job[j].pc = "running"
    /\ \/ job' = [job EXCEPT ![j].pc = "report", ![j].copy = row[job[j].w]]
       \/ Faults \cap {"cancel", "db"} # {} /\ Over(j, "gone")
    /\ UNCHANGED <<row, proc, beat, evict, rr>>

(* Variant: the report counts as a sign of life.                           *)
ReportWriteOnline(j) ==
    /\ job[j].pc \in {"report", "late"}
    /\ SaveWorker(job[j].w, [Fewer(job[j].copy) EXCEPT !.status = "online"])
    /\ Over(j, "gone")
    /\ UNCHANGED <<proc, beat, evict, rr>>

ReportWrite(j) ==
    /\ job[j].pc \in {"report", "late"}
    /\ \/ SaveWorker(job[j].w, Fewer(job[j].copy))
       \/ ("db" \in Faults \/ job[j].pc = "late") /\ UNCHANGED row
    /\ Over(j, "gone")
    /\ UNCHANGED <<proc, beat, evict, rr>>

(* A report that arrives after its worker has died: from the network, or from  *)
(* the files that the next process flushes.                                *)
LateReport(j) ==
    /\ job[j].pc = "owing"
    /\ \/ job' = [job EXCEPT ![j].pc = "late", ![j].copy = row[job[j].w]]
       \/ Faults \cap {"cancel", "db"} # {} /\ Over(j, "gone")
    /\ UNCHANGED <<row, proc, beat, evict, rr>>

Job(j) == \/ PickList(j) \/ PickNone(j) \/ PickWrite(j) \/ Dispatch(j) \/ Release(j)
          \/ ReportRead(j) \/ ReportWrite(j)

--------------------------------------------------------------------------------
(* Registration and heartbeats.                                            *)

(* The process starts with RegisterWorker and exits if it fails; the upsert *)
(* may succeed and the read after it fail.                                 *)
RegisterWorker(w) ==
    /\ proc[w] = "down"
    /\ SaveWorker(w, [status |-> "online", load |-> 0, seen |-> "fresh"])
    /\ \/ proc' = [proc EXCEPT ![w] = "up"]
       \/ "db" \in Faults /\ UNCHANGED proc
    /\ UNCHANGED <<job, beat, evict, rr>>

(* The handler replaces every column it has read that is modelled here, so   *)
(* the copy needs no place of its own.                                     *)
BeatRow(w) == [status |-> "online", load |-> beat[w].load, seen |-> beat[w].seen]

(* The worker counts its tasks, then the request travels.                  *)
HeartbeatSend(w) ==
    /\ proc[w] = "up"
    /\ beat[w].pc = "none"
    /\ beat' = [beat EXCEPT ![w] = [pc |-> "sent", load |-> RunningTasks(w),
                                    seen |-> "fresh"]]
    /\ UNCHANGED <<row, proc, job, evict, rr>>

HeartbeatRead(w) ==
    /\ beat[w].pc = "sent"
    /\ \/ beat' = [beat EXCEPT ![w].pc = "read"]
       \/ /\ Faults \cap {"heartbeat_loss", "db"} # {}
          /\ beat' = [beat EXCEPT ![w] = NoBeat]
    /\ UNCHANGED <<row, proc, job, evict, rr>>

(* Variants: the reported load is not taken over; the status is not restored. *)
HeartbeatWriteKeepsLoad(w) ==
    /\ beat[w].pc = "read"
    /\ SaveWorker(w, [BeatRow(w) EXCEPT !.load = row[w].load])
    /\ beat' = [beat EXCEPT ![w] = NoBeat]
    /\ UNCHANGED <<proc, job, evict, rr>>

HeartbeatWriteKeepsStatus(w) ==
    /\ beat[w].pc = "read"
    /\ SaveWorker(w, [BeatRow(w) EXCEPT !.status = row[w].status])
    /\ beat' = [beat EXCEPT ![w] = NoBeat]
    /\ UNCHANGED <<proc, job, evict, rr>>

HeartbeatWrite(w) ==
    /\ beat[w].pc = "read"
    /\ \/ SaveWorker(w, BeatRow(w))
       \/ "db" \in Faults /\ UNCHANGED row
    /\ beat' = [beat EXCEPT ![w] = NoBeat]
    /\ UNCHANGED <<proc, job, evict, rr>>

Heartbeat(w) == HeartbeatSend(w) \/ HeartbeatRead(w) \/ HeartbeatWrite(w)

--------------------------------------------------------------------------------
(* Health checker: EvictStaleWorkers every tick.                           *)

Evicting == {w \in Workers : evict[w] # "none"}

(* Variant: the wrong status in the query.                                 *)
ListStaleWorkersOffline == {w \in Workers : row[w].status = "offline" /\ row[w].seen = "stale"}

ListStaleWorkers == {w \in Workers : row[w].status = "online" /\ row[w].seen = "stale"}

EvictList ==
    /\ Evicting = {}
    /\ ListStaleWorkers # {}
    /\ evict' = [w \in Workers |-> IF w \in ListStaleWorkers THEN row[w].seen ELSE "none"]
    /\ UNCHANGED <<row, proc, job, beat, rr>>

(* A failing upsert ends the round.                                        *)
EvictWrite(w) ==
    /\ w \in Evicting
    /\ \/ /\ SaveWorker(w, [status |-> "offline", load |-> 0, seen |-> evict[w]])
          /\ evict' = [evict EXCEPT ![w] = "none"]
       \/ /\ "db" \in Faults
          /\ evict' = [v \in Workers |-> "none"]
          /\ UNCHANGED row
    /\ UNCHANGED <<proc, job, beat, rr>>

Checker == EvictList \/ \E w \in Workers : EvictWrite(w)

--------------------------------------------------------------------------------
(* Time and failures.                                                      *)

Old(r) == [r EXCEPT !.seen = "stale"]

(* The heartbeat timeout passes: every timestamp taken so far is too old.   *)
TimePasses ==
    /\ row' = [w \in Workers |-> Old(row[w])]
    /\ job' = [j \in Jobs |-> [job[j] EXCEPT !.copy = Old(@)]]
    /\ beat' = [w \in Workers |-> [beat[w] EXCEPT !.seen = "stale"]]
    /\ evict' = [w \in Workers |-> IF evict[w] = "none" THEN "none" ELSE "stale"]
    /\ UNCHANGED <<proc, rr>>

(* The runs of a worker die with it, but for those that have sent or buffered  *)
(* their report.                                                           *)
WorkerCrash(w) ==
    /\ "worker_crash" \in Faults
    /\ proc[w] = "up"
    /\ proc' = [proc EXCEPT ![w] = "down"]
    /\ \E ended \in SUBSET On(w) :
          job' = [j \in Jobs |->
                    IF j \notin On(w) THEN job[j]
                    ELSE IF job[j].pc = "report" THEN [job[j] EXCEPT !.pc = "late"]
                    ELSE IF j \in ended THEN [job[j] EXCEPT !.pc = "owing"]
                    ELSE [NoJob EXCEPT !.pc = "gone"]]
    /\ UNCHANGED <<row, beat, evict, rr>>

(* The scheduler loses every handler; work not yet on a worker is dropped.  *)
SchedulerCrash ==
    /\ "crash" \in Faults
    /\ job' = [j \in Jobs |-> IF j \in Picking \/ job[j].pc \in {"report", "late"}
                              THEN [NoJob EXCEPT !.pc = "gone"] ELSE job[j]]
    /\ beat' = [w \in Workers |-> NoBeat]
    /\ evict' = [w \in Workers |-> "none"]
    /\ rr' = 0
    /\ UNCHANGED <<row, proc>>

Next == \/ \E j \in Jobs : Job(j) \/ LateReport(j)
        \/ \E w \in Workers : RegisterWorker(w) \/ Heartbeat(w) \/ WorkerCrash(w)
        \/ Checker
        \/ TimePasses
        \/ SchedulerCrash

Spec == Init /\ [][Next]_vars

--------------------------------------------------------------------------------
(* Safety.                                                                 *)

(* Rows, copies and counters stay within their types.                      *)
TypeOK == /\ row \in [Workers -> Rows]
          /\ proc \in [Workers -> {"up", "down"}]
          /\ job \in [Jobs -> [pc : JobPCs, w : Workers \cup {NoWorker}, copy : Rows]]
          /\ beat \in [Workers -> [pc : {"none", "sent", "read"}, load : Loads,
                                   seen : {"fresh", "stale"}]]
          /\ evict \in [Workers -> {"none", "fresh", "stale"}]
          /\ rr \in Nat

(* Some goroutine could still write an online row for w.                   *)
OnlineCopy(w) == \/ \E j \in Jobs : job[j].w = w /\ job[j].copy.status = "online"
                 \/ beat[w].pc # "none"

(* EvictStaleWorkers against Pick, Release and ReportStatus: the row of a    *)
(* worker that is gone, once offline, comes back online only through a       *)
(* goroutine that read it before the eviction, or by a new registration.    *)
GoneStaysOffline ==
    [][\A w \in Workers :
          /\ proc[w] = "down" /\ row[w].status = "offline" /\ ~OnlineCopy(w)
          => row'[w].status = "offline" \/ RegisterWorker(w)]_vars

--------------------------------------------------------------------------------
(* Liveness: goroutines run, a live worker sends its heartbeats and one of  *)
(* them gets through in the end; the checker's ticker fires, and its write  *)
(* succeeds in the end.                                                    *)

Fairness == /\ \A j \in Jobs : WF_vars(Job(j))
            /\ \A w \in Workers :
                  /\ WF_vars(HeartbeatSend(w))
                  /\ SF_vars(HeartbeatRead(w) /\ beat'[w].pc = "read")
                  /\ SF_vars(HeartbeatWrite(w) /\ row'[w] = BeatRow(w))
                  /\ SF_vars(EvictWrite(w) /\ row'[w].status = "offline")
            /\ WF_vars(Checker) /\ WF_vars(TimePasses)

FairSpec == Spec /\ Fairness

(* Heartbeat and Checker: a live worker that was evicted comes back online,  *)
(* and one that stays away does not stay online for ever, unless its process  *)
(* tries to register again.                                                *)
RowFollowsWorker ==
    \A w \in Workers :
        /\ []<>(proc[w] = "up" => row[w].status = "online")
        /\ []<>(proc[w] = "down" => row[w].status # "online" \/ row[w].seen = "fresh")

(* Heartbeat and EvictStaleWorkers repair the load that lost updates, crashes *)
(* and cancelled instances leave behind: once all jobs are over it is zero. *)
LoadSettles ==
    <>[](\A j \in Jobs : job[j].pc = "gone")
    => <>[](\A w \in Workers : row[w].load = 0)

================================================================================
