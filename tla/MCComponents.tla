------------------------------ MODULE MCComponents -----------------------------
(***************************************************************************)
(* The components that are small enough to share an instance. A behaviour      *)
(* exercises one part: the leader election, the timing engine, the repositories *)
(* of tasks, instances or workers, the migrations, the worker registry, the     *)
(* event handler, or one sample of a calculation; the variables of the others  *)
(* keep their values.                                                       *)
(***************************************************************************)
EXTENDS Coordination, Foundations, Integers, Sequences, SequencesExt

VARIABLES
    part,          \* what the behaviour exercises
    heap, popped,  \* TimingEngine
    sample         \* a calculation and its argument

Engine == INSTANCE TimingEngine

Cron == INSTANCE CronExpr

Calc == INSTANCE Calculations

EveryWorker == [j \in Jobs |-> Workers]

ShardCounts == <<2, 0>>

OwnTask == [s \in Scheds |-> IF s = "s1" THEN 1 ELSE 2]

engineVars == <<wheelVars, heap, popped>>
allVars == <<electionVars, part, engineVars, repoVars, migrationVars, vars, publishVars, sample>>

--------------------------------------------------------------------------------
(* Samples.                                                                *)

Every == <<Cron!Segment(-1, -1, 0)>>

One(lo, hi, step) == <<Cron!Segment(lo, hi, step)>>

Exprs == [minute : {Every, <<Cron!Segment(5, 5, 0), Cron!Segment(30, 40, 5)>>},
          hour   : {Every, One(3, 3, 0)},
          day    : {Every, One(-1, -1, 1), One(1, 10, 3), One(0, 4, 0)},
          month  : {Every, One(2, 2, 0)},
          week   : {Every, One(5, 7, 0), One(7, 7, 0), One(1, 7, 2), One(3, 1, 0)}]

Instants == {d * 2880 + m * 2 : d \in {0, 3, 6, 7, 30, 31, 34}, m \in {5, 180, 185, 215}}

Edges == {1, 2, 3} \X {1, 2, 3}

EdgeList == [k \in 1 .. 9 |-> <<1 + ((k - 1) \div 3), 1 + ((k - 1) % 3)>>]

ListedRuns == [id : {0}, task : {1, 2}, status : {"success", "failed"}]

Run(status, start, finish, dispatch, updated) ==
    [status |-> status, start |-> start, finish |-> finish, dispatch |-> dispatch,
     updated |-> updated]

Runs == {Run("success", 1, 1, 1, 9), Run("success", 1, 3, 1, 9), Run("failed", 2, 1, 2, 5),
         Run("failed", 0, 4, 3, 2), Run("success", 1, 8, 0, 9), Run("timeout", 1, 9, 1, 9)}

Values == {<< >>, <<"x", "y">>, <<"a">>, <<"b">>, <<"event">>}

Samples ==
    [f : {"cron"}, expr : Exprs, from : {0, 9, 10, 11}]
    \cup [f : {"cycle"}, edges : SUBSET Edges]
    \cup [f : {"bucket"}, rate : 1 .. 2, capacity : 1 .. 3, gaps : [1 .. 5 -> 0 .. 2]]
    \cup [f : {"guard"}, rpm : {1, 59, 60, 61, 119, 120, 600}]
    \cup [f : {"pages"}, list : UNION {[1 .. n -> ListedRuns] : n \in 0 .. 3}, task : {0, 1},
          status : {"", "failed"}, limit : 1 .. 3]
    \cup [f : {"backoff"}, count : 0 .. 70]
    \cup [f : {"render"}, template : UNION {[1 .. n -> {"x", "event", "a", "b"}] : n \in 0 .. 3},
          name : {<<"x">>, <<"a">>}, a : Values, b : Values]
    \cup [f : {"stats"}, list : UNION {[1 .. n -> Runs] : n \in 0 .. 4}]

None == [f |-> "none"]

--------------------------------------------------------------------------------
MCInit == /\ ElectionInit /\ Engine!EngineInit /\ ReposInit /\ MigrationInit /\ Init /\ PublishInit
          /\ sample = None
          /\ part \in {"leader", "engine", "tasks", "instances", "workers", "schema",
                     "registry", "events", "calculation"}
          /\ part # "engine" => now = 0

MCNext ==
    \/ /\ part = "leader" /\ ElectionNext
       /\ UNCHANGED <<part, engineVars, repoVars, migrationVars, vars, publishVars, sample>>
    \/ /\ part = "engine" /\ Engine!EngineNext
       /\ UNCHANGED <<part, electionVars, repoVars, migrationVars, vars, publishVars, sample>>
    \/ /\ part = "tasks" /\ causes = {} /\ TaskCall
       /\ UNCHANGED <<part, electionVars, engineVars, migrationVars, vars, publishVars, sample>>
    \/ /\ part = "instances" /\ causes = {} /\ InstanceCall
       /\ UNCHANGED <<part, electionVars, engineVars, migrationVars, vars, publishVars, sample>>
    \/ /\ part = "workers" /\ causes = {} /\ WorkerCall
       /\ UNCHANGED <<part, electionVars, engineVars, migrationVars, vars, publishVars, sample>>
    \/ /\ part = "schema" /\ MigrationNext
       /\ UNCHANGED <<part, electionVars, engineVars, repoVars, vars, publishVars, sample>>
    \/ /\ part = "registry" /\ Next
       /\ UNCHANGED <<part, electionVars, engineVars, repoVars, migrationVars, publishVars, sample>>
    \/ /\ part = "events" /\ PublishNext
       /\ UNCHANGED <<part, electionVars, engineVars, repoVars, migrationVars, vars, sample>>
    \/ /\ part = "calculation" /\ sample = None
       /\ sample' \in Samples
       /\ UNCHANGED <<part, electionVars, engineVars, repoVars, migrationVars, vars, publishVars>>

MCSpec == MCInit /\ [][MCNext]_allVars

--------------------------------------------------------------------------------
(* processWheelTick and PopUntil: no task fires before its time but for the    *)
(* phase of the wheel and for times more than a turn ahead, and a heap tick     *)
(* takes out what is due, and nothing that it does not pass on.              *)
FiresOnTime == NeverEarly /\ Engine!HeapPunctual /\ [](WheelTypeOK /\ Engine!HeapTypeOK)

--------------------------------------------------------------------------------
Is(f) == sample.f = f

(* cronexpr: a valid expression matches exactly the times that its tokens       *)
(* name, with day and weekday as alternatives when both are given.            *)
ScheduleMeans ==
    Is("cron") /\ Cron!Validate(sample.expr) =>
       \A h \in Instants : Cron!Matches(Cron!Parse(sample.expr), Cron!Calendar(h))
                           = Cron!Means(sample.expr, Cron!Calendar(h))

(* cronexpr.NextAfter: the next time is strictly later, on a full minute, and   *)
(* no time between was meant.                                               *)
NextIsFirst ==
    Is("cron") /\ Cron!Validate(sample.expr) /\ Cron!NextAfter(sample.from, sample.expr, 40) # -1 =>
       LET next == Cron!NextAfter(sample.from, sample.expr, 40)
       IN  /\ next > sample.from /\ next % 2 = 0
           /\ Cron!Means(sample.expr, Cron!Calendar(next))
           /\ \A h \in sample.from + 1 .. next - 1 :
                 h % 2 = 0 => ~Cron!Means(sample.expr, Cron!Calendar(h))

(* model.DetectCycle: the search answers whether some task depends on itself    *)
(* through others, whatever order the map is walked in.                      *)
CycleFound ==
    Is("cycle") =>
       LET Step(R) == R \cup {<<a, c>> \in Edges : \E b \in {1, 2, 3} : {<<a, b>>, <<b, c>>} \subseteq R}
           closure == Step(Step(sample.edges))
       IN  Calc!DetectCycle(Calc!Graph(SelectSeq(EdgeList, LAMBDA e : e \in sample.edges)), {1, 2, 3})
              = \E n \in {1, 2, 3} : <<n, n>> \in closure

(* TokenBucket: in every stretch of requests at most the capacity and what the   *)
(* stretch's time refills are let through.                                   *)
BucketHolds ==
    Is("bucket") =>
       LET log == Calc!Admitted(Calc!NewTokenBucket(sample.rate, sample.capacity), sample.gaps)
       IN  \A i \in 1 .. 5 : \A j \in i .. 5 :
              Cardinality({k \in i .. j : log[k]})
                 <= sample.capacity + sample.rate * FoldLeft(+, 0, SubSeq(sample.gaps, i + 1, j))

(* README.md: "LLM request rate limit (requests/minute)". The guard of the model  *)
(* endpoints refills at most the requests per minute it was given.           *)
GuardKeepsRPM ==
    Is("guard") => Calc!GuardBucket(sample.rpm).rate * 60 <= sample.rpm

(* NewRouter: the guard refills at most what it was given when that is a request  *)
(* per second or more. A lower rate is GuardKeepsRPM's.                      *)
GuardRefillsRPM == Is("guard") /\ sample.rpm >= 60 => GuardKeepsRPM

(* ListInstancesWithParams with a task, or with no filter: pages up to the        *)
(* reported total show every matching instance once, the newest first. For a     *)
(* status alone the code reports the length of the page as the total, and         *)
(* nothing is claimed.                                                      *)
PagesCoverAll ==
    Is("pages") /\ (sample.task # 0 \/ sample.status = "") =>
       LET list == [k \in DOMAIN sample.list |-> [sample.list[k] EXCEPT !.id = k]]
       IN  Calc!AllPages(list, sample.task, sample.status, sample.limit)
              = Reverse(Calc!Matching(list, sample.task, sample.status))

(* retryDelay: the exponential backoff is 2^n seconds and at most ten minutes    *)
(* for every retry count up to 33. The 34th shift reaches the sign of the         *)
(* duration, and nothing is claimed from there on.                           *)
BackoffHolds ==
    Is("backoff") =>
       LET Meant(n) == LET d == Calc!Shifted(Calc!Second, n)
                       IN  IF Calc!Exceeds(d, Calc!TenMinutes) THEN Calc!TenMinutes ELSE d
       IN  sample.count <= 33 => Calc!retryDelay(sample.count) = Meant(sample.count)

(* renderEventPayload: as long as no inserted text holds a placeholder itself,   *)
(* each placeholder is replaced by its value, whatever order the payload is       *)
(* walked in.                                                               *)
RenderedByValue ==
    Is("render") /\ (Range(sample.name) \cup Range(sample.a) \cup Range(sample.b))
                       \cap {"a", "b", "event"} = {} =>
       LET payload == [k \in {"a", "b"} |-> sample[k]]
           Meant(w) == IF w \in {"a", "b"} THEN payload[w]
                       ELSE IF w = "event" THEN sample.name ELSE <<w>>
       IN  \A order \in {<<"a", "b">>, <<"b", "a">>} :
              Calc!renderEventPayload(sample.template, sample.name, payload, order)
                 = FlattenSeq([k \in DOMAIN sample.template |-> Meant(sample.template[k])])

(* ComputeStats: at least q percent of the runs that can be measured took no     *)
(* longer than the q-th percentile, and that fails for every shorter duration.  *)
PercentileRanks ==
    Is("stats") /\ Calc!Durations(sample.list) # << >> =>
       \A q \in {50, 95} :
          LET s == Calc!Durations(sample.list)
              v == Calc!Percentile(s, q)
              runs == SelectSeq(sample.list, Calc!Measured)
              UpTo(x) == 100 * Len(SelectSeq(runs, LAMBDA i : Calc!Duration(i) <= x))
          IN  /\ v \in Range(s) /\ UpTo(v) >= q * Len(runs)
              /\ \A x \in Range(s) : x < v => UpTo(x) < q * Len(runs)

(* cronexpr: a valid expression matches what its tokens name, and NextAfter     *)
(* gives the first such minute.                                             *)
CronFires == ScheduleMeans /\ NextIsFirst

(* ratelimit and retryDelay: the bucket, the guard of the model endpoints from   *)
(* 60 requests per minute on and the backoff up to 33 retries keep to the rates  *)
(* and delays they stand for.                                               *)
LimitsHold == BucketHolds /\ GuardRefillsRPM /\ BackoffHolds

(* DetectCycle, ListInstancesWithParams, ComputeStats and renderEventPayload      *)
(* answer what their reference definitions say.                             *)
AnswersMeant == CycleFound /\ PagesCoverAll /\ PercentileRanks /\ RenderedByValue

================================================================================
