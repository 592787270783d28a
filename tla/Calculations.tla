----------------------------- MODULE Calculations ------------------------------
(***************************************************************************)
(* Functions without state of their own: the cycle check of the dependency    *)
(* graph, the token bucket over a list of requests, the pages of an instance   *)
(* list, and the duration statistics.                                        *)
(***************************************************************************)
EXTENDS Integers, Sequences, FiniteSets, SequencesExt
LOCAL INSTANCE TLC

--------------------------------------------------------------------------------
(* model.Graph and model.DetectCycle: a depth-first search with colours. The   *)
(* graph maps a task to the list of the tasks it depends on.                 *)

Graph(edges) ==
    [n \in {edges[k][1] : k \in DOMAIN edges} |->
        LET of == SelectSeq(edges, LAMBDA e : e[1] = n)
        IN  [k \in DOMAIN of |-> of[k][2]]]

DepsOf(graph, n) == IF n \in DOMAIN graph THEN graph[n] ELSE << >>

RECURSIVE Visit(_, _, _), VisitDeps(_, _, _)

(* dfs: the colours after it, and whether it met a node in progress.       *)
Visit(graph, n, colour) ==
    LET r == VisitDeps(graph, DepsOf(graph, n), [colour EXCEPT ![n] = 1])
    IN  IF r.cycle THEN r ELSE [r EXCEPT !.colour[n] = 2]

VisitDeps(graph, todo, colour) ==
    IF todo = << >> THEN [cycle |-> FALSE, colour |-> colour]
    ELSE LET d == Head(todo)
             r == IF colour[d] = 0 THEN Visit(graph, d, colour)
                  ELSE [cycle |-> colour[d] = 1, colour |-> colour]
         IN  IF r.cycle THEN r ELSE VisitDeps(graph, Tail(todo), r.colour)

(* Variant: a node that is done counts like one in progress.               *)
DetectCycleTwoColours(graph, nodes) ==
    FoldLeft(LAMBDA acc, n : IF acc.cycle THEN acc
                             ELSE IF acc.colour[n] = 2 THEN [acc EXCEPT !.cycle = TRUE]
                             ELSE Visit(graph, n, acc.colour),
             [cycle |-> FALSE, colour |-> [n \in nodes |-> 0]], SetToSeq(DOMAIN graph)).cycle

DetectCycle(graph, nodes) ==
    FoldLeft(LAMBDA acc, n : IF acc.cycle \/ acc.colour[n] # 0 THEN acc
                             ELSE Visit(graph, n, acc.colour),
             [cycle |-> FALSE, colour |-> [n \in nodes |-> 0]], SetToSeq(DOMAIN graph)).cycle

--------------------------------------------------------------------------------
(* ratelimit.TokenBucket, in ticks of a second and whole tokens.           *)

NewTokenBucket(rate, capacity) ==
    LET r == IF rate <= 0 THEN 1000 ELSE rate
        c == IF capacity <= 0 THEN 2 * r ELSE capacity
    IN  [rate |-> r, capacity |-> c, tokens |-> c]

(* Variant: the bucket overflows.                                          *)
RefillUnbounded(b, elapsed) == [b EXCEPT !.tokens = @ + elapsed * b.rate]

Refill(b, elapsed) ==
    [b EXCEPT !.tokens = IF @ + elapsed * b.rate > b.capacity THEN b.capacity
                         ELSE @ + elapsed * b.rate]

Allow(b) == b.tokens >= 1

(* The answers to requests that come after the given gaps.                 *)
Admitted(bucket, gaps) ==
    FoldLeft(LAMBDA acc, gap :
                LET b == Refill(acc.b, gap)
                IN  [b |-> IF Allow(b) THEN [b EXCEPT !.tokens = @ - 1] ELSE b,
                     log |-> Append(acc.log, Allow(b))],
             [b |-> bucket, log |-> << >>], gaps).log

(* Variant: the minute is forgotten.                                       *)
GuardBucketPerSecond(rpm) == NewTokenBucket(rpm, rpm)

(* ai.NewRouter: requests per minute become tokens per second.             *)
GuardBucket(rpm) == NewTokenBucket(rpm \div 60, rpm)

--------------------------------------------------------------------------------
(* service.ListInstancesWithParams, over a list in the order of the ids. Task 0   *)
(* and status "" stand for no filter.                                        *)

Newest(list) == SortSeq(list, LAMBDA a, b : a.id > b.id)

Limited(list, limit) == IF limit > 0 /\ limit < Len(list) THEN SubSeq(list, 1, limit) ELSE list

(* Variant: the page ends at the limit, not limit after the offset.        *)
PaginateToLimit(list, limit, offset) ==
    LET first == Limited(Newest(list), limit) IN SubSeq(first, offset + 1, Len(first))

PaginateInstances(list, limit, offset) ==
    LET all == Newest(list)
    IN  Limited(IF offset > 0 /\ offset < Len(all) THEN SubSeq(all, offset + 1, Len(all)) ELSE all,
                limit)

Matching(list, task, status) ==
    SelectSeq(list, LAMBDA i : task \in {0, i.task} /\ status \in {"", i.status})

(* A status alone is looked up without the offset, oldest first, and the total  *)
(* is the length of the answer.                                             *)
ListInstancesWithParams(list, task, status, limit, offset) ==
    LET found == Matching(list, task, status)
    IN  IF task = 0 /\ status # ""
        THEN [page |-> Limited(found, limit), total |-> Len(Limited(found, limit))]
        ELSE [page |-> PaginateInstances(found, limit, offset), total |-> Len(found)]

(* A client that asks for pages until it has seen the total it was told.   *)
AllPages(list, task, status, limit) ==
    LET Page(k) == ListInstancesWithParams(list, task, status, limit, (k - 1) * limit)
    IN  FlattenSeq([k \in 1 .. (Page(1).total + limit - 1) \div limit |-> Page(k).page])

--------------------------------------------------------------------------------
(* predictduration.ComputeStats.                                           *)

(* The duration of a finished instance: from its own times if they are there   *)
(* and in order, else from its dispatch to its last update, at least 0.       *)
Measured(i) == /\ i.status \in {"success", "failed"}
               /\ \/ i.start # 0 /\ i.finish # 0 /\ i.finish >= i.start
                  \/ i.dispatch # 0

Duration(i) ==
    IF i.start # 0 /\ i.finish # 0 /\ i.finish >= i.start THEN i.finish - i.start
    ELSE IF i.updated < i.dispatch THEN 0 ELSE i.updated - i.dispatch

Durations(list) ==
    LET of == SelectSeq(list, Measured)
    IN  SortSeq([k \in DOMAIN of |-> Duration(of[k])], <)

(* Variant: the rank is rounded down.                                      *)
PercentileDown(sorted, q) ==
    LET idx == (q * Len(sorted)) \div 100 - 1
    IN  sorted[(IF idx < 0 THEN 0 ELSE idx) + 1]

Percentile(sorted, q) ==
    LET idx == (q * Len(sorted) + 99) \div 100 - 1
    IN  sorted[(IF idx < 0 THEN 0 ELSE IF idx >= Len(sorted) THEN Len(sorted) - 1 ELSE idx) + 1]

--------------------------------------------------------------------------------
(* service.retryDelay with exponential backoff. A time.Duration is a 64-bit     *)
(* count of nanoseconds, written here as the set of its bits that are one; bit   *)
(* 63 is the sign.                                                          *)

Second == {9, 11, 14, 15, 17, 19, 20, 23, 24, 25, 27, 28, 29}

TenMinutes == {12, 13, 14, 16, 19, 22, 23, 25, 28, 29, 31, 32, 33, 35, 39}

Shifted(d, n) == {b + n : b \in d}

Exceeds(a, b) == \E k \in a \ b : \A j \in b \ a : j < k

(* Variant: the delay is not capped.                                       *)
retryDelayUncapped(count) == Shifted(Second, count) \cap (0 .. 63)

retryDelay(count) ==
    LET d == Shifted(Second, count) \cap (0 .. 63)
    IN  IF 63 \notin d /\ Exceeds(d, TenMinutes) THEN TenMinutes ELSE d

--------------------------------------------------------------------------------
(* handler.renderEventPayload: texts are lists of words, and a word that names   *)
(* the event or a key of its payload stands for that placeholder.            *)

(* Variant: only the first occurrence is replaced.                         *)
SubstituteOnce(text, word, by) ==
    LET at == SelectInSeq(text, LAMBDA x : x = word)
    IN  IF at = 0 THEN text
        ELSE SubSeq(text, 1, at - 1) \o by \o SubSeq(text, at + 1, Len(text))

Substitute(text, word, by) ==
    FlattenSeq([k \in DOMAIN text |-> IF text[k] = word THEN by ELSE <<text[k]>>])

(* The payload is a map, walked in any order.                              *)
renderEventPayload(template, name, payload, order) ==
    FoldLeft(LAMBDA text, key : Substitute(text, key, payload[key]),
             Substitute(template, "event", name), order)

================================================================================
