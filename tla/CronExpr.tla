-------------------------------- MODULE CronExpr -------------------------------
(***************************************************************************)
(* internal/pkg/cronexpr: what a five-field expression means and when it       *)
(* fires next. A field is a list of segments; a segment is a range (or "*"),   *)
(* with a step or without (step 0), as the splitting of the text leaves it.    *)
(***************************************************************************)
EXTENDS Integers, Sequences, FiniteSets
LOCAL INSTANCE FiniteSetsExt

Star == -1

Segment(lo, hi, step) == [lo |-> lo, hi |-> hi, step |-> step]

NormalizeValue(v, seven) == IF seven /\ v = 7 THEN 0 ELSE v

ParseValue(v, min, max, seven) == NormalizeValue(v, seven) \in min .. max

(* parseRange: the values a segment starts and ends at.                    *)
Start(s, min) == IF s.lo = Star THEN min ELSE s.lo

Finish(s, max) == IF s.lo = Star THEN max ELSE s.hi

SegmentOK(s, min, max, seven) ==
    /\ s.step >= 0
    /\ \/ s.lo = Star
       \/ /\ ParseValue(s.lo, min, max, seven) /\ ParseValue(s.hi, min, max, seven)
          /\ s.lo <= s.hi

(* addSegment: the loop from start to end by the step.                     *)
AddSegment(s, min, max, seven) ==
    LET step == IF s.step = 0 THEN 1 ELSE s.step
        last == (Finish(s, max) - Start(s, min)) \div step
    IN  {NormalizeValue(Start(s, min) + k * step, seven) : k \in 0 .. last}

(* Only a field that is a bare "*" is any; "*/1" and "*,5" list every value.  *)
ParseField(token, min, max, seven) ==
    [ok |-> token # << >> /\ \A k \in DOMAIN token : SegmentOK(token[k], min, max, seven),
     any |-> token = <<Segment(Star, Star, 0)>>,
     values |-> UNION {AddSegment(token[k], min, max, seven) : k \in DOMAIN token}]

Fields == [minute |-> [min |-> 0, max |-> 59, seven |-> FALSE],
           hour   |-> [min |-> 0, max |-> 23, seven |-> FALSE],
           day    |-> [min |-> 1, max |-> 31, seven |-> FALSE],
           month  |-> [min |-> 1, max |-> 12, seven |-> FALSE],
           week   |-> [min |-> 0, max |-> 6, seven |-> TRUE]]

Parse(expr) == [f \in DOMAIN Fields |->
                   ParseField(expr[f], Fields[f].min, Fields[f].max, Fields[f].seven)]

Validate(expr) == \A f \in DOMAIN Fields : Parse(expr)[f].ok

Contains(field, v) == field.any \/ v \in field.values

(* Variant: day and weekday must both match.                               *)
MatchesBoth(s, t) == \A f \in DOMAIN Fields : Contains(s[f], t[f])

(* A day and a weekday that are both given are alternatives.               *)
Matches(s, t) ==
    /\ \A f \in {"minute", "hour", "month"} : Contains(s[f], t[f])
    /\ IF s.day.any \/ s.week.any
       THEN Contains(s.day, t.day) /\ Contains(s.week, t.week)
       ELSE Contains(s.day, t.day) \/ Contains(s.week, t.week)

(* The calendar of package time, for the first two months of a year that      *)
(* begins on a Monday, with a clock of half minutes.                         *)
Minute(h) == h \div 2

Day(h) == h \div 2880

Calendar(h) == [minute |-> Minute(h) % 60, hour |-> (Minute(h) \div 60) % 24,
                day |-> IF Day(h) < 31 THEN Day(h) + 1 ELSE Day(h) - 30,
                month |-> IF Day(h) < 31 THEN 1 ELSE 2,
                week |-> (Day(h) + 1) % 7]

(* Variant: a time on the minute is its own next time.                     *)
CandidatesFrom(h, limit) == {m * 2 : m \in ((h + 1) \div 2) .. (h \div 2 + limit)}

(* The minutes that NextAfter tries: from the next full one on.            *)
Candidates(h, limit) == {m * 2 : m \in (h \div 2 + 1) .. (h \div 2 + limit)}

(* The first candidate that matches, or none within the limit.             *)
NextAfter(h, expr, limit) ==
    LET found == {m \in Candidates(h, limit) : Matches(Parse(expr), Calendar(m))}
    IN  IF found = {} THEN Star ELSE Min(found)

--------------------------------------------------------------------------------
(* What crontab means, read off the tokens: a value is named by a segment, a   *)
(* 7 is a Sunday, a star is everything.                                      *)
Named(token, v, max, seven) ==
    \E k \in DOMAIN token :
       LET s == token[k]
           in(x) == /\ s.lo <= x /\ x <= s.hi
                    /\ s.step > 0 => \E n \in 0 .. x - s.lo : s.lo + n * s.step = x
           min == IF max \in {31, 12} THEN 1 ELSE 0
       IN  \/ s.lo = Star /\ (s.step > 0 => (v - min) % s.step = 0)
           \/ s.lo # Star /\ (in(v) \/ (seven /\ v = 0 /\ in(7)))

Means(expr, t) ==
    LET says(f) == Named(expr[f], t[f], Fields[f].max, Fields[f].seven)
        bare(f) == expr[f] = <<Segment(Star, Star, 0)>>
    IN  /\ says("minute") /\ says("hour") /\ says("month")
        /\ \/ says("day") /\ says("week")
           \/ ~bare("day") /\ ~bare("week") /\ (says("day") \/ says("week"))

================================================================================
