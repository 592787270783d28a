------------------------------ MODULE TimingWheel ------------------------------
(***************************************************************************)
(* The timing wheel of the scheduler's engine: a ring of slots for trigger    *)
(* times, one of which a ticker empties per tick. Time is counted in ticks.   *)
(* OnTrigger, which the engine calls for everything it takes out, is part of  *)
(* TaskCatalog.                                                            *)
(***************************************************************************)
EXTENDS Naturals, FiniteSets

CONSTANTS
    Tasks,
    WheelSize,
    Phases,     \* clock values at which the engine may be started
    MaxTime,    \* bound on the clock
    Horizon,    \* how far ahead of the clock a trigger time may lie
    Overdue,    \* how far behind it may lie
    MaxItems,   \* bound on what the wheel holds
    Drops       \* whether a ticker may skip ticks of a busy engine

(* NewTimingWheel replaces a size that is not positive by its default.      *)
WheelParameters ==
    /\ WheelSize \in Nat \ {0} /\ MaxTime \in Nat /\ Horizon \in Nat
    /\ Phases \subseteq 0 .. MaxTime

VARIABLES
    now,      \* the wall clock
    pos,      \* TimingWheel.currentPos
    slots,    \* TimingWheel.slots
    fired,    \* what the last tick passed to OnTrigger
    asked     \* history: the times a task is armed for in the wheel, the ticks
              \* since then, and whether it was more than a turn ahead

wheelVars == <<now, pos, slots, fired, asked>>

Positions == 0 .. WheelSize - 1

TriggerTimes == 0 .. MaxTime + Horizon

(* The trigger times that tasks and retries have when they are armed.       *)
Near == {x \in TriggerTimes : x + Overdue >= now /\ x <= now + Horizon}

(* The wheel starts at position 0 whatever the clock says.                  *)
WheelInit == /\ now \in Phases
        /\ pos = 0
        /\ slots = [p \in Positions |-> {}]
        /\ fired = {}
        /\ asked = [t \in Tasks |-> {}]

Armed == Cardinality(UNION {{t} \X asked[t] : t \in Tasks})

SlotOfNext(time) == (time + WheelSize - 1) % WheelSize

SlotOf(time) == time % WheelSize

AddToWheel(t, time) ==
    /\ Armed < MaxItems
    /\ slots' = [slots EXCEPT ![SlotOf(time)] = @ \cup {t}]
    /\ asked' = [asked EXCEPT ![t] = @ \cup {[time |-> time, age |-> 0, far |-> time > now + WheelSize]}]
    /\ UNCHANGED <<now, pos, fired>>

(* What is left of the times asked for after slot p was emptied.            *)
StillArmed(t, p) == {[a EXCEPT !.age = @ + 1] : a \in {b \in asked[t] : SlotOf(b.time) # p}}

NextPosSkipsFirst == IF pos + 1 < WheelSize THEN pos + 1 ELSE 1

NextPos == (pos + 1) % WheelSize

(* Tick, and processWheelTick for the ids in the slot.                      *)
WheelTick ==
    /\ now < MaxTime
    /\ now' = now + 1 /\ pos' = NextPos
    /\ fired' = slots[pos']
    /\ slots' = [slots EXCEPT ![pos'] = {}]
    /\ asked' = [t \in Tasks |-> StillArmed(t, pos')]

(* OnTrigger runs in the engine's goroutine: the ticker drops the ticks it   *)
(* is too late for.                                                        *)
TickDropped ==
    /\ Drops /\ now < MaxTime
    /\ now' = now + 1
    /\ UNCHANGED <<pos, slots, fired, asked>>

WheelNext == WheelTick \/ TickDropped \/ \E t \in Tasks, time \in Near : AddToWheel(t, time)

WheelSpec == WheelInit /\ [][WheelNext]_wheelVars

--------------------------------------------------------------------------------
(* Every variable keeps its type.                                          *)
WheelTypeOK ==
    /\ now \in 0 .. MaxTime /\ pos \in Positions
    /\ slots \in [Positions -> SUBSET Tasks] /\ fired \subseteq Tasks
    /\ asked \in [Tasks -> SUBSET [time : TriggerTimes, age : 0 .. MaxTime, far : BOOLEAN]]

(* Whatever the phase of the wheel, the ticks dropped and the times armed    *)
(* for, an armed task fires before the wheel has turned once.               *)
FiresWithinTurn == \A t \in Tasks : \A a \in asked[t] : a.age < WheelSize

(* "Callback invoked for each task that is due": processWheelTick passes     *)
(* OnTrigger a task before its time only when the wheel is out of phase with *)
(* the clock, or when the task was armed for more than a turn ahead, because *)
(* slots count no rounds.                                                  *)
NeverEarly ==
    [][\A t \in Tasks : pos' # pos /\ t \in fired' /\ pos = now % WheelSize
          => \E a \in asked[t] : SlotOf(a.time) = pos' /\ (a.time <= now' \/ a.far)]_wheelVars
================================================================================
