----------------------------- MODULE TimingEngine -----------------------------
(***************************************************************************)
(* The scheduler's engine: beside the wheel a heap for retries, emptied by a  *)
(* ticker of its own.                                                      *)
(***************************************************************************)
EXTENDS TimingWheel, Sequences
LOCAL INSTANCE Functions

VARIABLES
    heap,     \* taskHeap
    popped    \* what the last heap tick passed to OnTrigger

heapVars == <<heap, popped>>

engineVars == <<wheelVars, heapVars>>

Items == [task : Tasks, time : TriggerTimes]

HasRoom == Len(heap) + Armed < MaxItems

--------------------------------------------------------------------------------
(* container/heap, over an array ordered by trigger time                    *)

Less(h, i, j) == h[i].time < h[j].time

Swap(h, i, j) == [h EXCEPT ![i] = h[j], ![j] = h[i]]

(* heap.Push moves the new item up while it is before its parent.           *)
RECURSIVE Up(_, _)
Up(h, i) == LET parent == i \div 2
            IN  IF i = 1 \/ ~Less(h, i, parent) THEN h ELSE Up(Swap(h, i, parent), parent)

AddToHeap(t, time) ==
    /\ HasRoom
    /\ heap' = Up(Append(heap, [task |-> t, time |-> time]), Len(heap) + 1)
    /\ UNCHANGED <<wheelVars, popped>>

PopUntilLater(h, cutoff) ==
    LET firstLater == {i \in DOMAIN h : h[i].time > cutoff /\ \A j \in 1 .. i - 1 : h[j].time <= cutoff}
        n == IF firstLater = {} THEN Len(h) ELSE (CHOOSE i \in firstLater : TRUE) - 1
    IN  [due |-> SubSeq(h, 1, n), rest |-> SubSeq(h, n + 1, Len(h))]

(* The due items, and the others in the order of the array.                 *)
PopUntil(h, cutoff) ==
    LET IsDue(item) == item.time <= cutoff
        IsLater(item) == item.time > cutoff
    IN  [due |-> SelectSeq(h, IsDue), rest |-> SelectSeq(h, IsLater)]

HeapTick ==
    /\ heap # << >>
    /\ heap' = PopUntil(heap, now).rest
    /\ popped' = {item.task : item \in Range(PopUntil(heap, now).due)}
    /\ UNCHANGED wheelVars

EngineInit == WheelInit /\ heap = << >> /\ popped = {}

EngineNext ==
    \/ (WheelTick \/ TickDropped) /\ UNCHANGED heapVars
    \/ \E t \in Tasks, time \in Near : /\ HasRoom /\ AddToWheel(t, time)
                                       /\ UNCHANGED heapVars
    \/ \E t \in Tasks, time \in Near : AddToHeap(t, time)
    \/ HeapTick

EngineSpec == EngineInit /\ [][EngineNext]_engineVars

--------------------------------------------------------------------------------
(* The heap keeps its type.                                                *)
HeapTypeOK == heap \in Seq(Items) /\ Len(heap) <= MaxItems /\ popped \subseteq Tasks

(* A heap tick leaves no item that was due, wherever it stood in the array,   *)
(* and passes OnTrigger the task of every item that it takes out.            *)
HeapPunctual ==
    [][heap' # heap /\ Len(heap') <= Len(heap) =>
          /\ \A i \in DOMAIN heap' : heap'[i].time > now
          /\ \A i \in DOMAIN heap : heap[i] \in Range(heap') \/ heap[i].task \in popped']_engineVars
================================================================================
