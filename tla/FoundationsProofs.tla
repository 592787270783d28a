--------------------------- MODULE FoundationsProofs ---------------------------
(***************************************************************************)
(* What the timing wheel, the migrations and the repositories promise, for    *)
(* every size of the wheel, every number of tasks, processes, restarts and    *)
(* rows.                                                                   *)
(***************************************************************************)
EXTENDS Foundations, TLAPS

--------------------------------------------------------------------------------
(* The timing wheel.                                                       *)

(* How many ticks it takes until slot s is emptied.                        *)
Left(s) == IF s > pos THEN s - pos ELSE s - pos + WheelSize

(* A time asked for: its age and the way of the wheel to its slot make at      *)
(* most a turn, and unless it lay far ahead it has come close.               *)
Underway(a) == /\ a.age <= now
               /\ Left(SlotOf(a.time)) + a.age <= WheelSize
               /\ a.far \/ a.time <= now + WheelSize

WheelInv ==
    /\ WheelTypeOK
    /\ \A t \in Tasks : \A a \in asked[t] : Underway(a)
    /\ \A s \in Positions : \A t \in slots[s] : \E a \in asked[t] : SlotOf(a.time) = s

(* time.Unix() % size is a position of the ring.                           *)
LEMMA SlotType == ASSUME NEW x \in Nat PROVE SlotOf(x) \in Positions
  BY FoundationParameters DEF WheelParameters, SlotOf, Positions

(* Tick moves on by one position, or from the last to the first.           *)
LEMMA NextPosIs ==
  ASSUME pos \in Positions
  PROVE  NextPos = IF pos + 1 = WheelSize THEN 0 ELSE pos + 1
  BY FoundationParameters DEF WheelParameters, NextPos, Positions

(* A time is its turns and its slot.                                       *)
LEMMA Turns ==
  ASSUME NEW w \in Nat \ {0}, NEW x \in Nat
  PROVE  \E k \in Nat, r \in 0 .. w - 1 : x = w * k + r /\ r = x % w
<1>1. PICK k \in Nat : k = x \div w
  OBVIOUS
<1>2. PICK r \in 0 .. w - 1 : r = x % w
  OBVIOUS
<1>3. x = w * k + r
  BY <1>1, <1>2
<1> QED
  BY <1>2, <1>3, Zenon

(* Two times that share a slot are a whole number of turns apart.          *)
LEMMA SameSlot ==
  ASSUME NEW x \in Nat, NEW y \in Nat, SlotOf(x) = SlotOf(y), x <= y + WheelSize - 1
  PROVE  x <= y
<1>1. PICK w \in Nat \ {0} : w = WheelSize
  BY FoundationParameters DEF WheelParameters
<1>2. PICK k \in Nat, r \in 0 .. w - 1 : x = w * k + r /\ r = x % w
  BY Turns, Zenon
<1>3. PICK m \in Nat, q \in 0 .. w - 1 : y = w * m + q /\ q = y % w
  BY Turns, Zenon
<1>4. q = r /\ x <= y + w - 1
  BY <1>1, <1>2, <1>3 DEF SlotOf
<1>5. k <= m
  <2>1. SUFFICES ASSUME NEW d \in Nat, k = m + 1 + d PROVE FALSE
    BY <1>2, <1>3
  <2>2. w * k = w * m + w + w * d /\ w * d >= 0
    BY <1>3, <2>1
  <2> QED
    BY <1>2, <1>3, <1>4, <2>2
<1> QED
  BY <1>2, <1>3, <1>4, <1>5

(* The slot after that of a time is that of the next time.                 *)
LEMMA SlotAfter ==
  ASSUME NEW x \in Nat
  PROVE  SlotOf(x + 1) = IF SlotOf(x) + 1 = WheelSize THEN 0 ELSE SlotOf(x) + 1
<1>1. PICK w \in Nat \ {0} : w = WheelSize
  BY FoundationParameters DEF WheelParameters
<1>2. PICK k \in Nat, r \in 0 .. w - 1 : x = w * k + r /\ r = x % w
  BY Turns, Zenon
<1>3. PICK m \in Nat, q \in 0 .. w - 1 : x + 1 = w * m + q /\ q = (x + 1) % w
  <2>1. PICK y \in Nat : y = x + 1
    OBVIOUS
  <2>2. \E m \in Nat, q \in 0 .. w - 1 : y = w * m + q /\ q = y % w
    BY Turns, Zenon
  <2> QED
    BY <2>1, <2>2
<1>4. CASE r + 1 = w
  <2>1. PICK j \in Nat : j = k + 1 /\ x + 1 = w * j
    BY <1>2, <1>4
  <2>2. j <= m
    BY <1>3, <2>1
  <2>3. m <= j
    BY <1>3, <2>1
  <2>4. q = 0
    BY <1>3, <2>1, <2>2, <2>3
  <2> QED
    BY <1>1, <1>2, <1>3, <1>4, <2>4 DEF SlotOf
<1>5. CASE r + 1 # w
  <2>1. k <= m
    BY <1>2, <1>3, <1>5
  <2>2. m <= k
    BY <1>2, <1>3, <1>5
  <2>3. q = r + 1
    BY <1>2, <1>3, <2>1, <2>2
  <2> QED
    BY <1>1, <1>2, <1>3, <1>5, <2>3 DEF SlotOf
<1> QED
  BY <1>4, <1>5

(* A tick brings every other slot nearer by one.                           *)
LEMMA LeftTick ==
  ASSUME pos \in Positions, pos' = NextPos, NEW s \in Positions, s # pos'
  PROVE  Left(s)' = Left(s) - 1
  BY NextPosIs, FoundationParameters DEF WheelParameters, Left, Positions

(* A slot is between one tick and a turn away.                             *)
LEMMA LeftType ==
  ASSUME pos \in Positions, NEW s \in Positions
  PROVE  Left(s) \in 1 .. WheelSize
  BY FoundationParameters DEF WheelParameters, Left, Positions

(* NewTimingWheel: an empty ring at position 0, at any time.               *)
LEMMA InitWheel == WheelInit => WheelInv
  BY FoundationParameters DEF WheelParameters, WheelInit, WheelInv, WheelTypeOK, Positions

(* AddToWheel puts the task in the slot of its time, at most a turn away.     *)
LEMMA AddKeeps ==
  ASSUME WheelInv, NEW t \in Tasks, NEW time \in Near, AddToWheel(t, time)
  PROVE  WheelInv'
<1>0. PICK new : new = [time |-> time, age |-> 0, far |-> time > now + WheelSize]
  BY Zenon
<1>1. time \in TriggerTimes /\ TriggerTimes \subseteq Nat
  BY FoundationParameters DEF WheelParameters, Near, TriggerTimes
<1>2. SlotOf(time) \in Positions /\ WheelSize \in Nat \ {0} /\ MaxTime \in Nat
      /\ now \in 0 .. MaxTime
  BY <1>1, SlotType, FoundationParameters DEF WheelParameters, WheelInv, WheelTypeOK
<1>3. asked' = [asked EXCEPT ![t] = @ \cup {new}] /\ new.time = time /\ new.age = 0
      /\ new.far = (time > now + WheelSize)
      /\ new \in [time : TriggerTimes, age : 0 .. MaxTime, far : BOOLEAN]
  BY <1>0, <1>1, <1>2 DEF AddToWheel
<1>4. UNCHANGED <<now, pos, fired>> /\ slots' = [slots EXCEPT ![SlotOf(time)] = @ \cup {t}]
  BY DEF AddToWheel
<1>5. Underway(new)'
  <2>1. Left(SlotOf(time)) \in 1 .. WheelSize
    BY <1>2, LeftType DEF WheelInv, WheelTypeOK
  <2>2. Left(SlotOf(time))' = Left(SlotOf(time))
    BY <1>4 DEF Left
  <2> QED
    BY <1>1, <1>2, <1>3, <1>4, <2>1, <2>2 DEF Underway, SlotOf
<1>6. \A u \in Tasks : asked[u] \subseteq asked'[u] /\ asked'[u] \subseteq asked[u] \cup {new}
  BY <1>3 DEF WheelInv, WheelTypeOK
<1>7. new \in asked'[t]
  BY <1>3 DEF WheelInv, WheelTypeOK
<1>8. WheelTypeOK'
  BY <1>2, <1>3, <1>4 DEF WheelInv, WheelTypeOK
<1>9. \A u \in Tasks : \A a \in asked'[u] : Underway(a)'
  <2>1. \A a : Underway(a) => Underway(a)'
    BY <1>4 DEF Underway, Left, SlotOf
  <2> QED
    BY <1>5, <1>6, <2>1 DEF WheelInv
<1>10. \A s \in Positions : \A u \in slots'[s] : \E a \in asked'[u] : SlotOf(a.time) = s
  <2>1. SUFFICES ASSUME NEW s \in Positions, NEW u \in slots'[s]
                 PROVE  \E a \in asked'[u] : SlotOf(a.time) = s
    OBVIOUS
  <2>2. CASE u \in slots[s]
    BY <1>6, <2>2 DEF WheelInv, WheelTypeOK
  <2>3. CASE u \notin slots[s]
    <3>1. s = SlotOf(time) /\ u = t
      BY <1>2, <1>4, <2>1, <2>3 DEF WheelInv, WheelTypeOK
    <3> QED
      BY <1>3, <1>7, <3>1
  <2> QED
    BY <2>2, <2>3
<1> QED
  BY <1>8, <1>9, <1>10 DEF WheelInv, SlotOf

(* A tick empties one slot and passes on what was asked for there.         *)
LEMMA TickKeeps == ASSUME WheelInv, WheelTick PROVE WheelInv'
<1>1. /\ WheelSize \in Nat \ {0} /\ MaxTime \in Nat /\ now \in 0 .. MaxTime /\ pos \in Positions
      /\ slots \in [Positions -> SUBSET Tasks]
      /\ asked \in [Tasks -> SUBSET [time : TriggerTimes, age : 0 .. MaxTime, far : BOOLEAN]]
  BY FoundationParameters DEF WheelParameters, WheelInv, WheelTypeOK
<1>2. now' = now + 1 /\ now' \in 0 .. MaxTime /\ pos' = NextPos /\ pos' \in Positions
  BY <1>1, NextPosIs DEF WheelTick, Positions
<1>3. slots' = [slots EXCEPT ![pos'] = {}] /\ fired' = slots[pos']
  BY DEF WheelTick
<1>4. ASSUME NEW t \in Tasks, NEW a \in asked'[t]
      PROVE  /\ Underway(a)' /\ a \in [time : TriggerTimes, age : 0 .. MaxTime, far : BOOLEAN]
  <2>1. PICK b \in asked[t] : SlotOf(b.time) # pos' /\ a = [b EXCEPT !.age = @ + 1]
    BY <1>4 DEF WheelTick, StillArmed
  <2>2. b \in [time : TriggerTimes, age : 0 .. MaxTime, far : BOOLEAN] /\ b.time \in Nat
    BY <1>1, FoundationParameters DEF WheelParameters, TriggerTimes
  <2>3. a.time = b.time /\ a.age = b.age + 1 /\ a.far = b.far
        /\ a \in [time : TriggerTimes, age : Nat, far : BOOLEAN]
    BY <1>1, <2>1, <2>2
  <2>4. Underway(b)
    BY DEF WheelInv
  <2>5. SlotOf(b.time) \in Positions
    BY <2>2, SlotType
  <2>6. Left(SlotOf(b.time))' = Left(SlotOf(b.time)) - 1 /\ Left(SlotOf(b.time)) \in 1 .. WheelSize
    BY <1>1, <1>2, <2>1, <2>5, LeftTick, LeftType DEF SlotOf
  <2>7. a.age <= now'
    BY <1>1, <1>2, <2>2, <2>3, <2>4 DEF Underway
  <2>8. Left(SlotOf(a.time))' + a.age <= WheelSize
    BY <1>1, <2>2, <2>3, <2>4, <2>6 DEF Underway
  <2>9. a.far \/ a.time <= now' + WheelSize
    BY <1>1, <1>2, <2>2, <2>3, <2>4 DEF Underway
  <2> QED
    BY <1>1, <1>2, <2>3, <2>7, <2>8, <2>9 DEF Underway, SlotOf
<1>5. ASSUME NEW s \in Positions, NEW t \in slots'[s]
      PROVE  \E a \in asked'[t] : SlotOf(a.time) = s
  <2>1. s # pos' /\ t \in slots[s] /\ t \in Tasks
    BY <1>1, <1>2, <1>3, <1>5
  <2>2. PICK b \in asked[t] : SlotOf(b.time) = s
    BY <2>1 DEF WheelInv
  <2>3. [b EXCEPT !.age = @ + 1] \in asked'[t]
    BY <2>1, <2>2, Zenon DEF WheelTick, StillArmed
  <2>4. [b EXCEPT !.age = @ + 1].time = b.time
    BY <1>1, <2>1
  <2> QED
    BY <2>2, <2>3, <2>4, Zenon
<1>6. WheelTypeOK'
  <2>1. asked' \in [Tasks -> SUBSET [time : TriggerTimes, age : 0 .. MaxTime, far : BOOLEAN]]
    <3>1. asked' = [t \in Tasks |-> asked'[t]]
      BY DEF WheelTick
    <3> QED
      BY <1>4, <3>1
  <2> QED
    BY <1>1, <1>2, <1>3, <2>1 DEF WheelTypeOK
<1> QED
  BY <1>4, <1>5, <1>6 DEF WheelInv, SlotOf

(* A tick that the ticker drops leaves the wheel as it is.                 *)
LEMMA DropKeeps == ASSUME WheelInv, TickDropped PROVE WheelInv'
<1>1. /\ UNCHANGED <<pos, slots, fired, asked>> /\ now' = now + 1 /\ now' \in 0 .. MaxTime
      /\ now \in Nat /\ WheelSize \in Nat
  BY FoundationParameters DEF WheelParameters, TickDropped, WheelInv, WheelTypeOK
<1>2. \A t \in Tasks : \A a \in asked[t] : a.time \in Nat /\ a.age \in Nat
  BY FoundationParameters DEF WheelParameters, WheelInv, WheelTypeOK, TriggerTimes
<1>3. ASSUME NEW t \in Tasks, NEW a \in asked[t] PROVE Underway(a)'
  <2>1. Underway(a) /\ a.time \in Nat /\ a.age \in Nat
    BY <1>2 DEF WheelInv
  <2>2. Left(SlotOf(a.time))' = Left(SlotOf(a.time))
    BY <1>1 DEF Left, SlotOf
  <2> QED
    BY <1>1, <2>1, <2>2 DEF Underway, SlotOf
<1> QED
  BY <1>1, <1>3 DEF WheelInv, WheelTypeOK, SlotOf

(* The three parts of the invariant survive every step of the wheel.       *)
LEMMA NextWheel == ASSUME WheelInv, [WheelNext]_wheelVars PROVE WheelInv'
<1>1. CASE UNCHANGED wheelVars
  BY <1>1 DEF wheelVars, WheelInv, WheelTypeOK, Underway, Left, SlotOf
<1> QED
  BY <1>1, AddKeeps, TickKeeps, DropKeeps DEF WheelNext

(* For every size of the wheel, every phase it starts in, any ticks dropped    *)
(* and any times armed for, an armed task fires before the wheel has turned    *)
(* once.                                                                   *)
THEOREM WithinTurn == WheelSpec => []FiresWithinTurn
<1>1. WheelInv => FiresWithinTurn
  <2>1. SUFFICES ASSUME WheelInv, NEW t \in Tasks, NEW a \in asked[t] PROVE a.age < WheelSize
    BY DEF FiresWithinTurn
  <2>2. a.time \in Nat /\ a.age \in Nat /\ pos \in Positions /\ WheelSize \in Nat
    BY <2>1, FoundationParameters DEF WheelParameters, WheelInv, WheelTypeOK, TriggerTimes
  <2>3. Left(SlotOf(a.time)) \in 1 .. WheelSize
    BY <2>2, SlotType, LeftType
  <2>4. Left(SlotOf(a.time)) + a.age <= WheelSize
    BY <2>1 DEF WheelInv, Underway
  <2> QED
    BY <2>2, <2>3, <2>4
<1> QED
  BY <1>1, InitWheel, NextWheel, PTL DEF WheelSpec

(* processWheelTick passes OnTrigger no task before its time, unless the       *)
(* wheel is out of phase or the task was armed for more than a turn ahead.    *)
THEOREM NoneEarly == WheelSpec => NeverEarly
<1>1. ASSUME WheelInv, [WheelNext]_wheelVars, NEW t \in Tasks,
             pos' # pos, t \in fired', pos = now % WheelSize
      PROVE  \E a \in asked[t] : SlotOf(a.time) = pos' /\ (a.time <= now' \/ a.far)
  <2>1. WheelTick
    BY <1>1 DEF WheelNext, AddToWheel, TickDropped, wheelVars
  <2>2. now \in Nat /\ WheelSize \in Nat \ {0} /\ pos \in Positions
    BY <1>1, FoundationParameters DEF WheelParameters, WheelInv, WheelTypeOK
  <2>3. pos' \in Positions /\ fired' = slots[pos'] /\ now' = now + 1 /\ pos' = NextPos
    BY <2>1, <2>2, NextPosIs DEF WheelTick, Positions
  <2>4. PICK a \in asked[t] : SlotOf(a.time) = pos'
    BY <1>1, <2>3 DEF WheelInv
  <2>5. a.time \in Nat /\ (a.far \/ a.time <= now + WheelSize)
    BY <1>1, FoundationParameters
       DEF WheelParameters, WheelInv, WheelTypeOK, TriggerTimes, Underway
  <2>6. SlotOf(now + 1) = pos'
    BY <1>1, <2>2, <2>3, SlotAfter, NextPosIs, Zenon DEF SlotOf
  <2>7. a.time <= now + WheelSize => a.time <= now + 1
    BY <2>2, <2>4, <2>5, <2>6, SameSlot
  <2> QED
    BY <2>3, <2>4, <2>5, <2>7
<1>2. WheelInv /\ [WheelNext]_wheelVars
      => [\A t \in Tasks : pos' # pos /\ t \in fired' /\ pos = now % WheelSize
             => \E a \in asked[t] : SlotOf(a.time) = pos' /\ (a.time <= now' \/ a.far)]_wheelVars
  BY <1>1
<1> QED
  BY <1>2, InitWheel, NextWheel, PTL DEF WheelSpec, NeverEarly

--------------------------------------------------------------------------------
(* The migrations.                                                         *)

(* A statement whose table or column stays once it is there.               *)
Lasts(s) == s.do \in {"create", "add"} /\ s.on # "task_dependency"

(* What the statements before the n-th of file f made is there.            *)
Made(f, n) == \A k \in DOMAIN Files[f] :
                 k < n /\ Lasts(Files[f][k]) => Files[f][k].on \in schema

Attempts == [pc : {"idle", "run", "ready", "failed"}, starts : Nat, applied : SUBSET (1 .. 4),
             file : 1 .. 5, stmt : 1 .. 3, missing : BOOLEAN, seen : SUBSET (1 .. 4)]

(* An attempt has recorded, or found recorded, the files behind it; the         *)
(* statements of the current file behind it are done; a look that found the     *)
(* column can rely on it; and it fails only where something was done that it     *)
(* has not read.                                                           *)
Attempt(a) ==
    /\ a.applied \subseteq a.seen /\ a.seen \subseteq recorded
    /\ \A f \in 1 .. 4 : f < a.file => f \in recorded
    /\ a.file \in a.applied => a.stmt = 1
    /\ a.file \in 1 .. 4 => Made(a.file, a.stmt)
    /\ a.file = 2 /\ a.stmt = 2 /\ ~a.missing => "next_retry_time" \in schema
    /\ a.pc = "ready" => a.file = 5
    /\ a.pc = "failed" => \/ a.file \in recorded \ a.applied
                          \/ a.file = 2 /\ a.stmt = 2 /\ "next_retry_time" \in schema

MigrationInv ==
    /\ recorded \subseteq 1 .. 4 /\ mig \in [Processes -> Attempts]
    /\ \A f \in recorded : Made(f, 3)
    /\ \A q \in Processes : Attempt(mig[q])

(* The files: two statements each; only the dependencies are dropped, and a     *)
(* column is added after a look at it.                                      *)
LEMMA FilesAre ==
  /\ DOMAIN Files = 1 .. 4 /\ Len(Files) = 4
  /\ \A f \in 1 .. 4 : DOMAIN Files[f] = 1 .. 2 /\ Len(Files[f]) = 2
  /\ \A f \in 1 .. 4, k \in 1 .. 2 :
        /\ Files[f][k].do \in {"create", "drop", "look", "add"}
        /\ Files[f][k].do = "drop" => Files[f][k].on = "task_dependency"
        /\ Files[f][k].do = "create" /\ Files[f][k].on = "task_dependency" => f = 3
        /\ Files[f][k].do = "look" <=> f = 2 /\ k = 1
        /\ Files[f][k].do = "add" <=> f = 2 /\ k = 2
  /\ Files[2][1].on = "next_retry_time" /\ Files[2][2].on = "next_retry_time"
  /\ Files[3][2] = Destroy("task_dependency")
<1>1. DOMAIN Files = 1 .. 4 /\ Len(Files) = 4
  BY DEF Files
<1>2. /\ Files[1] = <<Create("task"), Create("task_instance")>>
      /\ Files[2] = <<Look("next_retry_time"), Add("next_retry_time")>>
      /\ Files[3] = <<Create("task_dependency"), Destroy("task_dependency")>>
      /\ Files[4] = <<Create("ai_conversation"), Create("ai_message")>>
  BY DEF Files
<1>3. \A f \in 1 .. 4 : f = 1 \/ f = 2 \/ f = 3 \/ f = 4
  OBVIOUS
<1>4. \A k \in 1 .. 2 : k = 1 \/ k = 2
  OBVIOUS
<1> QED
  BY <1>1, <1>2, <1>3, <1>4 DEF Create, Destroy, Look, Add

(* What one undisturbed run leaves is what lasts of the files.             *)
LEMMA AloneMade ==
  ASSUME \A f \in 1 .. 4 : Made(f, 3) PROVE Alone \subseteq schema
<1>1. SUFFICES ASSUME NEW f \in 1 .. 4, NEW o \in Created(f), o \notin Dropped(f)
               PROVE  o \in schema
  BY FilesAre DEF Alone
<1>2. PICK k \in 1 .. 2 : Files[f][k].do # "drop" /\ Files[f][k].on = o
  BY <1>1, FilesAre DEF Created
<1>3. CASE Files[f][k].do = "look"
  BY <1>2, <1>3, FilesAre DEF Made, Lasts
<1>4. CASE Files[f][k].do = "add"
  BY <1>2, <1>4, FilesAre DEF Made, Lasts
<1>5. CASE Files[f][k].do = "create"
  <2>1. o # "task_dependency"
    BY <1>1, <1>2, <1>5, FilesAre DEF Dropped, Destroy
  <2> QED
    BY <1>2, <1>5, <2>1, FilesAre DEF Made, Lasts
<1> QED
  BY <1>3, <1>4, <1>5, <1>2, FilesAre

(* What a process has behind it stays, whatever the others do: nothing is         *)
(* unrecorded, and only the dependencies are dropped.                         *)
LEMMA AttemptStays ==
  ASSUME recorded \subseteq recorded', schema \ {"task_dependency"} \subseteq schema'
  PROVE  /\ \A f, n : Made(f, n) => Made(f, n)'
         /\ \A a : Attempt(a) => Attempt(a)'
<1>1. \A f, n : Made(f, n) => Made(f, n)'
  BY DEF Made, Lasts
<1> QED
  BY <1>1 DEF Attempt

(* One process moves, and the others keep what they have.                  *)
LEMMA OneMoves ==
  ASSUME MigrationInv, NEW q \in Processes, NEW b \in Attempts, mig' = [mig EXCEPT ![q] = b],
         recorded \subseteq recorded', schema \ {"task_dependency"} \subseteq schema',
         recorded' \subseteq 1 .. 4, \A f \in recorded' \ recorded : Made(f, 3)', Attempt(b)'
  PROVE  MigrationInv'
<1>1. \A r \in Processes : mig'[r] = IF r = q THEN b ELSE mig[r]
  BY DEF MigrationInv
<1>2. mig' \in [Processes -> Attempts]
  BY DEF MigrationInv
<1>3. \A r \in Processes : (Attempt(mig[r]))'
  BY <1>1, AttemptStays DEF MigrationInv
<1>4. \A f \in recorded' : Made(f, 3)'
  BY AttemptStays DEF MigrationInv
<1> QED
  BY <1>2, <1>3, <1>4 DEF MigrationInv

(* RunMigrations: what was read is recorded, and the start begins at the first    *)
(* file.                                                                   *)
LEMMA LoadKeeps == ASSUME MigrationInv, NEW q \in Processes, Load(q) PROVE MigrationInv'
<1>1. PICK read \in SUBSET recorded : mig' = [mig EXCEPT ![q] = Started(q, read)]
  BY Zenon DEF Load
<1>2. PICK b : b = Started(q, read)
  OBVIOUS
<1>3. /\ b \in Attempts /\ b.applied = read /\ b.seen = recorded /\ b.file = 1 /\ b.stmt = 1
      /\ b.pc = "run"
  <2>1. b = [pc |-> "run", starts |-> mig[q].starts + 1, applied |-> read, file |-> 1,
             stmt |-> 1, missing |-> FALSE, seen |-> recorded]
    BY <1>2, Zenon DEF Started, Idle
  <2>2. mig[q].starts + 1 \in Nat /\ recorded \in SUBSET (1 .. 4)
    BY DEF MigrationInv, Attempts
  <2> QED
    BY <2>1, <2>2 DEF Attempts
<1>4. mig' = [mig EXCEPT ![q] = b] /\ UNCHANGED <<schema, recorded>>
  BY <1>1, <1>2, Zenon DEF Load
<1>5. Attempt(b)'
  BY <1>3, <1>4, FilesAre DEF Attempt, Made
<1> QED
  BY <1>3, <1>4, <1>5, OneMoves, Zenon DEF MigrationInv

(* A file that was read as applied is passed over.                         *)
LEMMA SkipKeeps == ASSUME MigrationInv, NEW q \in Processes, Skip(q) PROVE MigrationInv'
<1>1. PICK a \in Attempts : a = mig[q] /\ Attempt(a) /\ a.pc = "run" /\ a.file \in a.applied
  BY DEF MigrationInv, Skip, At
<1>2. PICK b : b = [a EXCEPT !.file = @ + 1]
  BY Zenon
<1>3. /\ b \in Attempts /\ b.file = a.file + 1 /\ b.stmt = 1 /\ b.pc = "run"
      /\ b.applied = a.applied /\ b.seen = a.seen
  BY <1>1, <1>2 DEF Attempts, Attempt
<1>4. mig' = [mig EXCEPT ![q] = b] /\ UNCHANGED <<schema, recorded>>
  BY <1>1, <1>2 DEF Skip
<1>5. Attempt(b)'
  <2>1. a.file \in recorded /\ a.file \in 1 .. 4
    BY <1>1 DEF Attempt, Attempts
  <2>2. b.file \in 1 .. 4 => Made(b.file, b.stmt)
    BY <1>3, FilesAre DEF Made
  <2> QED
    BY <1>1, <1>3, <1>4, <2>1, <2>2 DEF Attempt, Made
<1> QED
  BY <1>3, <1>4, <1>5, OneMoves, Zenon DEF MigrationInv

(* A statement makes its table or column before the next one, or fails where a   *)
(* rival has added the column since the look.                               *)
LEMMA ExecuteKeeps == ASSUME MigrationInv, NEW q \in Processes, Execute(q) PROVE MigrationInv'
<1>1. PICK a \in Attempts : a = mig[q] /\ Attempt(a) /\ a.pc = "run"
                            /\ a.file \in (1 .. 4) \ a.applied /\ a.stmt \in 1 .. 2
  <2>1. PICK a \in Attempts : a = mig[q] /\ Attempt(a)
    BY DEF MigrationInv
  <2>2. /\ a.pc = "run" /\ a.file \in DOMAIN Files \ a.applied
        /\ a.stmt <= Len(Files[a.file])
    BY <2>1, Zenon DEF Execute, Working, Current, At
  <2>3. a.file \in 1 .. 4 /\ a.stmt \in 1 .. 3 /\ Len(Files[a.file]) = 2
    BY <2>1, <2>2, FilesAre DEF Attempts
  <2> QED
    BY <2>1, <2>2, <2>3
<1>2. PICK s : s = Files[a.file][a.stmt]
  OBVIOUS
<1>3. UNCHANGED recorded /\ schema \ {"task_dependency"} \subseteq schema'
  BY <1>1, <1>2, FilesAre, Zenon DEF Execute, Current
<1>4. CASE s.do \in {"create", "drop"}
  <2>1. PICK b : b = [a EXCEPT !.stmt = @ + 1]
    BY Zenon
  <2>2. /\ b \in Attempts /\ b.stmt = a.stmt + 1 /\ b.file = a.file /\ b.pc = "run"
        /\ b.applied = a.applied /\ b.seen = a.seen
    BY <1>1, <2>1 DEF Attempts
  <2>3. mig' = [mig EXCEPT ![q] = b] /\ (s.do = "create" => s.on \in schema')
    BY <1>1, <1>2, <1>4, <2>1, Zenon DEF Execute, Current
  <2>4. Made(a.file, a.stmt)'
    BY <1>1, <1>3, AttemptStays DEF Attempt
  <2>5. ASSUME NEW k \in DOMAIN Files[b.file], k < b.stmt, Lasts(Files[b.file][k])
        PROVE  Files[b.file][k].on \in schema'
    <3>0. k \in 1 .. 2
      BY <1>1, <2>2, <2>5, FilesAre, Zenon
    <3>1. k < a.stmt \/ k = a.stmt
      BY <1>1, <2>2, <2>5, <3>0
    <3>2. CASE k < a.stmt
      BY <2>2, <2>4, <2>5, <3>2 DEF Made
    <3>3. CASE k = a.stmt
      BY <1>2, <1>4, <2>2, <2>3, <2>5, <3>3 DEF Lasts
    <3> QED
      BY <3>1, <3>2, <3>3
  <2>6. Made(b.file, b.stmt)'
    BY <2>5 DEF Made, Lasts
  <2>7. Attempt(b)'
    <3>1. a.file # 2
      BY <1>1, <1>2, <1>4, FilesAre
    <3> QED
      BY <1>1, <1>3, <2>2, <2>6, <3>1 DEF Attempt
  <2> QED
    BY <1>3, <2>2, <2>3, <2>7, OneMoves, Zenon DEF MigrationInv
<1>5. CASE s.do = "look"
  <2>0. PICK m \in BOOLEAN : m = (s.on \notin schema)
    BY Zenon
  <2>1. PICK b : b = [a EXCEPT !.stmt = @ + 1, !.missing = m]
    OBVIOUS
  <2>2. /\ b \in Attempts /\ b.stmt = 2 /\ b.file = 2 /\ b.pc = "run"
        /\ b.applied = a.applied /\ b.seen = a.seen /\ b.missing = m
        /\ a.file = 2 /\ a.stmt = 1 /\ s.on = "next_retry_time"
    <3>1. a.file = 2 /\ a.stmt = 1 /\ s.on = "next_retry_time"
      BY <1>1, <1>2, <1>5, FilesAre, Zenon
    <3>2. PICK c : c = [a EXCEPT !.stmt = @ + 1]
      BY Zenon
    <3>3. /\ c \in Attempts /\ c.stmt = a.stmt + 1 /\ c.file = a.file /\ c.pc = "run"
          /\ c.applied = a.applied /\ c.seen = a.seen
      BY <1>1, <3>2 DEF Attempts
    <3>4. b = [c EXCEPT !.missing = m]
      BY <2>1, <3>2
    <3>5. b \in Attempts /\ b.missing = m
      BY <2>0, <3>3, <3>4, Zenon DEF Attempts
    <3>6. /\ b.stmt = c.stmt /\ b.file = c.file /\ b.pc = c.pc /\ b.applied = c.applied
          /\ b.seen = c.seen
      BY <3>3, <3>4, Zenon DEF Attempts
    <3> QED
      BY <3>1, <3>3, <3>5, <3>6
  <2>3. mig' = [mig EXCEPT ![q] = b] /\ UNCHANGED schema
    <3>1. mig' = [[mig EXCEPT ![q].stmt = @ + 1] EXCEPT ![q].missing = s.on \notin schema]
          /\ UNCHANGED schema
      BY <1>1, <1>2, <1>5 DEF Execute, Current
    <3>2. mig \in [Processes -> Attempts]
      BY DEF MigrationInv
    <3> QED
      BY <1>1, <2>0, <2>1, <3>1, <3>2, Zenon
  <2>4. Made(b.file, b.stmt)'
    BY <1>2, <1>5, <2>2, FilesAre DEF Made, Lasts
  <2>5. Attempt(b)'
    BY <1>1, <1>3, <2>0, <2>2, <2>3, <2>4, Zenon DEF Attempt
  <2> QED
    BY <1>3, <2>2, <2>3, <2>5, OneMoves, Zenon DEF MigrationInv
<1>6. CASE s.do = "add" /\ (a.missing => s.on \notin schema)
  <2>1. PICK b : b = [a EXCEPT !.stmt = @ + 1]
    BY Zenon
  <2>2. /\ b \in Attempts /\ b.stmt = 3 /\ b.file = 2 /\ b.pc = "run"
        /\ b.applied = a.applied /\ b.seen = a.seen
        /\ a.file = 2 /\ a.stmt = 2 /\ s.on = "next_retry_time"
    <3>1. a.file = 2 /\ a.stmt = 2 /\ s.on = "next_retry_time"
      BY <1>1, <1>2, <1>6, FilesAre, Zenon
    <3> QED
      BY <1>1, <2>1, <3>1 DEF Attempts
  <2>3. mig' = [mig EXCEPT ![q] = b] /\ "next_retry_time" \in schema'
    BY <1>1, <1>2, <1>6, <2>1, <2>2 DEF Execute, Current, Attempt
  <2>4. Made(b.file, b.stmt)'
    BY <2>2, <2>3, FilesAre DEF Made, Lasts
  <2>5. Attempt(b)'
    BY <1>1, <1>3, <2>2, <2>4 DEF Attempt
  <2> QED
    BY <1>3, <2>2, <2>3, <2>5, OneMoves, Zenon DEF MigrationInv
<1>7. CASE s.do = "add" /\ a.missing /\ s.on \in schema
  <2>1. PICK b : b = [a EXCEPT !.pc = "failed"]
    BY Zenon
  <2>2. /\ b \in Attempts /\ b.stmt = a.stmt /\ b.file = a.file /\ b.pc = "failed"
        /\ b.applied = a.applied /\ b.seen = a.seen /\ b.missing = a.missing
        /\ a.file = 2 /\ a.stmt = 2 /\ s.on = "next_retry_time"
    <3>1. a.file = 2 /\ a.stmt = 2 /\ s.on = "next_retry_time"
      BY <1>1, <1>2, <1>7, FilesAre, Zenon
    <3> QED
      BY <1>1, <2>1, <3>1 DEF Attempts
  <2>3. mig' = [mig EXCEPT ![q] = b] /\ UNCHANGED schema
    BY <1>1, <1>2, <1>7, <2>1, Zenon DEF Execute, Current, Fails
  <2>4. Attempt(b)'
    BY <1>1, <1>3, <1>7, <2>2, <2>3 DEF Attempt, Made
  <2> QED
    BY <1>3, <2>2, <2>3, <2>4, OneMoves, Zenon DEF MigrationInv
<1>8. s.do \in {"create", "drop", "look", "add"}
  BY <1>1, <1>2, FilesAre, Zenon
<1> QED
  BY <1>4, <1>5, <1>6, <1>7, <1>8

(* A file is recorded once, when its statements are done; who comes second      *)
(* fails.                                                                  *)
LEMMA RecordKeeps == ASSUME MigrationInv, NEW q \in Processes, Record(q) PROVE MigrationInv'
<1>1. PICK a \in Attempts : a = mig[q] /\ Attempt(a) /\ a.pc = "run"
                            /\ a.file \in (1 .. 4) \ a.applied /\ a.stmt = 3
  <2>1. PICK a \in Attempts : a = mig[q] /\ Attempt(a)
    BY DEF MigrationInv
  <2>2. /\ a.pc = "run" /\ a.file \in DOMAIN Files \ a.applied
        /\ a.stmt > Len(Files[a.file])
    BY <2>1 DEF Record, Working, Current, At
  <2>3. a.file \in 1 .. 4 /\ a.stmt \in 1 .. 3 /\ Len(Files[a.file]) = 2
    BY <2>1, <2>2, FilesAre DEF Attempts
  <2> QED
    BY <2>1, <2>2, <2>3
<1>2. CASE a.file \in recorded
  <2>1. PICK b : b = [a EXCEPT !.pc = "failed"]
    BY Zenon
  <2>2. /\ b \in Attempts /\ b.stmt = a.stmt /\ b.file = a.file /\ b.pc = "failed"
        /\ b.applied = a.applied /\ b.seen = a.seen /\ b.missing = a.missing
    BY <1>1, <2>1 DEF Attempts
  <2>3. mig' = [mig EXCEPT ![q] = b] /\ UNCHANGED <<schema, recorded>>
    BY <1>1, <1>2, <2>1 DEF Record, Fails
  <2>4. Attempt(b)'
    BY <1>1, <1>2, <2>2, <2>3 DEF Attempt, Made
  <2> QED
    BY <2>2, <2>3, <2>4, OneMoves, Zenon DEF MigrationInv
<1>3. CASE a.file \notin recorded
  <2>1. PICK b : b = [a EXCEPT !.file = @ + 1, !.stmt = 1]
    OBVIOUS
  <2>2. /\ b \in Attempts /\ b.stmt = 1 /\ b.file = a.file + 1 /\ b.pc = "run"
        /\ b.applied = a.applied /\ b.seen = a.seen
    <3>1. a.file + 1 \in 1 .. 5
      BY <1>1
    <3>2. b = [pc |-> "run", starts |-> a.starts, applied |-> a.applied, file |-> a.file + 1,
               stmt |-> 1, missing |-> a.missing, seen |-> a.seen]
      BY <1>1, <2>1, Zenon DEF Attempts
    <3> QED
      BY <3>1, <3>2 DEF Attempts
  <2>3. /\ mig' = [mig EXCEPT ![q] = b] /\ UNCHANGED schema
        /\ recorded' = recorded \cup {a.file}
    BY <1>1, <1>3, <2>1, Zenon DEF Record
  <2>4. Attempt(b)'
    <3>1. b.file \in 1 .. 4 => Made(b.file, b.stmt)
      BY <2>2, FilesAre DEF Made
    <3>2. \A f \in 1 .. 4 : f < b.file => f \in recorded'
      BY <1>1, <2>2, <2>3 DEF Attempt
    <3>3. b.file \in b.applied => b.stmt = 1
      BY <2>2
    <3> QED
      BY <1>1, <2>2, <2>3, <3>1, <3>2, <3>3 DEF Attempt, Made
  <2>5. Made(a.file, 3)'
    BY <1>1, <2>3 DEF Attempt, Made
  <2> QED
    BY <1>1, <2>2, <2>3, <2>4, <2>5, OneMoves, Zenon DEF MigrationInv
<1> QED
  BY <1>2, <1>3

(* The end of the loop over the files.                                     *)
LEMMA FinishKeeps == ASSUME MigrationInv, NEW q \in Processes, Finish(q) PROVE MigrationInv'
<1>1. PICK a \in Attempts : a = mig[q] /\ Attempt(a)
  BY DEF MigrationInv
<1>2. /\ mig' = [mig EXCEPT ![q].pc = "ready"] /\ a.file = 5
      /\ UNCHANGED <<schema, recorded>>
  BY <1>1, FilesAre DEF Finish, Attempts
<1>3. PICK b : b = [a EXCEPT !.pc = "ready"]
  BY Zenon
<1>4. /\ b \in Attempts /\ b.stmt = a.stmt /\ b.file = a.file /\ b.pc = "ready"
      /\ b.applied = a.applied /\ b.seen = a.seen /\ b.missing = a.missing
  BY <1>1, <1>3 DEF Attempts
<1>5. Attempt(b)'
  BY <1>1, <1>2, <1>4 DEF Attempt, Made
<1>6. mig' = [mig EXCEPT ![q] = b]
  BY <1>1, <1>2, <1>3
<1> QED
  BY <1>2, <1>4, <1>5, <1>6, OneMoves, Zenon DEF MigrationInv

(* The end of a process: the next one begins with the first file.          *)
LEMMA ExitKeeps == ASSUME MigrationInv, NEW q \in Processes, Exit(q) PROVE MigrationInv'
<1>1. mig[q].starts \in Nat
  BY DEF MigrationInv, Attempts
<1>2. PICK b : b = [Idle EXCEPT !.starts = mig[q].starts]
  BY Zenon
<1>3. b = [pc |-> "idle", starts |-> mig[q].starts, applied |-> {}, file |-> 1, stmt |-> 1,
           missing |-> FALSE, seen |-> {}]
  BY <1>2, Zenon DEF Idle
<1>4. /\ b \in Attempts /\ b.stmt = 1 /\ b.file = 1 /\ b.pc = "idle"
      /\ b.applied = {} /\ b.seen = {}
  BY <1>1, <1>3 DEF Attempts
<1>5. mig' = [mig EXCEPT ![q] = b] /\ UNCHANGED <<schema, recorded>>
  BY <1>2 DEF Exit
<1>6. Attempt(b)'
  BY <1>4, FilesAre DEF Attempt, Made
<1> QED
  BY <1>4, <1>5, <1>6, OneMoves, Zenon DEF MigrationInv

(* Before any service starts nothing is recorded.                          *)
LEMMA InitMigration == MigrationInit => MigrationInv
<1>1. SUFFICES ASSUME MigrationInit PROVE MigrationInv
  OBVIOUS
<1>2. Idle \in Attempts
  BY DEF Idle, Attempts
<1>3. Attempt(Idle)
  BY FilesAre DEF Idle, Attempt, Made
<1> QED
  BY <1>1, <1>2, <1>3 DEF MigrationInit, MigrationInv

(* Whichever process moves, the invariant of the migrations holds on.      *)
LEMMA NextMigration == ASSUME MigrationInv, [MigrationNext]_migrationVars PROVE MigrationInv'
<1>1. CASE UNCHANGED migrationVars
  BY <1>1 DEF migrationVars, MigrationInv, Attempt, Made
<1> QED
  BY <1>1, LoadKeeps, SkipKeeps, ExecuteKeeps, RecordKeeps, FinishKeeps,
     ExitKeeps DEF MigrationNext

(* RunMigrations: however many processes start at once, however often they       *)
(* crash between two statements and start again, and whatever their reading of    *)
(* the tracking table misses, a service that got through finds what an           *)
(* undisturbed run leaves, and an attempt that missed nothing is refused only      *)
(* behind a rival.                                                         *)
THEOREM Converges == MigrationSpec => []MigrationsConverge
<1>1. MigrationInv => MigrationsConverge
  <2>1. SUFFICES ASSUME MigrationInv, NEW q \in Processes
                 PROVE  /\ mig[q].pc = "ready" => Alone \subseteq schema
                        /\ mig[q].pc = "failed" /\ mig[q].applied = mig[q].seen
                              => \/ recorded \ mig[q].seen # {}
                                 \/ /\ mig[q].stmt \in DOMAIN Current(q)
                                    /\ Current(q)[mig[q].stmt].on \in schema
    BY DEF MigrationsConverge, SchemaComplete, FailsBehindRival, At
  <2>2. Attempt(mig[q]) /\ mig[q] \in Attempts
    BY <2>1 DEF MigrationInv
  <2>3. mig[q].pc = "ready" => Alone \subseteq schema
    <3>1. ASSUME mig[q].pc = "ready" PROVE \A f \in 1 .. 4 : Made(f, 3)
      BY <2>1, <2>2, <3>1 DEF Attempt, MigrationInv
    <3> QED
      BY <3>1, AloneMade
  <2> QED
    BY <2>2, <2>3, FilesAre DEF Attempt, Current
<1> QED
  BY <1>1, InitMigration, NextMigration, PTL DEF MigrationSpec

--------------------------------------------------------------------------------
(* The repositories.                                                       *)

TaskRecords == [name : Names, status : {"enabled", "disabled"}, next : Times, event : BOOLEAN,
                version : Nat]

Reached == {"pending", "retry_waiting", "dispatched", "success"}

InstanceRecords == [task : {TaskOf[s] : s \in Scheds}, sched : Scheds, status : Reached,
                    worker : {"", "w"}, dispatch : Times, start : Times, finish : Times,
                    retry : Times, analysis : BOOLEAN, shard : {1}]

(* The tables hold the tasks of the map, as rows, and its edges.           *)
SameTasks ==
    /\ mem.tasks \in [DOMAIN mem.tasks -> TaskRecords]
    /\ db.tasks = [i \in DOMAIN mem.tasks |-> TaskToRow(mem.tasks[i])]
    /\ db.nextTask = mem.nextTask
    /\ db.deps = DOMAIN mem.deps

(* The row of an instance.                                                 *)
SameRow(q, r) ==
    /\ DOMAIN q = {"task", "sched", "status", "worker", "dispatch", "start", "finish", "retry",
                   "analysis"}
    /\ q.task = r.task /\ q.sched = r.sched /\ q.status = r.status /\ q.worker = r.worker
    /\ q.dispatch = TimeOrNil(r.dispatch) /\ q.start = TimeOrNil(r.start)
    /\ q.finish = TimeOrNil(r.finish) /\ q.retry = TimeOrNil(r.retry)
    /\ q.analysis = r.analysis

(* The same for the instances; no id has been given out twice, so the index by   *)
(* schedule id finds the one row that has it.                                *)
SameInstances ==
    /\ mem.insts \in [DOMAIN mem.insts -> InstanceRecords]
    /\ DOMAIN db.insts = DOMAIN mem.insts
    /\ \A i \in DOMAIN mem.insts : SameRow(db.insts[i], mem.insts[i])
    /\ db.nextInst = mem.nextInst /\ mem.nextInst \in Nat
    /\ \A i \in DOMAIN mem.insts : i \in Nat /\ i < mem.nextInst
    /\ \A s \in Scheds : MemBySchedule(s) = SqlBySchedule(s)

RepoInv ==
    /\ DOMAIN mem = {"tasks", "nextTask", "deps", "insts", "nextInst", "bySched", "workers"}
    /\ DOMAIN db = {"tasks", "nextTask", "deps", "insts", "nextInst", "workers"}
    /\ causes = {} => SameTasks /\ SameInstances /\ mem.workers = db.workers

(* timeOrNil and back: the zero time is NULL, every other time is itself.  *)
LEMMA TimesAre ==
  /\ 0 \in Times /\ Times \subseteq Nat
  /\ \A t \in Times : OrZero(TimeOrNil(t)) = t /\ (TimeOrNil(t) = Null <=> t = 0)
                       /\ (t # 0 => TimeOrNil(t) = t)
<1>1. LastTime \in Nat /\ Null \notin Nat
  BY FoundationParameters DEF RepositoryParameters
<1> QED
  BY <1>1 DEF Times, OrZero, TimeOrNil

(* What is stored as a row is read back, but for what has no column.       *)
LEMMA ReadBack ==
  /\ \A t \in TaskRecords : RowToTask(TaskToRow(t)) = [t EXCEPT !.event = FALSE]
  /\ \A r \in InstanceRecords : \A q : SameRow(q, r) => RowToInstance(q) = [r EXCEPT !.shard = 0]
<1>1. ASSUME NEW t \in TaskRecords PROVE RowToTask(TaskToRow(t)) = [t EXCEPT !.event = FALSE]
  <2>1. OrZero(TimeOrNil(t.next)) = t.next
    BY TimesAre, Zenon DEF TaskRecords
  <2>2. \A e : [name |-> t.name, status |-> t.status, next |-> t.next, event |-> e,
               version |-> t.version] = [t EXCEPT !.event = e]
    BY DEF TaskRecords
  <2>3. RowToTask(TaskToRow(t)) = [name |-> t.name, status |-> t.status, next |-> t.next,
                                   event |-> FALSE, version |-> t.version]
    BY <2>1, Zenon DEF RowToTask, TaskToRow
  <2> QED
    BY <2>2, <2>3, Zenon
<1>2. ASSUME NEW r \in InstanceRecords, NEW q, SameRow(q, r)
      PROVE  RowToInstance(q) = [r EXCEPT !.shard = 0]
  <2>1. /\ OrZero(TimeOrNil(r.dispatch)) = r.dispatch /\ OrZero(TimeOrNil(r.start)) = r.start
        /\ OrZero(TimeOrNil(r.finish)) = r.finish /\ OrZero(TimeOrNil(r.retry)) = r.retry
    BY TimesAre, Zenon DEF InstanceRecords
  <2> QED
    <3>1. RowToInstance(q) =
             [task |-> r.task, sched |-> r.sched, status |-> r.status, worker |-> r.worker,
              dispatch |-> r.dispatch, start |-> r.start, finish |-> r.finish, retry |-> r.retry,
              analysis |-> r.analysis, shard |-> 0]
      BY <1>2, <2>1, Zenon DEF RowToInstance, SameRow
    <3>2. \A x : [task |-> r.task, sched |-> r.sched, status |-> r.status, worker |-> r.worker,
                 dispatch |-> r.dispatch, start |-> r.start, finish |-> r.finish,
                 retry |-> r.retry, analysis |-> r.analysis, shard |-> x] = [r EXCEPT !.shard = x]
      <4>1. r = [task |-> r.task, sched |-> r.sched, status |-> r.status, worker |-> r.worker,
                 dispatch |-> r.dispatch, start |-> r.start, finish |-> r.finish,
                 retry |-> r.retry, analysis |-> r.analysis, shard |-> r.shard]
        BY Zenon DEF InstanceRecords
      <4> QED
        BY <4>1
    <3> QED
      BY <3>1, <3>2, Zenon
<1> QED
  BY <1>1, <1>2, Zenon

(* A call leaves what both leave, and a cause if they answer differently.  *)
LEMMA Called ==
  ASSUME NEW a, NEW x, NEW b, NEW y, NEW why, Call(Returns(a, x), Returns(b, y), why)
  PROVE  /\ mem' = x /\ db' = y
         /\ causes' = {} => a = b /\ why = {}
<1>1. /\ Returns(a, x).ok = a /\ Returns(b, y).ok = b
      /\ Returns(a, x).to = x /\ Returns(b, y).to = y
  BY Zenon DEF Returns
<1>2. mem' = x /\ db' = y
  BY <1>1, Zenon DEF Call
<1>3. causes' = causes \cup (IF a = b THEN {} ELSE {"answer"}) \cup why
  BY <1>1, Zenon DEF Call
<1>4. causes' = {} => a = b /\ why = {}
  BY <1>3
<1> QED
  BY <1>2, <1>4

(* A call that the map always answers.                                     *)
LEMMA CalledFreely ==
  ASSUME NEW x, NEW b \in BOOLEAN, NEW y, Call(Returns(TRUE, x), Returns(b, y), {})
  PROVE  mem' = x /\ db' = y /\ (causes' = {} => b)
<1>1. PICK why : why = {}
  OBVIOUS
<1>2. PICK a : a = TRUE
  BY Zenon
<1>3. Call(Returns(a, x), Returns(b, y), why)
  BY <1>1, <1>2, Zenon
<1>4. mem' = x /\ db' = y /\ (causes' = {} => a = b)
  BY <1>3, Called, Zenon
<1> QED
  BY <1>2, <1>4, Zenon

(* A call that the tables always answer.                                   *)
LEMMA CalledSafely ==
  ASSUME NEW a, NEW x, NEW y, NEW why, Call(Returns(a, x), Returns(TRUE, y), why)
  PROVE  mem' = x /\ db' = y /\ (causes' = {} => why = {})
<1>1. PICK b : b = TRUE
  BY Zenon
<1>2. Call(Returns(a, x), Returns(b, y), why)
  BY <1>1, Zenon
<1> QED
  BY <1>2, Called, Zenon

(* The instances rest, and the tasks.                                      *)
LEMMA InstancesRest ==
  ASSUME SameInstances, mem'.insts = mem.insts, mem'.nextInst = mem.nextInst,
         mem'.bySched = mem.bySched, db'.insts = db.insts, db'.nextInst = db.nextInst
  PROVE  SameInstances'
  BY DEF SameInstances, MemBySchedule, SqlBySchedule

(* A call that leaves the tables of tasks and edges alone.                 *)
LEMMA TasksRest ==
  ASSUME SameTasks, mem'.tasks = mem.tasks, mem'.nextTask = mem.nextTask, mem'.deps = mem.deps,
         db'.tasks = db.tasks, db'.nextTask = db.nextTask, db'.deps = db.deps
  PROVE  SameTasks'
  BY DEF SameTasks

(* A call changes instances in the map and their rows alike.               *)
LEMMA InstancesChange ==
  ASSUME RepoInv, causes = {}, NEW M, NEW D,
         mem' = [mem EXCEPT !.insts = M], db' = [db EXCEPT !.insts = D],
         DOMAIN M = DOMAIN mem.insts, M = [i \in DOMAIN M |-> M[i]], DOMAIN D = DOMAIN db.insts,
         causes' = {} => \A i \in DOMAIN mem.insts :
            M[i] \in InstanceRecords /\ M[i].sched = mem.insts[i].sched /\ SameRow(D[i], M[i])
  PROVE  RepoInv'
<1>1. /\ DOMAIN mem' = DOMAIN mem /\ mem'.tasks = mem.tasks /\ mem'.nextTask = mem.nextTask
      /\ mem'.deps = mem.deps /\ mem'.insts = M /\ mem'.nextInst = mem.nextInst
      /\ mem'.bySched = mem.bySched /\ mem'.workers = mem.workers
  BY DEF RepoInv
<1>2. /\ DOMAIN db' = DOMAIN db /\ db'.tasks = db.tasks /\ db'.nextTask = db.nextTask
      /\ db'.deps = db.deps /\ db'.insts = D /\ db'.nextInst = db.nextInst
      /\ db'.workers = db.workers
  BY DEF RepoInv
<1>3. ASSUME causes' = {} PROVE SameInstances'
  <2>1. DOMAIN db.insts = DOMAIN mem.insts
    BY DEF RepoInv, SameInstances
  <2>2. \A i \in DOMAIN D : D[i].sched = db.insts[i].sched
    BY <1>3, <2>1 DEF RepoInv, SameInstances, SameRow
  <2>3. \A s \in Scheds : SqlBySchedule(s)' = SqlBySchedule(s)
                          /\ MemBySchedule(s)' = MemBySchedule(s)
    BY <1>1, <1>2, <2>2 DEF SqlBySchedule, MemBySchedule
  <2>4. M \in [DOMAIN M -> InstanceRecords]
    BY <1>3
  <2> QED
    BY <1>1, <1>2, <1>3, <2>1, <2>3, <2>4 DEF RepoInv, SameInstances
<1>4. causes' = {} => SameTasks'
  BY <1>1, <1>2, TasksRest DEF RepoInv
<1> QED
  BY <1>1, <1>2, <1>3, <1>4 DEF RepoInv

(* A row that gets the columns that the record gets goes on to be its row.  *)
LEMMA StatusFollows ==
  ASSUME NEW r \in InstanceRecords, NEW q, SameRow(q, r), NEW s \in Reached
  PROVE  /\ [r EXCEPT !.status = s] \in InstanceRecords
         /\ [r EXCEPT !.status = s].sched = r.sched
         /\ SameRow([q EXCEPT !.status = s], [r EXCEPT !.status = s])
  BY Zenon DEF InstanceRecords, SameRow

(* UpdateInstanceDispatch on both sides: an entry and its row stay alike.    *)
LEMMA DispatchFollows ==
  ASSUME NEW r \in InstanceRecords, NEW q, SameRow(q, r), NEW t \in Times
  PROVE  LET e == [r EXCEPT !.worker = "w", !.status = "dispatched", !.dispatch = t]
         IN  /\ e \in InstanceRecords /\ e.sched = r.sched
             /\ SameRow([q EXCEPT !.worker = "w", !.status = "dispatched",
                                  !.dispatch = TimeOrNil(t)], e)
<1>1. PICK e : e = [r EXCEPT !.worker = "w", !.status = "dispatched", !.dispatch = t]
  OBVIOUS
<1>2. e \in InstanceRecords /\ e.sched = r.sched
  BY <1>1, Zenon DEF InstanceRecords, Reached
<1>3. SameRow([q EXCEPT !.worker = "w", !.status = "dispatched", !.dispatch = TimeOrNil(t)], e)
  BY <1>1, Zenon DEF InstanceRecords, SameRow
<1> QED
  BY <1>1, <1>2, <1>3, Zenon

(* UpdateInstanceTimestamps on both sides, where no time is overwritten by     *)
(* the zero time.                                                          *)
LEMMA TimesFollow ==
  ASSUME NEW r \in InstanceRecords, NEW q, SameRow(q, r), NEW a \in Times, NEW b \in Times
  PROVE  /\ [r EXCEPT !.start = a, !.finish = b] \in InstanceRecords
         /\ [r EXCEPT !.start = a, !.finish = b].sched = r.sched
         /\ SameRow([q EXCEPT !.start = TimeOrNil(a), !.finish = TimeOrNil(b)],
                    [r EXCEPT !.start = a, !.finish = b])
<1>1. PICK e : e = [r EXCEPT !.start = a, !.finish = b]
  OBVIOUS
<1>2. e \in InstanceRecords /\ e.sched = r.sched
  BY <1>1, Zenon DEF InstanceRecords
<1>3. SameRow([q EXCEPT !.start = TimeOrNil(a), !.finish = TimeOrNil(b)], e)
  BY <1>1, Zenon DEF InstanceRecords, SameRow
<1> QED
  BY <1>1, <1>2, <1>3, Zenon

(* The analysis of a run on both sides.                                    *)
LEMMA AnalysisFollows ==
  ASSUME NEW r \in InstanceRecords, NEW q, SameRow(q, r), NEW x \in BOOLEAN
  PROVE  /\ [r EXCEPT !.analysis = x] \in InstanceRecords
         /\ [r EXCEPT !.analysis = x].sched = r.sched
         /\ SameRow([q EXCEPT !.analysis = x], [r EXCEPT !.analysis = x])
  BY Zenon DEF InstanceRecords, SameRow

(* UpdateInstanceStatus finds the same instance by its id.                 *)
LEMMA StatusKeeps ==
  ASSUME RepoInv, causes = {}, NEW i, UpdateInstanceStatus(i, "retry_waiting")
  PROVE  RepoInv'
<1>1. PICK M : M = [j \in DOMAIN mem.insts |-> IF j \in {i}
                       THEN [mem.insts[j] EXCEPT !.status = "retry_waiting"] ELSE mem.insts[j]]
  BY Zenon
<1>2. PICK D : D = [j \in DOMAIN db.insts |-> IF j \in {i}
                       THEN [db.insts[j] EXCEPT !.status = "retry_waiting"] ELSE db.insts[j]]
  BY Zenon
<1>3. mem' = [mem EXCEPT !.insts = M] /\ db' = [db EXCEPT !.insts = D]
  BY <1>1, <1>2, Called, Zenon
     DEF UpdateInstanceStatus, MemUpdateInstanceStatus, SqlUpdateInstanceStatus,
         MemUpdate, SqlUpdate, Changed
<1>4. ASSUME NEW j \in DOMAIN mem.insts
      PROVE  M[j] \in InstanceRecords /\ M[j].sched = mem.insts[j].sched /\ SameRow(D[j], M[j])
  <2>1. PICK a \in InstanceRecords : a = mem.insts[j]
    BY DEF RepoInv, SameInstances
  <2>2. PICK b : b = db.insts[j] /\ SameRow(b, a)
    BY <2>1 DEF RepoInv, SameInstances
  <2>3. /\ j # i => M[j] = a /\ D[j] = b
        /\ j = i => /\ M[j] = [a EXCEPT !.status = "retry_waiting"]
                    /\ D[j] = [b EXCEPT !.status = "retry_waiting"]
    BY <1>1, <1>2, <2>1, <2>2 DEF RepoInv, SameInstances
  <2>4. /\ [a EXCEPT !.status = "retry_waiting"] \in InstanceRecords
        /\ [a EXCEPT !.status = "retry_waiting"].sched = a.sched
        /\ SameRow([b EXCEPT !.status = "retry_waiting"], [a EXCEPT !.status = "retry_waiting"])
    BY <2>1, <2>2, StatusFollows, Zenon DEF Reached
  <2> QED
    BY <2>1, <2>2, <2>3, <2>4, Zenon
<1>5. DOMAIN M = DOMAIN mem.insts /\ M = [j \in DOMAIN M |-> M[j]] /\ DOMAIN D = DOMAIN db.insts
  BY <1>1, <1>2
<1> QED
  BY <1>3, <1>4, <1>5, InstancesChange

(* The result of a run, found by the schedule id.                          *)
LEMMA ResultKeeps ==
  ASSUME RepoInv, causes = {}, NEW s \in Scheds, UpdateInstanceResult(s, "success")
  PROVE  RepoInv'
<1>1. PICK M : M = [j \in DOMAIN mem.insts |->
                      IF j \in MemBySchedule(s)
                      THEN [mem.insts[j] EXCEPT !.status = "success"]
                      ELSE mem.insts[j]]
  BY Zenon
<1>2. PICK D : D = [j \in DOMAIN db.insts |->
                      IF j \in SqlBySchedule(s)
                      THEN [db.insts[j] EXCEPT !.status = "success"]
                      ELSE db.insts[j]]
  BY Zenon
<1>3. /\ mem' = [mem EXCEPT !.insts = M] /\ db' = [db EXCEPT !.insts = D]
  BY <1>1, <1>2, Called, Zenon
     DEF UpdateInstanceResult, MemUpdateInstanceResult, SqlUpdateInstanceResult,
         MemUpdate, SqlUpdate, Changed
<1>4. ASSUME NEW j \in DOMAIN mem.insts
      PROVE  M[j] \in InstanceRecords /\ M[j].sched = mem.insts[j].sched /\ SameRow(D[j], M[j])
  <2>1. PICK a \in InstanceRecords : a = mem.insts[j]
    BY DEF RepoInv, SameInstances
  <2>2. PICK b : b = db.insts[j] /\ SameRow(b, a)
    BY <2>1 DEF RepoInv, SameInstances
  <2>3. MemBySchedule(s) = SqlBySchedule(s)
    BY Zenon DEF RepoInv, SameInstances
  <2>4. /\ j \notin MemBySchedule(s) => M[j] = a /\ D[j] = b
        /\ j \in MemBySchedule(s) => /\ M[j] = [a EXCEPT !.status = "success"]
                                        /\ D[j] = [b EXCEPT !.status = "success"]
    BY <1>1, <1>2, <2>1, <2>2, <2>3 DEF RepoInv, SameInstances
  <2>5. /\ [a EXCEPT !.status = "success"] \in InstanceRecords
        /\ [a EXCEPT !.status = "success"].sched = a.sched
        /\ SameRow([b EXCEPT !.status = "success"], [a EXCEPT !.status = "success"])
    BY <2>1, <2>2, StatusFollows, Zenon DEF Reached
  <2> QED
    BY <2>1, <2>2, <2>4, <2>5, Zenon
<1>5. DOMAIN M = DOMAIN mem.insts /\ M = [j \in DOMAIN M |-> M[j]] /\ DOMAIN D = DOMAIN db.insts
  BY <1>1, <1>2
<1> QED
  BY <1>3, <1>4, <1>5, InstancesChange

(* The analysis, found by the schedule id.                                 *)
LEMMA AnalysisKeeps ==
  ASSUME RepoInv, causes = {}, NEW s \in Scheds, UpdateInstanceAnalysis(s)
  PROVE  RepoInv'
<1>1. PICK M : M = [j \in DOMAIN mem.insts |->
                      IF j \in MemBySchedule(s)
                      THEN [mem.insts[j] EXCEPT !.analysis = TRUE]
                      ELSE mem.insts[j]]
  BY Zenon
<1>2. PICK D : D = [j \in DOMAIN db.insts |->
                      IF j \in SqlBySchedule(s)
                      THEN [db.insts[j] EXCEPT !.analysis = TRUE]
                      ELSE db.insts[j]]
  BY Zenon
<1>3. /\ mem' = [mem EXCEPT !.insts = M] /\ db' = [db EXCEPT !.insts = D]
  BY <1>1, <1>2, Called, Zenon
     DEF UpdateInstanceAnalysis, MemUpdateInstanceAnalysis, SqlUpdateInstanceAnalysis,
         MemUpdate, SqlUpdate, Changed
<1>4. ASSUME NEW j \in DOMAIN mem.insts
      PROVE  M[j] \in InstanceRecords /\ M[j].sched = mem.insts[j].sched /\ SameRow(D[j], M[j])
  <2>1. PICK a \in InstanceRecords : a = mem.insts[j]
    BY DEF RepoInv, SameInstances
  <2>2. PICK b : b = db.insts[j] /\ SameRow(b, a)
    BY <2>1 DEF RepoInv, SameInstances
  <2>3. MemBySchedule(s) = SqlBySchedule(s)
    BY Zenon DEF RepoInv, SameInstances
  <2>4. /\ j \notin MemBySchedule(s) => M[j] = a /\ D[j] = b
        /\ j \in MemBySchedule(s) => /\ M[j] = [a EXCEPT !.analysis = TRUE]
                                        /\ D[j] = [b EXCEPT !.analysis = TRUE]
    BY <1>1, <1>2, <2>1, <2>2, <2>3, Zenon DEF RepoInv, SameInstances
  <2>5. /\ [a EXCEPT !.analysis = TRUE] \in InstanceRecords
        /\ [a EXCEPT !.analysis = TRUE].sched = a.sched
        /\ SameRow([b EXCEPT !.analysis = TRUE], [a EXCEPT !.analysis = TRUE])
    BY <2>1, <2>2, AnalysisFollows, Zenon
  <2> QED
    BY <2>1, <2>2, <2>4, <2>5, Zenon
<1>5. DOMAIN M = DOMAIN mem.insts /\ M = [j \in DOMAIN M |-> M[j]] /\ DOMAIN D = DOMAIN db.insts
  BY <1>1, <1>2
<1> QED
  BY <1>3, <1>4, <1>5, InstancesChange

(* An empty dispatch time comes with a cause where there was one.          *)
LEMMA DispatchKeeps ==
  ASSUME RepoInv, causes = {}, NEW i, NEW t \in Times, UpdateInstanceDispatch(i, t)
  PROVE  RepoInv'
<1>1. PICK M : M = [j \in DOMAIN mem.insts |->
                      IF j \in {i}
                      THEN [mem.insts[j] EXCEPT !.worker = "w", !.status = "dispatched", 
                                                  !.dispatch = IF t = 0 THEN @ ELSE t]
                      ELSE mem.insts[j]]
  BY Zenon
<1>2. PICK D : D = [j \in DOMAIN db.insts |->
                      IF j \in {i}
                      THEN [db.insts[j] EXCEPT !.worker = "w", !.status = "dispatched", 
                                                 !.dispatch = TimeOrNil(t)]
                      ELSE db.insts[j]]
  BY Zenon
<1>3. /\ mem' = [mem EXCEPT !.insts = M] /\ db' = [db EXCEPT !.insts = D]
      /\ causes' = {} => Erases({i}, "dispatch", t) = {}
  <2>w. PICK why : why = Erases({i}, "dispatch", t)
    OBVIOUS
  <2>0. PICK ok : ok = ({i} \cap DOMAIN mem.insts # {})
    OBVIOUS
  <2>1. Call(Returns(ok, [mem EXCEPT !.insts = M]),
             Returns(TRUE, [db EXCEPT !.insts = D]), why)
    BY <1>1, <1>2, <2>0, <2>w, Zenon
       DEF UpdateInstanceDispatch, MemUpdateInstanceDispatch, SqlUpdateInstanceDispatch,
           MemUpdate, SqlUpdate, Changed
  <2>2. /\ mem' = [mem EXCEPT !.insts = M] /\ db' = [db EXCEPT !.insts = D]
        /\ causes' = {} => why = {}
    BY <2>1, CalledSafely, Zenon
  <2> QED
    BY <2>w, <2>2
<1>4. ASSUME NEW j \in DOMAIN mem.insts, causes' = {}
      PROVE  M[j] \in InstanceRecords /\ M[j].sched = mem.insts[j].sched /\ SameRow(D[j], M[j])
  <2>1. PICK a \in InstanceRecords : a = mem.insts[j]
    BY DEF RepoInv, SameInstances
  <2>2. PICK b : b = db.insts[j] /\ SameRow(b, a)
    BY <2>1 DEF RepoInv, SameInstances
  <2>3. /\ j \notin {i} => M[j] = a /\ D[j] = b
        /\ j \in {i} =>
              /\ M[j] = [a EXCEPT !.worker = "w", !.status = "dispatched",
                                    !.dispatch = IF t = 0 THEN @ ELSE t]
              /\ D[j] = [b EXCEPT !.worker = "w", !.status = "dispatched", !.dispatch = TimeOrNil(t)]
    BY <1>1, <1>2, <2>1, <2>2, Zenon DEF RepoInv, SameInstances
  <2>4. j \in {i} =>
          [a EXCEPT !.worker = "w", !.status = "dispatched", !.dispatch = IF t = 0 THEN @ ELSE t]
          = [a EXCEPT !.worker = "w", !.status = "dispatched", !.dispatch = t]
    <3>1. j \in {i} /\ t = 0 => a.dispatch = 0
      BY <1>3, <1>4, <2>1 DEF Erases
    <3>2. j \in {i} => (IF t = 0 THEN a.dispatch ELSE t) = t
      BY <3>1
    <3> QED
      BY <3>2, Zenon
  <2>5. /\ [a EXCEPT !.worker = "w", !.status = "dispatched", !.dispatch = t] \in InstanceRecords
        /\ [a EXCEPT !.worker = "w", !.status = "dispatched", !.dispatch = t].sched = a.sched
        /\ SameRow([b EXCEPT !.worker = "w", !.status = "dispatched", !.dispatch = TimeOrNil(t)],
                   [a EXCEPT !.worker = "w", !.status = "dispatched", !.dispatch = t])
    BY <2>1, <2>2, DispatchFollows, Zenon
  <2> QED
    BY <2>1, <2>2, <2>3, <2>4, <2>5, Zenon
<1>5. DOMAIN M = DOMAIN mem.insts /\ M = [j \in DOMAIN M |-> M[j]] /\ DOMAIN D = DOMAIN db.insts
  BY <1>1, <1>2, Zenon
<1> QED
  BY <1>3, <1>4, <1>5, InstancesChange

(* The times of a run, found by the schedule id; a zero time is a cause to part.*)
LEMMA TimestampsKeep ==
  ASSUME RepoInv, causes = {}, NEW s \in Scheds, NEW x \in Times, NEW y \in Times,
         UpdateInstanceTimestamps(s, x, y)
  PROVE  RepoInv'
<1>1. PICK M : M = [j \in DOMAIN mem.insts |->
                      IF j \in MemBySchedule(s)
                      THEN [mem.insts[j] EXCEPT !.start = IF x = 0 THEN @ ELSE x,
                                                  !.finish = IF y = 0 THEN @ ELSE y]
                      ELSE mem.insts[j]]
  BY Zenon
<1>2. PICK D : D = [j \in DOMAIN db.insts |->
                      IF j \in SqlBySchedule(s)
                      THEN [db.insts[j] EXCEPT !.start = TimeOrNil(x), !.finish = TimeOrNil(y)]
                      ELSE db.insts[j]]
  BY Zenon
<1>3. /\ mem' = [mem EXCEPT !.insts = M] /\ db' = [db EXCEPT !.insts = D]
      /\ causes' = {} => Erases(MemBySchedule(s), "start", x)
                              \cup Erases(MemBySchedule(s), "finish", y) = {}
  <2>w. PICK why : why = Erases(MemBySchedule(s), "start", x)
                            \cup Erases(MemBySchedule(s), "finish", y)
    BY Zenon
  <2>0. PICK ok : ok = (MemBySchedule(s) \cap DOMAIN mem.insts # {})
    OBVIOUS
  <2>1. Call(Returns(ok, [mem EXCEPT !.insts = M]),
             Returns(TRUE, [db EXCEPT !.insts = D]), why)
    BY <1>1, <1>2, <2>0, <2>w, Zenon
       DEF UpdateInstanceTimestamps, MemUpdateInstanceTimestamps, SqlUpdateInstanceTimestamps,
           MemUpdate, SqlUpdate, Changed
  <2>2. /\ mem' = [mem EXCEPT !.insts = M] /\ db' = [db EXCEPT !.insts = D]
        /\ causes' = {} => why = {}
    BY <2>1, CalledSafely, Zenon
  <2> QED
    BY <2>w, <2>2
<1>4. ASSUME NEW j \in DOMAIN mem.insts, causes' = {}
      PROVE  M[j] \in InstanceRecords /\ M[j].sched = mem.insts[j].sched /\ SameRow(D[j], M[j])
  <2>1. PICK a \in InstanceRecords : a = mem.insts[j]
    BY DEF RepoInv, SameInstances
  <2>2. PICK b : b = db.insts[j] /\ SameRow(b, a)
    BY <2>1 DEF RepoInv, SameInstances
  <2>3. MemBySchedule(s) = SqlBySchedule(s)
    BY Zenon DEF RepoInv, SameInstances
  <2>4. /\ j \notin MemBySchedule(s) => M[j] = a /\ D[j] = b
        /\ j \in MemBySchedule(s) =>
              /\ M[j] = [a EXCEPT !.start = IF x = 0 THEN @ ELSE x, !.finish = IF y = 0 THEN @ ELSE y]
              /\ D[j] = [b EXCEPT !.start = TimeOrNil(x), !.finish = TimeOrNil(y)]
    BY <1>1, <1>2, <2>1, <2>2, <2>3, Zenon DEF RepoInv, SameInstances
  <2>5. j \in MemBySchedule(s) =>
          [a EXCEPT !.start = IF x = 0 THEN @ ELSE x, !.finish = IF y = 0 THEN @ ELSE y]
          = [a EXCEPT !.start = x, !.finish = y]
    <3>1. /\ j \in MemBySchedule(s) /\ x = 0 => a.start = 0
          /\ j \in MemBySchedule(s) /\ y = 0 => a.finish = 0
      BY <1>3, <1>4, <2>1 DEF Erases
    <3>2. j \in MemBySchedule(s) => /\ (IF x = 0 THEN a.start ELSE x) = x
                                    /\ (IF y = 0 THEN a.finish ELSE y) = y
      BY <3>1
    <3> QED
      BY <3>2, Zenon
  <2>6. /\ [a EXCEPT !.start = x, !.finish = y] \in InstanceRecords
        /\ [a EXCEPT !.start = x, !.finish = y].sched = a.sched
        /\ SameRow([b EXCEPT !.start = TimeOrNil(x), !.finish = TimeOrNil(y)],
                   [a EXCEPT !.start = x, !.finish = y])
    <3>1. SameRow([b EXCEPT !.start = TimeOrNil(x), !.finish = TimeOrNil(y)],
                  [a EXCEPT !.start = x, !.finish = y])
      BY <2>1, <2>2, TimesFollow, Zenon
    <3>2. [a EXCEPT !.start = x, !.finish = y] \in InstanceRecords
      BY <2>1, <2>2, TimesFollow, Zenon
    <3>3. [a EXCEPT !.start = x, !.finish = y].sched = a.sched
      BY <2>1, Zenon DEF InstanceRecords
    <3> QED
      BY <3>1, <3>2, <3>3
  <2> QED
    BY <2>1, <2>2, <2>4, <2>5, <2>6, Zenon
<1>5. DOMAIN M = DOMAIN mem.insts /\ M = [j \in DOMAIN M |-> M[j]] /\ DOMAIN D = DOMAIN db.insts
  BY <1>1, <1>2, Zenon
<1> QED
  BY <1>3, <1>4, <1>5, InstancesChange

(* A new instance: unless its schedule id was taken, it is the one that has it.  *)
LEMMA InstanceKeeps ==
  ASSUME RepoInv, causes = {}, NEW s \in Scheds, NEW st \in Reached, NEW x \in Times,
         CreateInstance(s, st, x)
  PROVE  RepoInv'
<1>1. PICK n : n = [task |-> TaskOf[s], sched |-> s, status |-> st, worker |-> "",
                    dispatch |-> 0, start |-> 0, finish |-> 0, retry |-> x,
                    analysis |-> FALSE, shard |-> 1]
  BY Zenon
<1>2. PICK free \in BOOLEAN : free = ~\E i \in DOMAIN db.insts : db.insts[i].sched = s
  BY Zenon
<1>3. PICK k : k = mem.nextInst /\ k = db.nextInst /\ k \in Nat
  BY Zenon DEF RepoInv, SameInstances
<1>4. PICK M : M = Put(mem.insts, k, n)
  OBVIOUS
<1>5. PICK D : D = IF free THEN Put(db.insts, k, InstanceToRow(n)) ELSE db.insts
  OBVIOUS
<1>6. Call(Returns(TRUE, [mem EXCEPT !.insts = M, !.bySched = Put(@, s, k), !.nextInst = @ + 1]),
           Returns(free, [db EXCEPT !.insts = D, !.nextInst = @ + 1]), {})
  <2>1. Call(MemCreateInstance(n), SqlCreateInstance(n), {})
    BY <1>1, Zenon DEF CreateInstance
  <2>2. n.sched = s
    BY <1>1, Zenon
  <2>3. MemCreateInstance(n) = Returns(TRUE, [mem EXCEPT !.insts = M, !.bySched = Put(@, s, k),
                                                         !.nextInst = @ + 1])
    BY <1>3, <1>4, <2>2, Zenon DEF MemCreateInstance
  <2>4. SqlCreateInstance(n) = Returns(free, [db EXCEPT !.insts = D, !.nextInst = @ + 1])
    BY <1>2, <1>3, <1>5, <2>2, Zenon DEF SqlCreateInstance
  <2> QED
    BY <2>1, <2>3, <2>4, Zenon
<1>7. /\ mem' = [mem EXCEPT !.insts = M, !.bySched = Put(@, s, k), !.nextInst = @ + 1]
      /\ db' = [db EXCEPT !.insts = D, !.nextInst = @ + 1]
      /\ causes' = {} => free
  BY <1>6, CalledFreely, Zenon
<1>8. /\ DOMAIN mem' = DOMAIN mem /\ mem'.tasks = mem.tasks /\ mem'.nextTask = mem.nextTask
      /\ mem'.deps = mem.deps /\ mem'.insts = M /\ mem'.nextInst = k + 1
      /\ mem'.bySched = Put(mem.bySched, s, k) /\ mem'.workers = mem.workers
  BY <1>3, <1>7, Zenon DEF RepoInv
<1>9. /\ DOMAIN db' = DOMAIN db /\ db'.tasks = db.tasks /\ db'.nextTask = db.nextTask
      /\ db'.deps = db.deps /\ db'.insts = D /\ db'.nextInst = k + 1
      /\ db'.workers = db.workers
  BY <1>3, <1>7 DEF RepoInv
<1>10. n \in InstanceRecords /\ n.sched = s /\ SameRow(InstanceToRow(n), n)
  <2>1. n \in InstanceRecords /\ n.sched = s
    BY <1>1, TimesAre, Zenon DEF InstanceRecords
  <2>2. SameRow(InstanceToRow(n), n)
    BY Zenon DEF InstanceToRow, SameRow
  <2> QED
    BY <2>1, <2>2
<1>11. ASSUME causes' = {} PROVE SameInstances'
  <2>1. /\ \A i \in DOMAIN db.insts : db.insts[i].sched # s
        /\ D = Put(db.insts, k, InstanceToRow(n))
    <3>1. free
      BY <1>7, <1>11, Zenon
    <3> QED
      BY <1>2, <1>5, <3>1, Zenon
  <2>2. /\ DOMAIN db.insts = DOMAIN mem.insts /\ k \notin DOMAIN mem.insts
        /\ mem.insts \in [DOMAIN mem.insts -> InstanceRecords]
        /\ \A i \in DOMAIN mem.insts : SameRow(db.insts[i], mem.insts[i]) /\ i \in Nat /\ i < k
    <3>1. SameInstances
      BY DEF RepoInv
    <3>2. \A i \in DOMAIN mem.insts : i \in Nat /\ i < k
      BY <1>3, <3>1, Zenon DEF SameInstances
    <3>3. k \notin DOMAIN mem.insts
      BY <1>3, <3>2
    <3> QED
      BY <3>1, <3>2, <3>3, Zenon DEF SameInstances
  <2>3. /\ DOMAIN M = DOMAIN mem.insts \cup {k} /\ M[k] = n
        /\ \A i \in DOMAIN mem.insts : M[i] = mem.insts[i]
        /\ M = [i \in DOMAIN M |-> M[i]]
    BY <1>4, <2>2 DEF Put
  <2>4. /\ DOMAIN D = DOMAIN mem.insts \cup {k} /\ D[k] = InstanceToRow(n)
        /\ \A i \in DOMAIN mem.insts : D[i] = db.insts[i]
    BY <2>1, <2>2, Zenon DEF Put
  <2>5. M \in [DOMAIN M -> InstanceRecords]
    BY <1>10, <2>2, <2>3
  <2>6. \A i \in DOMAIN M : SameRow(D[i], M[i]) /\ i \in Nat /\ i < k + 1
    BY <1>3, <1>10, <2>2, <2>3, <2>4
  <2>7. ASSUME NEW z \in Scheds PROVE MemBySchedule(z)' = SqlBySchedule(z)'
    <3>1. MemBySchedule(z) = SqlBySchedule(z)
      BY Zenon DEF RepoInv, SameInstances
    <3>2. MemBySchedule(z)' = IF z = s THEN {k} ELSE MemBySchedule(z)
      BY <1>8, Zenon DEF MemBySchedule, Put
    <3>3. D[k].sched = s
      BY <1>10, <2>4, Zenon DEF SameRow
    <3>4. SqlBySchedule(z)' = {i \in DOMAIN mem.insts \cup {k} : D[i].sched = z}
      BY <1>9, <2>4, Zenon DEF SqlBySchedule
    <3>5. SqlBySchedule(z) = {i \in DOMAIN mem.insts : D[i].sched = z}
      BY <2>2, <2>4 DEF SqlBySchedule
    <3>6. CASE z = s
      <4>1. \A i \in DOMAIN mem.insts : D[i].sched # z
        BY <2>1, <2>2, <2>4, <3>6, Zenon
      <4> QED
        BY <3>2, <3>3, <3>4, <3>6, <4>1
    <3>7. CASE z # s
      BY <3>1, <3>2, <3>3, <3>4, <3>5, <3>7, Zenon
    <3> QED
      BY <3>6, <3>7
  <2> QED
    BY <1>3, <1>8, <1>9, <2>3, <2>4, <2>5, <2>6, <2>7 DEF SameInstances
<1>12. causes' = {} => SameTasks'
  BY <1>8, <1>9, TasksRest, Zenon DEF RepoInv
<1> QED
  BY <1>8, <1>9, <1>11, <1>12 DEF RepoInv

(* The tables of tasks and edges change; the other tables rest.            *)
LEMMA TasksChange ==
  ASSUME RepoInv, causes = {}, DOMAIN mem' = DOMAIN mem, DOMAIN db' = DOMAIN db,
         mem'.insts = mem.insts, mem'.nextInst = mem.nextInst, mem'.bySched = mem.bySched,
         db'.insts = db.insts, db'.nextInst = db.nextInst,
         mem'.workers = mem.workers, db'.workers = db.workers,
         causes' = {} => SameTasks'
  PROVE  RepoInv'
<1>1. causes' = {} => SameInstances'
  BY InstancesRest DEF RepoInv
<1> QED
  BY <1>1 DEF RepoInv

(* CreateTask gives both the same next id, or MySQL alone rejects a name.  *)
LEMMA TaskKeeps ==
  ASSUME RepoInv, causes = {}, NEW n \in Names, NEW e \in BOOLEAN, CreateTask(n, e)
  PROVE  RepoInv'
<1>1. PICK t : t = [name |-> n, status |-> "enabled", next |-> 0, event |-> e, version |-> 1]
  BY Zenon
<1>2. PICK free \in BOOLEAN : free = ~\E i \in DOMAIN db.tasks : db.tasks[i].name = n
  BY Zenon
<1>3. PICK M : M = Put(mem.tasks, mem.nextTask, t)
  OBVIOUS
<1>4. PICK D : D = IF free THEN Put(db.tasks, db.nextTask, TaskToRow(t)) ELSE db.tasks
  OBVIOUS
<1>5. /\ mem' = [mem EXCEPT !.tasks = M, !.nextTask = @ + 1]
      /\ db' = [db EXCEPT !.tasks = D, !.nextTask = @ + 1]
      /\ causes' = {} => free
  <2>1. PICK u : u = [name |-> n, status |-> "enabled", next |-> 0, event |-> e, version |-> 0]
    BY Zenon
  <2>2. u.name = n /\ [u EXCEPT !.version = 1] = t
    BY <1>1, <2>1
  <2>3. Call(MemCreateTask(u), SqlCreateTask(u), {})
    BY <2>1, Zenon DEF CreateTask
  <2>4. MemCreateTask(u) = Returns(TRUE, [mem EXCEPT !.tasks = M, !.nextTask = @ + 1])
    BY <1>3, <2>2, Zenon DEF MemCreateTask
  <2>5. SqlCreateTask(u) = Returns(free, [db EXCEPT !.tasks = D, !.nextTask = @ + 1])
    BY <1>2, <1>4, <2>2, Zenon DEF SqlCreateTask
  <2>6. Call(Returns(TRUE, [mem EXCEPT !.tasks = M, !.nextTask = @ + 1]),
             Returns(free, [db EXCEPT !.tasks = D, !.nextTask = @ + 1]), {})
    BY <2>3, <2>4, <2>5, Zenon
  <2> QED
    BY <2>6, CalledFreely, Zenon
<1>6. /\ DOMAIN mem' = DOMAIN mem /\ mem'.tasks = M /\ mem'.nextTask = mem.nextTask + 1
      /\ mem'.deps = mem.deps /\ mem'.insts = mem.insts /\ mem'.nextInst = mem.nextInst
      /\ mem'.bySched = mem.bySched /\ mem'.workers = mem.workers
  BY <1>5 DEF RepoInv
<1>7. /\ DOMAIN db' = DOMAIN db /\ db'.tasks = D /\ db'.nextTask = db.nextTask + 1
      /\ db'.deps = db.deps /\ db'.insts = db.insts /\ db'.nextInst = db.nextInst
      /\ db'.workers = db.workers
  BY <1>5 DEF RepoInv
<1>8. t \in TaskRecords
  BY <1>1, TimesAre DEF TaskRecords
<1>9. ASSUME causes' = {} PROVE SameTasks'
  <2>1. PICK k : k = mem.nextTask /\ k = db.nextTask
    BY DEF RepoInv, SameTasks
  <2>2. D = Put(db.tasks, k, TaskToRow(t)) /\ M = Put(mem.tasks, k, t)
    BY <1>3, <1>4, <1>5, <1>9, <2>1
  <2>3. /\ mem.tasks \in [DOMAIN mem.tasks -> TaskRecords]
        /\ db.tasks = [i \in DOMAIN mem.tasks |-> TaskToRow(mem.tasks[i])]
    BY DEF RepoInv, SameTasks
  <2>4. M \in [DOMAIN M -> TaskRecords] /\ D = [i \in DOMAIN M |-> TaskToRow(M[i])]
    BY <1>8, <2>2, <2>3 DEF Put
  <2> QED
    BY <1>6, <1>7, <2>1, <2>4 DEF RepoInv, SameTasks
<1> QED
  BY <1>6, <1>7, <1>9, TasksChange

(* The update of a task reads the row, changes it and writes all of it back.    *)
LEMMA UpdateKeeps ==
  ASSUME RepoInv, causes = {}, NEW i, NEW n \in Names, NEW s \in {"enabled", "disabled"},
         NEW x \in Times, UpdateTask(i, n, s, x)
  PROVE  RepoInv'
<1>1. /\ DOMAIN db.tasks = DOMAIN mem.tasks /\ mem.tasks \in [DOMAIN mem.tasks -> TaskRecords]
      /\ db.tasks = [j \in DOMAIN mem.tasks |-> TaskToRow(mem.tasks[j])]
  BY DEF RepoInv, SameTasks
<1>2. CASE i \notin DOMAIN mem.tasks
  <2>1. Call(Returns(FALSE, mem), Returns(FALSE, db), {})
    BY <1>1, <1>2, Zenon DEF UpdateTask, MemUpdateTask, SqlUpdateTask
  <2>2. mem' = mem /\ db' = db
    BY <2>1, Called, Zenon
  <2>3. SameTasks' <=> SameTasks
    BY <2>2 DEF SameTasks
  <2> QED
    BY <2>2, <2>3, TasksChange DEF RepoInv
<1>3. CASE i \in DOMAIN mem.tasks
  <2>1. PICK t \in TaskRecords : t = mem.tasks[i]
    BY <1>1, <1>3
  <2>2. PICK q : q = db.tasks[i] /\ q = TaskToRow(t)
    BY <1>1, <1>3, <2>1
  <2>0. PICK w : w = [t EXCEPT !.name = n, !.status = s, !.next = x]
    OBVIOUS
  <2>3. PICK u : u = [w EXCEPT !.version = t.version + 1]
    BY Zenon
  <2>4. PICK row : row = AssignTask(q, [RowToTask(q) EXCEPT !.name = n, !.status = s, !.next = x])
    OBVIOUS
  <2>5. u \in TaskRecords /\ row = TaskToRow(u)
    <3>1. /\ u \in TaskRecords /\ u.name = n /\ u.status = s /\ u.next = x
          /\ u.version = t.version + 1
      <4>2. /\ w \in TaskRecords /\ w.name = n /\ w.status = s /\ w.next = x
            /\ w.version = t.version
        BY <2>0, <2>1, Zenon DEF TaskRecords
      <4>4. t.version + 1 \in Nat
        BY DEF TaskRecords
      <4> QED
        BY <2>3, <4>2, <4>4, Zenon DEF TaskRecords
    <3>2. PICK v : v = [RowToTask(q) EXCEPT !.name = n, !.status = s, !.next = x]
      OBVIOUS
    <3>3. v.name = n /\ v.status = s /\ v.next = x
      BY <3>2 DEF RowToTask
    <3>4. q.version = t.version
      BY <2>2 DEF TaskToRow
    <3>5. row = [TaskToRow(v) EXCEPT !.version = q.version + 1]
      BY <2>4, <3>2, Zenon DEF AssignTask
    <3>6. row = [name |-> n, status |-> s, next |-> TimeOrNil(x), version |-> t.version + 1]
      BY <3>3, <3>4, <3>5 DEF TaskToRow
    <3> QED
      BY <3>1, <3>6 DEF TaskToRow
  <2>6. PICK free \in BOOLEAN :
           free = ~\E j \in DOMAIN db.tasks \ {i} : db.tasks[j].name = row.name
    BY Zenon
  <2>7. PICK M : M = [mem.tasks EXCEPT ![i] = u]
    BY Zenon
  <2>8. PICK D : D = IF free THEN [db.tasks EXCEPT ![i] = row] ELSE db.tasks
    BY Zenon
  <2>9. PICK d : d = IF free THEN [db EXCEPT !.tasks[i] = row] ELSE db
    BY Zenon
  <2>10. PICK m : m = [mem EXCEPT !.tasks[i] = u]
    BY Zenon
  <2>11. Call(Returns(TRUE, m), Returns(free, d), {})
    <3>1. i \in DOMAIN db.tasks /\ q = db.tasks[i]
      BY <1>1, <1>3, <2>2
    <3>2. Call(Returns(TRUE, [mem EXCEPT !.tasks[i] = u]),
               Returns(free, IF free THEN [db EXCEPT !.tasks[i] = row] ELSE db), {})
      BY <1>3, <2>0, <2>1, <2>3, <2>4, <2>6, <3>1, Zenon
         DEF UpdateTask, MemUpdateTask, SqlUpdateTask
    <3> QED
      BY <2>9, <2>10, <3>2, Zenon
  <2>12. mem' = m /\ db' = d /\ (causes' = {} => free)
    BY <2>11, CalledFreely, Zenon
  <2>13. /\ DOMAIN mem' = DOMAIN mem /\ mem'.tasks = M /\ mem'.nextTask = mem.nextTask
         /\ mem'.deps = mem.deps /\ mem'.insts = mem.insts /\ mem'.nextInst = mem.nextInst
         /\ mem'.bySched = mem.bySched /\ mem'.workers = mem.workers
    BY <2>7, <2>10, <2>12 DEF RepoInv
  <2>14. /\ DOMAIN db' = DOMAIN db /\ db'.tasks = D /\ db'.nextTask = db.nextTask
         /\ db'.deps = db.deps /\ db'.insts = db.insts /\ db'.nextInst = db.nextInst
         /\ db'.workers = db.workers
    BY <2>8, <2>9, <2>12 DEF RepoInv
  <2>15. ASSUME causes' = {} PROVE SameTasks'
    <3>1. D = [db.tasks EXCEPT ![i] = row]
      BY <2>8, <2>12, <2>15
    <3>2. M \in [DOMAIN M -> TaskRecords] /\ D = [j \in DOMAIN M |-> TaskToRow(M[j])]
      BY <1>1, <1>3, <2>5, <2>7, <3>1, Zenon
    <3> QED
      BY <2>13, <2>14, <3>2 DEF RepoInv, SameTasks
  <2> QED
    BY <2>13, <2>14, <2>15, TasksChange
<1> QED
  BY <1>2, <1>3

(* A task without edges leaves both alike; one with edges gives cause to part.   *)
LEMMA DeleteKeeps ==
  ASSUME RepoInv, causes = {}, NEW i, DeleteTask(i) PROVE RepoInv'
<1>1. PICK why : why = IF \E e \in DOMAIN mem.deps : i \in {e[1], e[2]} THEN {"cascade"} ELSE {}
  BY Zenon
<1>2. PICK E : E = {e \in db.deps : i \notin {e[1], e[2]}}
  BY Zenon
<1>3. PICK ok : ok = (i \in DOMAIN mem.tasks)
  OBVIOUS
<1>4. PICK m, d : /\ m = [mem EXCEPT !.tasks = Drop(mem.tasks, i)]
                  /\ d = [db EXCEPT !.tasks = Drop(db.tasks, i), !.deps = E]
                  /\ Call(Returns(ok, m), Returns(TRUE, d), why)
  BY <1>1, <1>2, <1>3, Zenon DEF DeleteTask, MemDeleteTask, SqlDeleteTask
<1>5. mem' = m /\ db' = d /\ (causes' = {} => why = {})
  BY <1>4, CalledSafely, Zenon
<1>6. /\ DOMAIN mem' = DOMAIN mem /\ mem'.tasks = Drop(mem.tasks, i)
      /\ mem'.nextTask = mem.nextTask /\ mem'.deps = mem.deps /\ mem'.insts = mem.insts
      /\ mem'.nextInst = mem.nextInst /\ mem'.bySched = mem.bySched
      /\ mem'.workers = mem.workers
  BY <1>4, <1>5 DEF RepoInv
<1>7. /\ DOMAIN db' = DOMAIN db /\ db'.tasks = Drop(db.tasks, i) /\ db'.nextTask = db.nextTask
      /\ db'.deps = E /\ db'.insts = db.insts /\ db'.nextInst = db.nextInst
      /\ db'.workers = db.workers
  BY <1>4, <1>5 DEF RepoInv
<1>8. ASSUME causes' = {} PROVE SameTasks'
  <2>1. E = DOMAIN mem.deps
    BY <1>1, <1>2, <1>5, <1>8, Zenon DEF RepoInv, SameTasks
  <2>2. /\ mem'.tasks \in [DOMAIN mem'.tasks -> TaskRecords]
        /\ db'.tasks = [j \in DOMAIN mem'.tasks |-> TaskToRow(mem'.tasks[j])]
    BY <1>6, <1>7 DEF RepoInv, SameTasks, Drop
  <2> QED
    BY <1>6, <1>7, <2>1, <2>2, Zenon DEF RepoInv, SameTasks
<1> QED
  BY <1>6, <1>7, <1>8, TasksChange, Zenon

(* AddDependency: a copy of an edge counts in the map, the table has it once.*)
LEMMA AddEdgeKeeps ==
  ASSUME RepoInv, causes = {}, NEW i, NEW j, AddDependency(i, j) PROVE RepoInv'
<1>1. DOMAIN db.tasks = DOMAIN mem.tasks /\ db.deps = DOMAIN mem.deps
  BY DEF RepoInv, SameTasks
<1>2. CASE ~({i, j} \subseteq DOMAIN mem.tasks)
  <2>1. Call(Returns(FALSE, mem), Returns(FALSE, db), {})
    BY <1>1, <1>2, Zenon DEF AddDependency, MemAddDependency, SqlAddDependency
  <2>2. mem' = mem /\ db' = db
    BY <2>1, Called, Zenon
  <2>3. SameTasks' <=> SameTasks
    BY <2>2, Zenon DEF SameTasks
  <2> QED
    BY <2>2, <2>3, TasksChange DEF RepoInv
<1>3. CASE {i, j} \subseteq DOMAIN mem.tasks
  <2>1. PICK free \in BOOLEAN : free = (<<i, j>> \notin db.deps)
    BY Zenon
  <2>2. PICK c, M :
           /\ M = Put(mem.deps, <<i, j>>, c)
           /\ Call(Returns(TRUE, [mem EXCEPT !.deps = M]), SqlAddDependency(i, j), {})
    BY <1>3, Zenon DEF AddDependency, MemAddDependency
  <2>3. PICK d : d = IF free THEN [db EXCEPT !.deps = @ \cup {<<i, j>>}] ELSE db
    BY Zenon
  <2>4. SqlAddDependency(i, j) = Returns(free, d)
    BY <1>1, <1>3, <2>1, <2>3, Zenon DEF SqlAddDependency
  <2>5. Call(Returns(TRUE, [mem EXCEPT !.deps = M]), Returns(free, d), {})
    BY <2>2, <2>4, Zenon
  <2>6. mem' = [mem EXCEPT !.deps = M] /\ db' = d /\ (causes' = {} => free)
    BY <2>5, CalledFreely, Zenon
  <2>7. /\ DOMAIN mem' = DOMAIN mem /\ mem'.tasks = mem.tasks /\ mem'.nextTask = mem.nextTask
        /\ mem'.deps = M /\ mem'.insts = mem.insts /\ mem'.nextInst = mem.nextInst
        /\ mem'.bySched = mem.bySched /\ mem'.workers = mem.workers
    BY <2>6 DEF RepoInv
  <2>8. /\ DOMAIN db' = DOMAIN db /\ db'.tasks = db.tasks /\ db'.nextTask = db.nextTask
        /\ db'.deps = IF free THEN db.deps \cup {<<i, j>>} ELSE db.deps
        /\ db'.insts = db.insts /\ db'.nextInst = db.nextInst /\ db'.workers = db.workers
    BY <2>3, <2>6 DEF RepoInv
  <2>9. ASSUME causes' = {} PROVE SameTasks'
    <3>1. db'.deps = DOMAIN M
      BY <1>1, <2>2, <2>6, <2>8, <2>9 DEF Put
    <3> QED
      BY <2>7, <2>8, <3>1 DEF RepoInv, SameTasks
  <2> QED
    BY <2>7, <2>8, <2>9, TasksChange
<1> QED
  BY <1>2, <1>3

(* RemoveDependency removes every copy.                                    *)
LEMMA RemoveEdgeKeeps ==
  ASSUME RepoInv, causes = {}, NEW i, NEW j, RemoveDependency(i, j) PROVE RepoInv'
<1>1. PICK M, E : M = Drop(mem.deps, <<i, j>>) /\ E = db.deps \ {<<i, j>>}
  BY Zenon
<1>2. Call(Returns(TRUE, [mem EXCEPT !.deps = M]), Returns(TRUE, [db EXCEPT !.deps = E]), {})
  BY <1>1, Zenon DEF RemoveDependency, MemRemoveDependency, SqlRemoveDependency
<1>3. mem' = [mem EXCEPT !.deps = M] /\ db' = [db EXCEPT !.deps = E]
  BY <1>2, CalledSafely, Zenon
<1>4. /\ DOMAIN mem' = DOMAIN mem /\ mem'.tasks = mem.tasks /\ mem'.nextTask = mem.nextTask
      /\ mem'.deps = M /\ mem'.insts = mem.insts /\ mem'.nextInst = mem.nextInst
      /\ mem'.bySched = mem.bySched /\ mem'.workers = mem.workers
  BY <1>3 DEF RepoInv
<1>5. /\ DOMAIN db' = DOMAIN db /\ db'.tasks = db.tasks /\ db'.nextTask = db.nextTask
      /\ db'.deps = E /\ db'.insts = db.insts /\ db'.nextInst = db.nextInst
      /\ db'.workers = db.workers
  BY <1>3 DEF RepoInv
<1>6. SameTasks'
  BY <1>1, <1>4, <1>5 DEF RepoInv, SameTasks, Drop
<1> QED
  BY <1>4, <1>5, <1>6, TasksChange, Zenon

(* Worker rows are replaced as a whole on both sides.                      *)
LEMMA WorkerKeeps ==
  ASSUME RepoInv, causes = {}, NEW n, NEW w, UpsertWorker(n, w) PROVE RepoInv'
<1>1. PICK W : W = Put(mem.workers, n, w) /\ W = Put(db.workers, n, w)
  BY DEF RepoInv
<1>2. Call(Returns(TRUE, [mem EXCEPT !.workers = W]), Returns(TRUE, [db EXCEPT !.workers = W]), {})
  BY <1>1, Zenon DEF UpsertWorker, MemUpsertWorker, SqlUpsertWorker
<1>3. mem' = [mem EXCEPT !.workers = W] /\ db' = [db EXCEPT !.workers = W]
  BY <1>2, CalledSafely, Zenon
<1>4. /\ DOMAIN mem' = DOMAIN mem /\ mem'.tasks = mem.tasks /\ mem'.nextTask = mem.nextTask
      /\ mem'.deps = mem.deps /\ mem'.insts = mem.insts /\ mem'.nextInst = mem.nextInst
      /\ mem'.bySched = mem.bySched /\ mem'.workers = W
  BY <1>3 DEF RepoInv
<1>5. /\ DOMAIN db' = DOMAIN db /\ db'.tasks = db.tasks /\ db'.nextTask = db.nextTask
      /\ db'.deps = db.deps /\ db'.insts = db.insts /\ db'.nextInst = db.nextInst
      /\ db'.workers = W
  BY <1>3 DEF RepoInv
<1>6. SameTasks' /\ SameInstances'
  BY <1>4, <1>5, TasksRest, InstancesRest, Zenon DEF RepoInv
<1> QED
  BY <1>4, <1>5, <1>6, Zenon DEF RepoInv

(* Empty maps and empty tables are alike.                                  *)
LEMMA InitRepos == ReposInit => RepoInv
<1>1. SUFFICES ASSUME ReposInit PROVE RepoInv
  OBVIOUS
<1>2. /\ DOMAIN mem = {"tasks", "nextTask", "deps", "insts", "nextInst", "bySched", "workers"}
      /\ DOMAIN db = {"tasks", "nextTask", "deps", "insts", "nextInst", "workers"}
  BY <1>1 DEF ReposInit
<1>3. /\ mem.tasks = Empty /\ mem.nextTask = 1 /\ mem.deps = Empty /\ mem.insts = Empty
      /\ mem.nextInst = 1 /\ mem.bySched = Empty /\ mem.workers = Empty
      /\ db.tasks = Empty /\ db.nextTask = 1 /\ db.deps = {} /\ db.insts = Empty
      /\ db.nextInst = 1 /\ db.workers = Empty
  BY <1>1 DEF ReposInit
<1>4. SameTasks
  BY <1>3 DEF SameTasks, Empty
<1>5. SameInstances
  BY <1>3 DEF SameInstances, Empty, MemBySchedule, SqlBySchedule
<1> QED
  BY <1>2, <1>3, <1>4, <1>5 DEF RepoInv

(* Every call keeps the maps and the tables alike, or is a cause to part.  *)
LEMMA NextRepos == ASSUME RepoInv, [ReposNext]_repoVars PROVE RepoInv'
<1>1. CASE UNCHANGED repoVars
  BY <1>1, Zenon DEF repoVars, RepoInv, SameTasks, SameInstances, MemBySchedule, SqlBySchedule
<1>2. CASE causes = {} /\ TaskCall
  BY <1>2, TaskKeeps, UpdateKeeps, DeleteKeeps, AddEdgeKeeps, RemoveEdgeKeeps DEF TaskCall
<1>3. CASE causes = {} /\ InstanceCall
  <2>1. "pending" \in Reached /\ "retry_waiting" \in Reached /\ 0 \in Times
    BY TimesAre DEF Reached
  <2> QED
    BY <1>3, <2>1, InstanceKeeps, StatusKeeps, DispatchKeeps, ResultKeeps, AnalysisKeeps,
       TimestampsKeep, Zenon DEF InstanceCall
<1>4. CASE causes = {} /\ WorkerCall
  BY <1>4, WorkerKeeps, Zenon DEF WorkerCall
<1> QED
  BY <1>1, <1>2, <1>3, <1>4 DEF ReposNext

(* Alike tables answer every query about tasks and edges alike.            *)
LEMMA SameTaskAnswers == ASSUME RepoInv, causes = {} PROVE TasksAgree
<1>1. /\ mem.tasks \in [DOMAIN mem.tasks -> TaskRecords] /\ DOMAIN db.tasks = DOMAIN mem.tasks
      /\ \A i \in DOMAIN mem.tasks : db.tasks[i] = TaskToRow(mem.tasks[i])
      /\ db.deps = DOMAIN mem.deps
  BY DEF RepoInv, SameTasks
<1>2. \A i \in DOMAIN mem.tasks : RowToTask(db.tasks[i]) = [mem.tasks[i] EXCEPT !.event = FALSE]
  BY <1>1, ReadBack, Zenon
<1>3. \A i : SqlGetTask(i) = {[t EXCEPT !.event = FALSE] : t \in MemGetTask(i)}
  BY <1>1, <1>2, Zenon DEF SqlGetTask, MemGetTask, Found
<1>4. SqlListTasks
      = [MemListTasks EXCEPT !.rows = [i \in DOMAIN @ |-> [@[i] EXCEPT !.event = FALSE]]]
  <2>1. PICK o : o = Ordered(mem.tasks)
    OBVIOUS
  <2>2. PICK R : R = [i \in DOMAIN db.tasks |-> RowToTask(db.tasks[i])]
    BY Zenon
  <2>3. R = [i \in DOMAIN mem.tasks |-> [mem.tasks[i] EXCEPT !.event = FALSE]]
    BY <1>1, <1>2, <2>2
  <2>4. Ordered(R) = o
    BY <2>1, <2>3 DEF Ordered
  <2>5. SqlListTasks = [order |-> o, rows |-> R]
    BY <2>2, <2>4, Zenon DEF SqlListTasks, Listed
  <2>6. MemListTasks = [order |-> o, rows |-> mem.tasks]
    BY <2>1, Zenon DEF MemListTasks, Listed
  <2>7. \A f : [[order |-> o, rows |-> f] EXCEPT !.rows = R] = [order |-> o, rows |-> R]
    OBVIOUS
  <2> QED
    BY <2>3, <2>5, <2>6, <2>7, Zenon
<1>5. \A due \in Times : MemListDueTasks(due) = SqlListDueTasks(due)
  <2>1. SUFFICES ASSUME NEW due \in Times PROVE MemListDueTasks(due) = SqlListDueTasks(due)
    OBVIOUS
  <2>2. ASSUME NEW i \in DOMAIN mem.tasks
        PROVE  /\ db.tasks[i].status = mem.tasks[i].status
               /\ db.tasks[i].next # Null /\ db.tasks[i].next <= due
                     <=> mem.tasks[i].next # 0 /\ mem.tasks[i].next <= due
    <3>1. PICK t \in TaskRecords : t = mem.tasks[i] /\ db.tasks[i] = TaskToRow(t)
      BY <1>1
    <3>2. PICK x \in Times : x = t.next
      BY DEF TaskRecords
    <3>3. db.tasks[i].status = t.status /\ db.tasks[i].next = TimeOrNil(x)
      BY <3>1, <3>2 DEF TaskToRow
    <3>4. CASE x = 0
      BY <3>1, <3>2, <3>3, <3>4, TimesAre
    <3>5. CASE x # 0
      BY <3>1, <3>2, <3>3, <3>5, TimesAre
    <3> QED
      BY <3>4, <3>5
  <2> QED
    BY <1>1, <2>2 DEF MemListDueTasks, SqlListDueTasks
<1>6. \A i : /\ MemListUpstreamDeps(i) = SqlListUpstreamDeps(i)
             /\ MemListDownstreamTasks(i) = SqlListDownstreamTasks(i)
  BY <1>1, Zenon DEF MemListUpstreamDeps, SqlListUpstreamDeps, MemListDownstreamTasks,
                     SqlListDownstreamTasks
<1> QED
  BY <1>3, <1>4, <1>5, <1>6, Zenon DEF TasksAgree

(* Alike tables answer every query about instances alike.                  *)
LEMMA SameInstanceAnswers == ASSUME RepoInv, causes = {} PROVE InstancesAgree
<1>1. /\ mem.insts \in [DOMAIN mem.insts -> InstanceRecords] /\ DOMAIN db.insts = DOMAIN mem.insts
      /\ \A i \in DOMAIN mem.insts : SameRow(db.insts[i], mem.insts[i])
      /\ \A s \in Scheds : MemBySchedule(s) = SqlBySchedule(s)
  BY Zenon DEF RepoInv, SameInstances
<1>2. \A i \in DOMAIN mem.insts : RowToInstance(db.insts[i]) = [mem.insts[i] EXCEPT !.shard = 0]
  BY <1>1, ReadBack
<1>3. \A i : SqlGetInstance(i) = {[r EXCEPT !.shard = 0] : r \in MemGetInstance(i)}
  BY <1>1, <1>2, Zenon DEF SqlGetInstance, MemGetInstance, Found
<1>4. SqlListInstances
      = [MemListInstances EXCEPT !.rows = [i \in DOMAIN @ |-> [@[i] EXCEPT !.shard = 0]]]
  <2>1. PICK o : o = Ordered(mem.insts)
    OBVIOUS
  <2>2. PICK R : R = [i \in DOMAIN db.insts |-> RowToInstance(db.insts[i])]
    BY Zenon
  <2>3. R = [i \in DOMAIN mem.insts |-> [mem.insts[i] EXCEPT !.shard = 0]]
    BY <1>1, <1>2, <2>2
  <2>4. Ordered(R) = o
    BY <2>1, <2>3 DEF Ordered
  <2>5. SqlListInstances = [order |-> o, rows |-> R]
    BY <2>2, <2>4, Zenon DEF SqlListInstances, Listed
  <2>6. MemListInstances = [order |-> o, rows |-> mem.insts]
    BY <2>1, Zenon DEF MemListInstances, Listed
  <2> QED
    BY <2>3, <2>5, <2>6
<1>5. \A t : MemListInstancesByTaskID(t) = SqlListInstancesByTaskID(t)
  <2>1. \A t : {i \in DOMAIN mem.insts : mem.insts[i].task = t}
               = {i \in DOMAIN db.insts : db.insts[i].task = t}
    BY <1>1, Zenon DEF SameRow
  <2> QED
    BY <2>1, Zenon DEF MemListInstancesByTaskID, SqlListInstancesByTaskID, Where
<1>6. \A due \in Times : \A limit :
         MemListDueRetryInstances(due, limit) = SqlListDueRetryInstances(due, limit)
  <2>1. SUFFICES ASSUME NEW due \in Times, NEW limit
                 PROVE  MemListDueRetryInstances(due, limit) = SqlListDueRetryInstances(due, limit)
    OBVIOUS
  <2>2. ASSUME NEW i \in DOMAIN mem.insts
        PROVE  /\ db.insts[i].status = mem.insts[i].status
               /\ db.insts[i].retry = Null \/ db.insts[i].retry <= due
                     <=> ~(mem.insts[i].retry # 0 /\ mem.insts[i].retry > due)
    <3>1. PICK x \in Times : x = mem.insts[i].retry
      BY <1>1, Zenon DEF InstanceRecords
    <3>2. db.insts[i].status = mem.insts[i].status /\ db.insts[i].retry = TimeOrNil(x)
      BY <1>1, <3>1, Zenon DEF SameRow
    <3>3. due \in Nat /\ x \in Nat
      BY TimesAre
    <3>4. CASE x = 0
      BY <3>1, <3>2, <3>3, <3>4, TimesAre
    <3>5. CASE x # 0
      <4>1. TimeOrNil(x) = x /\ x # Null
        BY <3>5, TimesAre
      <4> QED
        BY <3>1, <3>2, <3>3, <3>5, <4>1
    <3> QED
      BY <3>4, <3>5
  <2>3. {i \in DOMAIN mem.insts : mem.insts[i].status = "retry_waiting"
                                  /\ ~(mem.insts[i].retry # 0 /\ mem.insts[i].retry > due)}
        = {i \in DOMAIN db.insts : db.insts[i].status = "retry_waiting"
                                  /\ (db.insts[i].retry = Null \/ db.insts[i].retry <= due)}
    BY <1>1, <2>2
  <2> QED
    BY <2>3, Zenon DEF MemListDueRetryInstances, SqlListDueRetryInstances, Where
<1>7. \A s : {i \in DOMAIN mem.insts : mem.insts[i].status = s}
             = {i \in DOMAIN db.insts : db.insts[i].status = s}
  BY <1>1, Zenon DEF SameRow
<1>8. \A s, limit : /\ MemListInstancesByStatus(s, limit) = SqlListInstancesByStatus(s, limit)
                    /\ MemCountInstancesByStatus(s) = SqlCountInstancesByStatus(s)
  BY <1>7, Zenon DEF MemListInstancesByStatus, SqlListInstancesByStatus, Where,
                     MemCountInstancesByStatus, SqlCountInstancesByStatus
<1>9. \A limit, offset : offset < Len(MemListInstancesByTimeRange(0, 0)) =>
         MemListInstancesByTimeRange(limit, offset) = SqlListInstancesByTimeRange(limit, offset)
  <2>1. PICK q : q = NewestFirst(mem.insts) /\ q = NewestFirst(db.insts)
    BY <1>1, Zenon DEF NewestFirst, Ordered
  <2>2. MemListInstancesByTimeRange(0, 0) = q
    BY <2>1 DEF MemListInstancesByTimeRange, Limited
  <2> QED
    BY <2>1, <2>2 DEF MemListInstancesByTimeRange, SqlListInstancesByTimeRange
<1> QED
  BY <1>1, <1>3, <1>4, <1>5, <1>6, <1>8, <1>9, Zenon DEF InstancesAgree

(* The repositories of package teststore and those of MySQL answer every query   *)
(* alike for as long as no call gave cause to part: a call that only one of       *)
(* them rejects, a task deleted together with its edges, a time overwritten      *)
(* with the zero time.                                                     *)
THEOREM Agree == ReposSpec => []RepositoriesAgree
<1>1. RepoInv => RepositoriesAgree
  <2>1. ASSUME RepoInv, causes = {} PROVE WorkersAgree
    BY <2>1
       DEF RepoInv, WorkersAgree, MemGetWorker, SqlGetWorker, MemListWorkers, SqlListWorkers,
                MemListAvailableWorkers, SqlListAvailableWorkers, MemListStaleWorkers,
                SqlListStaleWorkers
  <2>2. causes # {} => TasksAgree /\ InstancesAgree /\ WorkersAgree
    BY DEF TasksAgree, InstancesAgree, WorkersAgree
  <2> QED
    BY <2>1, <2>2, SameTaskAnswers, SameInstanceAnswers DEF RepositoriesAgree
<1> QED
  BY <1>1, InitRepos, NextRepos, PTL DEF ReposSpec

================================================================================
