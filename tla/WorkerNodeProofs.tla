--------------------------- MODULE WorkerNodeProofs ---------------------------
(***************************************************************************)
(* Proofs about WorkerNode for any number of ids, deliveries and flush loops *)
(* and under every fault.                                                   *)
(***************************************************************************)
EXTENDS WorkerNode, TLAPS, FiniteSetTheorems

RunStates == [pc : PCs, ctx : {"live", "deadline", "cancelled"}, out : {"none"} \cup Outcomes]

Working == PCs \ {"none", "accepted", "gone"}

(* Past Register and not yet past Leave.                                   *)
Cancellable == Working \ {"started"}

(* The inductive invariant behind OnceAtATime and CancelReaches: the id of a  *)
(* run under way is remembered or its entry was dropped, and the function     *)
(* stored under an id that was not dropped is that of its run.               *)
OnceInv ==
    /\ run \in [Runs -> RunStates] /\ cancels \in [Ids -> Runs \cup {None}]
    /\ \A r \in Runs : run[r].pc \in Working => r[1] \in dedup \cup evicted
    /\ \A q, r \in Runs : /\ run[q].pc \in Working /\ run[r].pc \in Working
                          /\ q[1] = r[1] /\ q # r
                          => q[1] \in evicted
    /\ \A r \in Runs : run[r].pc \in Cancellable /\ r[1] \notin evicted
                          => cancels[r[1]] = r

(* Only the state of r changed.                                            *)
OnlyRun(r) == /\ run' \in [Runs -> RunStates]
              /\ \A q \in Runs : q # r => run'[q] = run[q]

(* r is where it was, or went on within its run.                           *)
Stays(r) == /\ OnlyRun(r)
            /\ run[r].pc \in Cancellable /\ run'[r].pc \in Cancellable
            /\ UNCHANGED <<dedup, cancels, evicted>>

(* A run is a pair of an id and a number.                                  *)
LEMMA IdOf == ASSUME NEW r \in Runs PROVE r[1] \in Ids
  BY DEF Runs

(* A run that goes on within its run disturbs no other.                    *)
LEMMA StaysKeeps == ASSUME OnceInv, NEW r \in Runs, Stays(r) PROVE OnceInv'
<1>1. \A q \in Runs : run'[q].pc \in Working => run[q].pc \in Working
  BY DEF Stays, OnlyRun, Cancellable
<1>2. \A q \in Runs : run'[q].pc \in Cancellable => run[q].pc \in Cancellable
  BY DEF Stays, OnlyRun
<1> QED
  BY <1>1, <1>2 DEF OnceInv, Stays, OnlyRun

(* Goto changes one run, and its place only.                               *)
LEMMA GotoRun ==
  ASSUME OnceInv, NEW r \in Runs, NEW pc \in PCs, Goto(r, pc)
  PROVE  OnlyRun(r) /\ run'[r].pc = pc /\ run'[r].out = run[r].out
  BY DEF OnceInv, Goto, OnlyRun, RunStates

(* A new place and outcome for one run.                                    *)
LEMMA MoveRun ==
  ASSUME OnceInv, NEW r \in Runs, NEW pc \in PCs, NEW o \in {"none"} \cup Outcomes,
         run' = [run EXCEPT ![r].pc = pc, ![r].out = o]
  PROVE  OnlyRun(r) /\ run'[r].pc = pc /\ run'[r].out = o
<1>1. run \in [Runs -> RunStates]
  BY DEF OnceInv
<1>2. PICK s : s = [run[r] EXCEPT !.pc = pc, !.out = o]
  OBVIOUS
<1>3. s \in RunStates /\ s.pc = pc /\ s.out = o
  BY <1>1, <1>2, Zenon DEF RunStates
<1>4. run' = [run EXCEPT ![r] = s]
  BY <1>2, Zenon
<1> QED
  BY <1>1, <1>3, <1>4, Zenon DEF OnlyRun

(* End gives one run its outcome.                                          *)
LEMMA EndRun ==
  ASSUME OnceInv, NEW r \in Runs, NEW o \in {"none"} \cup Outcomes, End(r, o)
  PROVE  OnlyRun(r) /\ run'[r].pc = "final" /\ run'[r].out = o
  BY MoveRun, Zenon DEF End, PCs

(* A deadline or a cancel changes one run's context only.                  *)
LEMMA InterruptRun ==
  ASSUME OnceInv, NEW r \in Runs, NEW c \in {"deadline", "cancelled"},
         run' = [run EXCEPT ![r].ctx = c]
  PROVE  OnlyRun(r) /\ run'[r].pc = run[r].pc /\ run'[r].out = run[r].out
  BY DEF OnceInv, OnlyRun, RunStates

(* A command that left children has its outcome already.                  *)
LEMMA OrphanRun ==
  ASSUME OnceInv, NEW r \in Runs, NEW o \in Outcomes,
         run' = [run EXCEPT ![r].pc = "orphan", ![r].out = o]
  PROVE  OnlyRun(r) /\ run'[r].pc = "orphan" /\ run'[r].out = o
  BY MoveRun, Zenon DEF PCs

(* A run under way in Execute: to its body, to children that hold its output,  *)
(* or to its outcome and the end of its directory, unless Cleanup fails.     *)
Executed(r) ==
    /\ OnlyRun(r) /\ UNCHANGED <<dedup, cancels, running, store, past>>
    /\ run[r].pc \in {"exec", "body", "orphan"}
    /\ dirs' \subseteq dirs /\ littered \subseteq littered'
    /\ \/ run[r].pc = "exec" /\ run'[r].pc = "body" /\ run'[r].out = run[r].out
       \/ run[r].pc = "exec" /\ run'[r].pc = "orphan" /\ run'[r].out \in Outcomes
       \/ /\ run'[r].pc = "final" /\ (r \in dirs' => r \in littered')
          /\ \/ run[r].pc # "orphan" /\ run'[r].out \in Outcomes
             \/ run[r].pc = "orphan" /\ run'[r].out = run[r].out

(* A command ends, with or without children left behind.                   *)
LEMMA ExitRun ==
  ASSUME OnceInv, NEW r \in Runs, NEW o \in Outcomes, Exit(r, o), At(r, "exec"),
         UNCHANGED <<dedup, cancels, running, store, past>>
  PROVE  Executed(r)
<1>1. CASE EndExec(r, o)
  BY <1>1, EndRun, Zenon DEF EndExec, Executed, At
<1>2. CASE run' = [run EXCEPT ![r].pc = "orphan", ![r].out = o] /\ UNCHANGED disk
  BY <1>2, OrphanRun, Zenon DEF Executed, disk, At
<1> QED
  BY <1>1, <1>2 DEF Exit

(* Execute and ShellExec, and what they may do to a run.                   *)
LEMMA ExecuteRun ==
  ASSUME OnceInv, NEW r \in Runs, Execute(r) \/ ChildrenExit(r)
  PROVE  Executed(r)
<1>1. CASE CommandExits(r) \/ CommandKilled(r)
  <2>1. PICK o \in Outcomes : Exit(r, o)
    BY <1>1 DEF CommandExits, CommandKilled, Outcomes
  <2> QED
    BY <1>1, <2>1, ExitRun DEF CommandExits, CommandKilled
<1>2. CASE ChildrenExit(r)
  <2>1. run[r].out \in {"none"} \cup Outcomes
    BY DEF OnceInv, RunStates
  <2> QED
    BY <1>2, <2>1, EndRun, Zenon DEF ChildrenExit, EndExec, Executed, At
<1>3. CASE HttpFails(r)
  <2>1. PICK o \in Outcomes : EndExec(r, o)
    BY <1>3 DEF HttpFails, Outcomes
  <2> QED
    BY <1>3, <2>1, EndRun, Zenon DEF HttpFails, EndExec, Executed, At
<1>4. CASE HttpBody(r)
  <2>1. PICK o \in Outcomes : EndExec(r, o)
    BY <1>4 DEF HttpBody, Outcomes
  <2> QED
    BY <1>4, <2>1, EndRun, Zenon DEF HttpBody, EndExec, Executed, At
<1>5. CASE HttpAnswers(r)
  BY <1>5, GotoRun DEF HttpAnswers, Executed, disk, At, PCs
<1> QED
  BY <1>1, <1>2, <1>3, <1>4, <1>5 DEF Execute

(* No run is under way at the start.                                       *)
LEMMA InitOnce == Init => OnceInv
  BY DEF Init, OnceInv, NoRun, RunStates, PCs, Outcomes, Working, Cancellable

(* Outside the goroutines of run: nothing starts, and a dropped entry is known. *)
LEMMA OthersOnce ==
  ASSUME OnceInv, UNCHANGED <<run, cancels>>, dedup \cup evicted \subseteq dedup' \cup evicted',
         evicted \subseteq evicted'
  PROVE  OnceInv'
  BY DEF OnceInv

(* Every step of a run keeps OnceInv.                                      *)
LEMMA RunOnce ==
  ASSUME OnceInv, NEW r \in Runs, Deliver(r) \/ Step(r) \/ ChildrenExit(r) \/ Deadline(r)
  PROVE  OnceInv'
<1> USE DEF PCs, Working, Cancellable
<1>1. CASE Deliver(r)
  <2>1. OnlyRun(r) /\ run'[r].pc = "accepted"
    BY <1>1, GotoRun DEF Deliver
  <2> QED
    BY <1>1, <2>1 DEF Deliver, OnceInv, OnlyRun, past
<1>2. CASE Start(r)
  <2>1. OnlyRun(r) /\ run[r].pc = "accepted" /\ UNCHANGED <<cancels, evicted>>
    BY <1>2, GotoRun DEF Start, past, At
  <2>2. CASE r[1] \in dedup
    <3>1. run'[r].pc = "gone" /\ dedup' = dedup
      BY <1>2, <2>2, GotoRun DEF Start
    <3> QED
      BY <2>1, <3>1 DEF OnceInv, OnlyRun
  <2>3. CASE r[1] \notin dedup
    <3>1. run'[r].pc = "started" /\ dedup' = dedup \cup {r[1]}
      BY <1>2, <2>3, GotoRun DEF Start
    <3>2. \A q \in Runs : run[q].pc \in Working /\ q[1] = r[1] => q[1] \in evicted
      BY <2>3 DEF OnceInv
    <3> QED
      BY <2>1, <3>1, <3>2 DEF OnceInv, OnlyRun
  <2> QED
    BY <2>2, <2>3
<1>3. CASE Register(r)
  <2>1. /\ OnlyRun(r) /\ run[r].pc = "started" /\ run'[r].pc = "prepare"
        /\ cancels' = [cancels EXCEPT ![r[1]] = r] /\ UNCHANGED <<dedup, evicted>>
    BY <1>3, GotoRun DEF Register, past, At
  <2>2. cancels' \in [Ids -> Runs \cup {None}] /\ cancels'[r[1]] = r
    BY <2>1, IdOf DEF OnceInv
  <2>3. \A q \in Runs : q[1] # r[1] => cancels'[q[1]] = cancels[q[1]]
    BY <2>1, IdOf DEF OnceInv
  <2> QED
    BY <2>1, <2>2, <2>3 DEF OnceInv, OnlyRun
<1>4. CASE Prepare(r)
  BY <1>4, GotoRun, EndRun, StaysKeeps DEF Prepare, Stays, At, past, Outcomes
<1>5. CASE Execute(r) \/ ChildrenExit(r)
  BY <1>5, ExecuteRun, StaysKeeps DEF Executed, Stays, past
<1>6. CASE ReportFinal(r)
  BY <1>6, GotoRun, StaysKeeps DEF ReportFinal, Stays, At
<1>7. CASE BufferOpen(r)
  BY <1>7, GotoRun, StaysKeeps DEF BufferOpen, Stays, At
<1>8. CASE BufferWrite(r)
  BY <1>8, GotoRun, StaysKeeps DEF BufferWrite, Stays, At
<1>9. CASE Remove(r)
  BY <1>9, GotoRun, StaysKeeps DEF Remove, Stays, At, past
<1>10. CASE Leave(r)
  <2>1. /\ OnlyRun(r) /\ run[r].pc = "leave" /\ run'[r].pc = "gone"
        /\ cancels' = [cancels EXCEPT ![r[1]] = None] /\ UNCHANGED <<dedup, evicted>>
    BY <1>10, GotoRun DEF Leave, past, At
  <2>2. cancels' \in [Ids -> Runs \cup {None}]
    BY <2>1, IdOf DEF OnceInv
  <2>3. \A q \in Runs : q[1] # r[1] => cancels'[q[1]] = cancels[q[1]]
    BY <2>1, IdOf DEF OnceInv
  <2> QED
    BY <2>1, <2>2, <2>3 DEF OnceInv, OnlyRun
<1>11. CASE Deadline(r)
  BY <1>11, InterruptRun, StaysKeeps, Zenon
     DEF Deadline, Interruptible, Executing, At, Stays, past
<1> QED
  BY <1>1, <1>2, <1>3, <1>4, <1>5, <1>6, <1>7, <1>8, <1>9, <1>10, <1>11 DEF Step

(* A restart ends every run; the other steps leave them alone.             *)
LEMMA StepOnce == OnceInv /\ [Next]_vars => OnceInv'
<1> SUFFICES ASSUME OnceInv, [Next]_vars PROVE OnceInv'
  OBVIOUS
<1>1. CASE \E r \in Runs : Deliver(r) \/ Step(r) \/ ChildrenExit(r) \/ Deadline(r)
  BY <1>1, RunOnce
<1>2. ASSUME NEW i \in Ids, Cancel(i) PROVE OnceInv'
  <2>1. cancels[i] \in Runs
    BY <1>2 DEF Cancel, OnceInv
  <2>2. run[cancels[i]].pc \in Cancellable
    BY <1>2 DEF Cancel, Interruptible, Executing, At, Cancellable, Working, PCs
  <2> QED
    BY <1>2, <2>1, <2>2, InterruptRun, StaysKeeps, Zenon DEF Cancel, Stays, past
<1>3. ASSUME NEW i \in Ids, EvictDedup(i) PROVE OnceInv'
  BY <1>3, OthersOnce DEF EvictDedup
<1>4. ASSUME NEW f \in Flushers, Flush(f) PROVE OnceInv'
  <2>1. UNCHANGED <<run, cancels, dedup, evicted>>
    BY <1>4, Zenon DEF Flush, FlushList, FlushDone, FlushRead, FlushSend, FlushRemove, past
  <2> QED
    BY <2>1, OthersOnce
<1>5. CASE Restart
  <2>1. run' \in [Runs -> RunStates] /\ \A r \in Runs : run'[r].pc \in {"none", "gone"}
    BY <1>5 DEF Restart, OnceInv, RunStates, PCs
  <2>2. cancels' \in [Ids -> Runs \cup {None}]
    BY <1>5 DEF Restart
  <2> QED
    BY <2>1, <2>2 DEF OnceInv, Working, Cancellable
<1>6. CASE UNCHANGED vars
  BY <1>6, OthersOnce DEF vars
<1> QED
  BY <1>1, <1>2, <1>3, <1>4, <1>5, <1>6 DEF Next

(* isDuplicate: one process has two runs of an id under way only if the entry  *)
(* of the first was dropped by age, for any deliveries, restarts and faults.   *)
THEOREM OneRunAtATime == Spec => []OnceAtATime
<1>1. OnceInv => OnceAtATime
  BY DEF OnceInv, OnceAtATime, Active, Working, RunStates
<1> QED
  BY <1>1, InitOnce, StepOnce, PTL DEF Spec

(* run and Cancel: the cancel function stored under the id of a run that       *)
(* executes is its own, unless the id's entry was dropped.                   *)
THEOREM Cancellation == Spec => []CancelReaches
<1>1. OnceInv => CancelReaches
  BY DEF OnceInv, CancelReaches, Executing, Cancellable, Working, PCs
<1> QED
  BY <1>1, InitOnce, StepOnce, PTL DEF Spec

--------------------------------------------------------------------------------
(* The report of a run, where no other process flushes the same directory.  *)

Files == {None, Torn} \cup {Report(r) : r \in Runs}

FlushStates == [pc : {"wait", "next", "send", "remove"}, list : SUBSET Ids,
                cur : Ids \cup {None}, held : Runs \cup {None}]

InHand == {"orphan", "final", "buffer", "write"}

Before == {"none", "accepted", "started", "prepare", "exec", "body"}

Ended(r) == run[r].out # "none"

(* Another run of r's id has ended.                                        *)
Rival(r) == \E q \in Runs : q[1] = r[1] /\ q # r /\ Ended(q)

(* A run of i is past the end of Buffer or of Remove.                      *)
Past(i) == \E q \in Runs : q[1] = i /\ Ended(q) /\ run[q].pc \in {"leave", "gone"}

(* What the runs know of themselves.                                       *)
RunsInv ==
    \A r \in Runs :
       /\ run[r].pc \in Before => ~Ended(r)
       /\ run[r].pc \in InHand \cup {"remove", "leave"} => Ended(r)
       /\ run[r].pc = "remove" => r \in delivered
       /\ run[r].pc = "write" => lock = r

(* A file has a writer; one that is gone while it is written, or after, was    *)
(* taken for that of another run, or is with the scheduler.                  *)
FilesInv ==
    /\ file \in [Ids -> Files]
    /\ \A i \in Ids : /\ file[i] # None => Past(i) \/ \E r \in Runs : r[1] = i /\ At(r, "write")
                      /\ \A r \in Runs : file[i] = Report(r) => r[1] = i /\ Ended(r)
    /\ \A r \in Runs : /\ At(r, "write") /\ file[r[1]] = None => Rival(r)
                       /\ Ended(r) /\ ~Rival(r) /\ r \notin spoiled
                          => \/ r \in delivered
                             \/ run[r].pc \in InHand
                             \/ file[r[1]] = Report(r)

(* The flush loop lists and holds only what a run has left behind.         *)
FlushInv ==
    /\ flush \in [Flushers -> FlushStates]
    /\ \A i \in flush[Own].list : Past(i)
    /\ flush[Own].pc \in {"send", "remove"} =>
          LET f == flush[Own]
          IN  /\ f.cur \in Ids /\ f.held \in Runs /\ f.held[1] = f.cur
              /\ Past(f.cur) /\ Ended(f.held)
    /\ flush[Own].pc = "remove" => flush[Own].held \in delivered

KeptInv == OnceInv /\ RunsInv /\ FilesInv /\ FlushInv

(* A whole report names its run, and is not torn.                          *)
LEMMA ReportsDiffer ==
    /\ \A q, r \in Runs : Report(q) = Report(r) => q = r
    /\ \A r \in Runs : Report(r) # Torn
  BY DEF Report, Torn

(* There is no report at the start.                                        *)
LEMMA InitKept == Init => KeptInv
<1> SUFFICES ASSUME Init PROVE KeptInv
  OBVIOUS
<1>1. OnceInv
  BY InitOnce
<1>2. \A r \in Runs : run[r].pc = "none" /\ ~Ended(r)
  BY DEF Init, NoRun, Ended
<1>3. RunsInv
  BY <1>2 DEF RunsInv, InHand
<1>4. FilesInv
  <2>1. \A r \in Runs : None # Report(r)
    BY NoneIsNoFile
  <2> QED
    BY <1>2, <2>1 DEF Init, FilesInv, Files, At
<1>5. FlushInv
  BY WorkerParameters DEF Init, FlushInv, Resting, FlushStates
<1> QED
  BY <1>1, <1>3, <1>4, <1>5 DEF KeptInv

(* An outcome is never forgotten, and a run that is over stays over.       *)
Onward == \A q \in Runs : Ended(q) => /\ Ended(q)'
                                      /\ run[q].pc \in {"leave", "gone"}
                                         => run'[q].pc \in {"leave", "gone"}

(* What was left behind by a run stays so.                                 *)
LEMMA OnwardKeeps ==
  ASSUME Onward
  PROVE  /\ \A r \in Runs : Rival(r) => Rival(r)'
         /\ \A i \in Ids : Past(i) => Past(i)'
  BY DEF Onward, Rival, Past

(* A flush loop at rest, or going on with what it holds.                   *)
LEMMA FlushStill ==
  ASSUME KeptInv, Onward, flush' = flush, delivered \subseteq delivered'
  PROVE  FlushInv'
<1>1. flush[Own].list \subseteq Ids
  BY WorkerParameters DEF KeptInv, FlushInv, FlushStates
<1>2. \A i \in Ids : Past(i) => Past(i)'
  BY OnwardKeeps
<1>3. flush' \in [Flushers -> FlushStates] /\ \A i \in flush'[Own].list : Past(i)'
  BY <1>1, <1>2 DEF KeptInv, FlushInv
<1>4. flush[Own].pc \in {"send", "remove"} => Ended(flush[Own].held)'
  BY DEF KeptInv, FlushInv, Onward
<1> QED
  BY <1>2, <1>3, <1>4 DEF KeptInv, FlushInv

(* A step of r that touches no file.                                       *)
Quiet(r) ==
    /\ OnlyRun(r) /\ UNCHANGED <<file, lock, flush, spoiled>> /\ delivered \subseteq delivered'
    /\ run[r].pc # "write" /\ run'[r].pc # "write"
    /\ Ended(r) => Ended(r)'
    /\ run[r].pc \in {"leave", "gone"} => run'[r].pc \in {"leave", "gone"}
    /\ run'[r].pc \in Before => ~Ended(r)'
    /\ run'[r].pc \in InHand \cup {"remove", "leave"} => Ended(r)'
    /\ run'[r].pc = "remove" => r \in delivered'
    /\ Ended(r)' => \/ run'[r].pc \in InHand
                    \/ r \in delivered'
                    \/ Ended(r) /\ run[r].pc \notin InHand

(* Steps that touch no file keep every report.                             *)
LEMMA QuietKeeps ==
  ASSUME KeptInv, OnceInv', NEW r \in Runs, Quiet(r) PROVE KeptInv'
<1>1. Onward
  BY DEF Onward, Quiet, OnlyRun, Ended
<1>2. RunsInv'
  BY DEF KeptInv, RunsInv, Quiet, OnlyRun, Ended
<1>3. FlushInv'
  BY <1>1, FlushStill DEF Quiet
<1>4. FilesInv'
  <2>1. file' \in [Ids -> Files]
    BY DEF KeptInv, FilesInv, Quiet
  <2>2. ASSUME NEW i \in Ids, file'[i] # None
        PROVE  Past(i)' \/ \E q \in Runs : q[1] = i /\ At(q, "write")'
    <3>1. Past(i) \/ \E q \in Runs : q[1] = i /\ At(q, "write")
      BY <2>2 DEF KeptInv, FilesInv, Quiet
    <3> QED
      BY <1>1, <3>1, OnwardKeeps DEF Quiet, OnlyRun, At
  <2>3. ASSUME NEW i \in Ids, NEW q \in Runs, file'[i] = Report(q)
        PROVE  q[1] = i /\ Ended(q)'
    BY <1>1, <2>3 DEF KeptInv, FilesInv, Quiet, Onward
  <2>4. ASSUME NEW q \in Runs, At(q, "write")', file'[q[1]] = None
        PROVE  Rival(q)'
    <3>1. At(q, "write") /\ file[q[1]] = None
      BY <2>4 DEF Quiet, OnlyRun, At
    <3> QED
      BY <1>1, <3>1, OnwardKeeps DEF KeptInv, FilesInv
  <2>5. ASSUME NEW q \in Runs, Ended(q)', ~Rival(q)', q \notin spoiled'
        PROVE  q \in delivered' \/ run'[q].pc \in InHand \/ file'[q[1]] = Report(q)
    <3>1. ~Rival(q) /\ q \notin spoiled
      BY <1>1, <2>5, OnwardKeeps DEF Quiet
    <3>2. Ended(q) => q \in delivered \/ run[q].pc \in InHand \/ file[q[1]] = Report(q)
      BY <3>1 DEF KeptInv, FilesInv
    <3>3. CASE q = r
      BY <2>5, <3>2, <3>3 DEF Quiet
    <3>4. CASE q # r
      BY <2>5, <3>2, <3>4 DEF Quiet, OnlyRun, Ended
    <3> QED
      BY <3>3, <3>4
  <2> QED
    BY <2>1, <2>2, <2>3, <2>4, <2>5 DEF FilesInv
<1> QED
  BY <1>2, <1>3, <1>4 DEF KeptInv

(* A step of r in Buffer or Remove, which no other run can be in.          *)
Stores(r) ==
    /\ OnlyRun(r) /\ UNCHANGED <<flush, delivered>> /\ spoiled \subseteq spoiled'
    /\ run[r].pc \in {"buffer", "write", "remove"} /\ run'[r].pc \in {"write", "leave"}
    /\ run'[r].out = run[r].out
    /\ file' \in [Ids -> Files] /\ \A j \in Ids : j # r[1] => file'[j] = file[j]
    /\ file'[r[1]] \in {file[r[1]], None, Torn, Report(r)}
    /\ \A q \in Runs : q # r => ~At(q, "write")
    /\ run'[r].pc = "write" => lock' = r /\ file'[r[1]] # None
    /\ run'[r].pc = "leave" => r \in delivered \cup spoiled' \/ file'[r[1]] = Report(r) \/ Rival(r)

(* Buffer and Remove keep every report.                                    *)
LEMMA StoresKeeps ==
  ASSUME KeptInv, OnceInv', NEW r \in Runs, Stores(r) PROVE KeptInv'
<1>1. Ended(r) /\ Ended(r)'
  BY DEF KeptInv, RunsInv, Stores, InHand, Ended
<1>2. Onward
  BY <1>1 DEF Onward, Stores, OnlyRun, Ended
<1>3. RunsInv'
  BY <1>1 DEF KeptInv, RunsInv, Stores, OnlyRun, Ended, At, Before, InHand
<1>4. FlushInv'
  BY <1>2, FlushStill DEF Stores
<1>5. FilesInv'
  <2>1. ASSUME NEW i \in Ids, file'[i] # None
        PROVE  Past(i)' \/ \E q \in Runs : q[1] = i /\ At(q, "write")'
    <3>1. CASE i = r[1]
      BY <1>1, <3>1 DEF Stores, Past, At
    <3>2. CASE i # r[1]
      <4>1. Past(i)
        BY <2>1, <3>2 DEF KeptInv, FilesInv, Stores
      <4> QED
        BY <1>2, <4>1, OnwardKeeps
    <3> QED
      BY <3>1, <3>2
  <2>2. ASSUME NEW i \in Ids, NEW q \in Runs, file'[i] = Report(q)
        PROVE  q[1] = i /\ Ended(q)'
    <3>1. CASE file[i] = Report(q)
      BY <1>2, <3>1 DEF KeptInv, FilesInv, Onward
    <3>2. CASE file[i] # Report(q)
      <4>1. i = r[1] /\ Report(q) = Report(r)
        BY <2>2, <3>2, ReportsDiffer, NoneIsNoFile DEF Stores
      <4> QED
        BY <1>1, <4>1, ReportsDiffer
    <3> QED
      BY <3>1, <3>2
  <2>3. ASSUME NEW q \in Runs, At(q, "write")', file'[q[1]] = None
        PROVE  Rival(q)'
    BY <2>3 DEF Stores, OnlyRun, At
  <2>4. ASSUME NEW q \in Runs, Ended(q)', ~Rival(q)', q \notin spoiled'
        PROVE  q \in delivered' \/ run'[q].pc \in InHand \/ file'[q[1]] = Report(q)
    <3>1. ~Rival(q) /\ q \notin spoiled
      BY <1>2, <2>4, OnwardKeeps DEF Stores
    <3>2. CASE q = r
      BY <2>4, <3>1, <3>2 DEF Stores, InHand
    <3>3. CASE q # r
      <4>1. q[1] # r[1]
        BY <1>1, <3>1, <3>3 DEF Rival
      <4>2. file'[q[1]] = file[q[1]] /\ run'[q] = run[q]
        BY <3>3, <4>1, IdOf DEF Stores, OnlyRun
      <4>3. Ended(q)
        BY <2>4, <4>2 DEF Ended
      <4> QED
        BY <3>1, <4>2, <4>3 DEF KeptInv, FilesInv, Stores
    <3> QED
      BY <3>2, <3>3
  <2>5. file' \in [Ids -> Files]
    BY DEF Stores
  <2> QED
    BY <2>1, <2>2, <2>3, <2>4, <2>5 DEF FilesInv
<1> QED
  BY <1>3, <1>4, <1>5 DEF KeptInv

(* Only the run at "write" has the mutex.                                  *)
LEMMA Unlocked ==
  ASSUME KeptInv, lock = None PROVE \A q \in Runs : ~At(q, "write")
  BY WorkerParameters DEF KeptInv, RunsInv, At

(* Every step of a run keeps its report.                                   *)
LEMMA RunKept ==
  ASSUME KeptInv, NEW r \in Runs, Deliver(r) \/ Step(r) \/ ChildrenExit(r) \/ Deadline(r)
  PROVE  KeptInv'
<1>1. OnceInv /\ OnceInv' /\ r[1] \in Ids
  BY RunOnce, IdOf DEF KeptInv
<1>2. run[r].pc \in Before => ~Ended(r)
  BY DEF KeptInv, RunsInv
<1>3. run[r].pc \in InHand \cup {"remove", "leave"} => Ended(r)
  BY DEF KeptInv, RunsInv
<1>4. CASE Deliver(r)
  BY <1>1, <1>2, <1>4, GotoRun, QuietKeeps
  DEF Deliver, Quiet, At, PCs, Before, InHand, store, past, Ended
<1>5. CASE Start(r)
  <2>1. \E pc \in {"gone", "started"} : Goto(r, pc)
    BY <1>5 DEF Start
  <2> QED
    BY <1>1, <1>2, <1>5, <2>1, GotoRun, QuietKeeps
    DEF Start, Quiet, At, PCs, Before, InHand, store, past, Ended
<1>6. CASE Register(r)
  BY <1>1, <1>2, <1>6, GotoRun, QuietKeeps
  DEF Register, Quiet, At, PCs, Before, InHand, store, past, Ended
<1>7. CASE Prepare(r)
  <2>1. Goto(r, "exec") \/ End(r, "failed")
    BY <1>7 DEF Prepare
  <2>2. /\ OnlyRun(r)
        /\ \/ run'[r].pc = "exec" /\ run'[r].out = run[r].out
           \/ run'[r].pc = "final" /\ run'[r].out = "failed"
    BY <1>1, <2>1, GotoRun, EndRun DEF PCs, Outcomes
  <2>3. At(r, "prepare") /\ UNCHANGED <<store, delivered, spoiled>>
    BY <1>7 DEF Prepare, past
  <2>4. Quiet(r)
    BY <1>2, <2>2, <2>3, Zenon DEF Quiet, At, Before, InHand, store, Ended
  <2> QED
    BY <1>1, <2>4, QuietKeeps
<1>8. CASE Execute(r) \/ ChildrenExit(r)
  <2>1. Executed(r)
    BY <1>1, <1>8, ExecuteRun
  <2> QED
    BY <1>1, <1>2, <1>3, <2>1, QuietKeeps, Zenon
    DEF Executed, Quiet, Before, InHand, store, past, Ended, Outcomes
<1>9. CASE ReportFinal(r)
  <2>1. (Goto(r, "remove") /\ r \in delivered') \/ Goto(r, "buffer")
    BY <1>9 DEF ReportFinal
  <2>2. delivered \subseteq delivered' /\ UNCHANGED <<store, spoiled>>
    BY <1>9 DEF ReportFinal
  <2> QED
    BY <1>1, <1>3, <1>9, <2>1, <2>2, GotoRun, QuietKeeps
    DEF ReportFinal, Quiet, At, PCs, Before, InHand, store, Ended
<1>10. CASE BufferOpen(r)
  <2>1. \A q \in Runs : ~At(q, "write")
    BY <1>10, Unlocked DEF BufferOpen
  <2>2. OnlyRun(r) /\ run'[r].pc \in {"write", "leave"} /\ run'[r].out = run[r].out
    BY <1>1, <1>10, GotoRun DEF BufferOpen, PCs
  <2>3. CASE file' = [file EXCEPT ![r[1]] = Torn] /\ lock' = r /\ spoiled' = spoiled
             /\ Goto(r, "write")
    <3>1. file' \in [Ids -> Files] /\ file'[r[1]] = Torn
      BY <1>1, <2>3 DEF KeptInv, FilesInv, Files
    <3>2. run'[r].pc = "write"
      BY <1>1, <2>3, GotoRun, Zenon DEF PCs
    <3> QED
      BY <1>1, <1>10, <2>1, <2>2, <2>3, <3>1, <3>2, NoneIsNoFile, StoresKeeps, Zenon
      DEF BufferOpen, Stores, At, KeptInv, FilesInv
  <2>4. CASE file' = file /\ spoiled' = spoiled \cup {r} /\ Goto(r, "leave")
    <3>1. run'[r].pc = "leave"
      BY <1>1, <2>4, GotoRun, Zenon DEF PCs
    <3> QED
      BY <1>1, <1>10, <2>1, <2>2, <2>4, <3>1, StoresKeeps, Zenon
      DEF BufferOpen, Stores, At, KeptInv, FilesInv
  <2> QED
    BY <1>10, <2>3, <2>4 DEF BufferOpen
<1>11. CASE BufferWrite(r)
  <2>1. \A q \in Runs : q # r => ~At(q, "write")
    BY <1>11 DEF BufferWrite, KeptInv, RunsInv, At
  <2>2. OnlyRun(r) /\ run'[r].pc = "leave" /\ run'[r].out = run[r].out
    BY <1>1, <1>11, GotoRun DEF BufferWrite, PCs
  <2>3. file' \in [Ids -> Files] /\ \A j \in Ids : j # r[1] => file'[j] = file[j]
    BY <1>1, <1>11 DEF BufferWrite, KeptInv, FilesInv, Files
  <2>4. /\ file'[r[1]] \in {file[r[1]], None, Torn, Report(r)}
        /\ r \in spoiled' \/ file'[r[1]] = Report(r) \/ file[r[1]] = None
    BY <1>1, <1>11 DEF BufferWrite, KeptInv, FilesInv
  <2>5. file[r[1]] = None => Rival(r)
    BY <1>11, Zenon DEF BufferWrite, KeptInv, FilesInv
  <2>6. spoiled \subseteq spoiled'
    BY <1>11 DEF BufferWrite
  <2> QED
    BY <1>1, <1>11, <2>1, <2>2, <2>3, <2>4, <2>5, <2>6, StoresKeeps, Zenon
    DEF BufferWrite, Stores, At
<1>12. CASE Remove(r)
  <2>1. \A q \in Runs : ~At(q, "write")
    BY <1>12, Unlocked DEF Remove
  <2>2. OnlyRun(r) /\ run'[r].pc = "leave" /\ run'[r].out = run[r].out
    BY <1>1, <1>12, GotoRun DEF Remove, PCs
  <2>3. /\ file' \in [Ids -> Files] /\ file'[r[1]] = None
        /\ \A j \in Ids : j # r[1] => file'[j] = file[j]
    BY <1>1, <1>12 DEF Remove, KeptInv, FilesInv, Files
  <2>4. r \in delivered
    BY <1>12 DEF Remove, KeptInv, RunsInv, At
  <2> QED
    BY <1>1, <1>12, <2>1, <2>2, <2>3, <2>4, StoresKeeps DEF Remove, Stores, At, past
<1>13. CASE Leave(r)
  BY <1>1, <1>3, <1>13, GotoRun, QuietKeeps
  DEF Leave, Quiet, At, PCs, Before, InHand, store, past, Ended
<1>14. CASE Deadline(r)
  BY <1>1, <1>2, <1>3, <1>14, InterruptRun, QuietKeeps, Zenon
  DEF Deadline, Interruptible, Executing, Quiet, At, Before, InHand, store, past, Ended
<1> QED
  BY <1>4, <1>5, <1>6, <1>7, <1>8, <1>9, <1>10, <1>11, <1>12, <1>13, <1>14 DEF Step

(* The flush loop removes a file that a past run left, unless it is the only   *)
(* copy of a report that is not with the scheduler.                         *)
LEMMA DropKeeps ==
  ASSUME KeptInv, UNCHANGED <<run, dedup, cancels, evicted, spoiled, lock>>,
         delivered \subseteq delivered', NEW i \in Ids, Past(i),
         file' \in [Ids -> Files],
         \A j \in Ids : file'[j] = file[j] \/ (j = i /\ file'[j] = None),
         \A r \in Runs : file[i] = Report(r) /\ ~Rival(r)
                            => (file'[i] = file[i] \/ r \in delivered)
  PROVE  OnceInv' /\ RunsInv' /\ FilesInv' /\ Onward
<1>1. OnceInv' /\ RunsInv' /\ Onward
  BY Zenon DEF KeptInv, OnceInv, RunsInv, Onward, Ended
<1>2. \A j \in Ids : file'[j] = file[j] \/ (j = i /\ file'[j] = None)
  OBVIOUS
<1>3. ASSUME NEW r \in Runs, At(r, "write"), file'[r[1]] = None PROVE Rival(r)
  <2>1. CASE file[r[1]] = None
    BY <1>3, <2>1 DEF KeptInv, FilesInv
  <2>2. CASE r[1] = i
    <3>1. PICK q \in Runs : q[1] = i /\ Ended(q) /\ run[q].pc \in {"leave", "gone"}
      BY DEF Past
    <3> QED
      BY <1>3, <2>2, <3>1 DEF Rival, At
  <2> QED
    BY <1>2, <1>3, <2>1, <2>2, IdOf
<1>4. ASSUME NEW r \in Runs, Ended(r), ~Rival(r), r \notin spoiled
      PROVE  r \in delivered' \/ run[r].pc \in InHand \/ file'[r[1]] = Report(r)
  <2>1. r \in delivered \/ run[r].pc \in InHand \/ file[r[1]] = Report(r)
    BY <1>4 DEF KeptInv, FilesInv
  <2>2. file[r[1]] = Report(r) => r \in delivered \/ file'[r[1]] = Report(r)
    BY <1>2, <1>4, IdOf
  <2> QED
    BY <2>1, <2>2
<1>5. ASSUME NEW j \in Ids, file'[j] # None
      PROVE  Past(j) \/ \E r \in Runs : r[1] = j /\ At(r, "write")
  BY <1>2, <1>5, Zenon DEF KeptInv, FilesInv
<1>6. ASSUME NEW j \in Ids, NEW r \in Runs, file'[j] = Report(r) PROVE r[1] = j /\ Ended(r)
  BY <1>2, <1>6, NoneIsNoFile DEF KeptInv, FilesInv
<1>7. FilesInv'
  <2>1. /\ \A r \in Runs : Rival(r)' = Rival(r) /\ Ended(r)' = Ended(r)
        /\ \A j \in Ids : Past(j)' = Past(j)
    BY DEF Rival, Past, Ended
  <2>2. \A j \in Ids : file'[j] # None =>
                          Past(j)' \/ \E r \in Runs : r[1] = j /\ At(r, "write")'
    BY <1>5, <2>1, Zenon DEF At
  <2>3. \A j \in Ids, r \in Runs : file'[j] = Report(r) => r[1] = j /\ Ended(r)'
    BY <1>6, <2>1, Zenon
  <2>4. \A r \in Runs : /\ At(r, "write")' /\ file'[r[1]] = None => Rival(r)'
                        /\ Ended(r)' /\ ~Rival(r)' /\ r \notin spoiled
                           => \/ r \in delivered'
                              \/ run[r].pc \in InHand
                              \/ file'[r[1]] = Report(r)
    BY <1>3, <1>4, <2>1, Zenon DEF At
  <2> QED
    BY <1>2, <2>2, <2>3, <2>4 DEF FilesInv
<1> QED
  BY <1>1, <1>7

(* A step that leaves runs and files alone.                                *)
LEMMA StillKeeps ==
  ASSUME KeptInv, UNCHANGED <<run, dedup, cancels, evicted, spoiled, lock, file>>,
         delivered \subseteq delivered'
  PROVE  OnceInv' /\ RunsInv' /\ FilesInv' /\ Onward
<1>1. OnceInv' /\ RunsInv' /\ Onward
  BY DEF KeptInv, OnceInv, RunsInv, Onward, Ended
<1>2. FilesInv'
  <2>1. /\ \A r \in Runs : Rival(r)' = Rival(r) /\ Ended(r)' = Ended(r)
        /\ \A j \in Ids : Past(j)' = Past(j)
    BY DEF Rival, Past, Ended
  <2>2. FilesInv /\ file' = file /\ run' = run
    BY DEF KeptInv
  <2> QED
    BY <2>1, <2>2 DEF FilesInv, At
<1> QED
  BY <1>1, <1>2

(* The flush loop: what it lists was left by a past run, what it removes is    *)
(* torn or delivered.                                                       *)
LEMMA FlushKept ==
  ASSUME KeptInv, Flush(Own) PROVE KeptInv'
<1>1. /\ flush \in [Flushers -> FlushStates] /\ Own \in Flushers
      /\ flush[Own].list \subseteq Ids /\ \A i \in flush[Own].list : Past(i)
  BY WorkerParameters DEF KeptInv, FlushInv, FlushStates
<1>2. UNCHANGED <<run, dedup, cancels, evicted, spoiled>>
  BY Zenon DEF Flush, FlushList, FlushDone, FlushRead, FlushSend, FlushRemove, past
<1>3. \A i \in Ids : Past(i) => Past(i)'
  BY <1>2 DEF Past, Ended
<1>4. CASE FlushList(Own)
  <2>1. \A q \in Runs : ~At(q, "write")
    BY <1>4, Unlocked DEF FlushList
  <2>2. \A i \in Ids : file[i] # None => Past(i)
    BY <2>1 DEF KeptInv, FilesInv
  <2>3. flush' \in [Flushers -> FlushStates] /\ flush'[Own].pc = "next"
        /\ flush'[Own].list = {i \in Ids : file[i] # None}
    BY <1>1, <1>4, Zenon DEF FlushList, Resting, FlushStates
  <2>4. FlushInv'
    BY <1>3, <2>2, <2>3 DEF FlushInv
  <2> QED
    BY <1>2, <1>4, <2>4, StillKeeps DEF FlushList, past, KeptInv
<1>5. CASE FlushDone(Own)
  <2>1. flush' \in [Flushers -> FlushStates] /\ flush'[Own].pc = "wait" /\ flush'[Own].list = {}
    BY <1>1, <1>5 DEF FlushDone, Resting, FlushStates
  <2>2. FlushInv'
    BY <2>1 DEF FlushInv
  <2> QED
    BY <1>2, <1>5, <2>2, StillKeeps DEF FlushDone, past, KeptInv
<1>6. CASE FlushRead(Own)
  <2>1. PICK i \in flush[Own].list :
          \/ /\ file[i] = None /\ flush' = [flush EXCEPT ![Own].list = @ \ {i}]
             /\ file' = file
          \/ /\ file[i] = Torn /\ flush' = [flush EXCEPT ![Own].list = @ \ {i}]
             /\ file' = [file EXCEPT ![i] = None]
          \/ /\ file[i] \notin {None, Torn}
             /\ flush' = [flush EXCEPT ![Own].pc = "send", ![Own].list = @ \ {i},
                                       ![Own].cur = i, ![Own].held = file[i].of]
             /\ file' = file
    BY <1>6, Zenon DEF FlushRead
  <2>2. i \in Ids /\ Past(i)
    BY <1>1, <2>1
  <2>3. UNCHANGED <<lock, delivered>> /\ flush[Own].pc = "next"
    BY <1>6 DEF FlushRead, FlushAt, past
  <2>4. OnceInv' /\ RunsInv' /\ FilesInv'
    <3>1. file \in [Ids -> Files] /\ None \in Files
      BY DEF KeptInv, FilesInv, Files
    <3>2. CASE file' = file
      BY <1>2, <2>2, <2>3, <3>1, <3>2, DropKeeps
    <3>3. CASE file[i] = Torn /\ file' = [file EXCEPT ![i] = None]
      <4>1. /\ file' \in [Ids -> Files]
            /\ \A j \in Ids : file'[j] = file[j] \/ (j = i /\ file'[j] = None)
        BY <2>2, <3>1, <3>3
      <4>2. \A r \in Runs : file[i] # Report(r)
        BY <3>3, ReportsDiffer
      <4> QED
        BY <1>2, <2>2, <2>3, <4>1, <4>2, DropKeeps
    <3> QED
      BY <2>1, <3>2, <3>3
  <2>5. CASE flush' = [flush EXCEPT ![Own].list = @ \ {i}]
    <3>1. /\ flush' \in [Flushers -> FlushStates] /\ flush'[Own].pc = "next"
          /\ flush'[Own].list \subseteq flush[Own].list
      BY <1>1, <2>3, <2>5 DEF FlushStates
    <3>2. FlushInv'
      BY <1>1, <1>3, <3>1 DEF FlushInv
    <3> QED
      BY <2>4, <3>2 DEF KeptInv
  <2>6. CASE /\ file[i] \notin {None, Torn}
             /\ flush' = [flush EXCEPT ![Own].pc = "send", ![Own].list = @ \ {i},
                                       ![Own].cur = i, ![Own].held = file[i].of]
    <3>1. PICK q \in Runs : file[i] = Report(q)
      BY <2>2, <2>6 DEF KeptInv, FilesInv, Files
    <3>2. q[1] = i /\ Ended(q) /\ file[i].of = q
      <4>1. q[1] = i /\ Ended(q)
        BY <2>2, <3>1 DEF KeptInv, FilesInv
      <4>2. file[i].of = q
        BY <3>1 DEF Report
      <4> QED
        BY <4>1, <4>2
    <3>3. /\ flush' \in [Flushers -> FlushStates] /\ flush'[Own].pc = "send"
          /\ flush'[Own].list \subseteq flush[Own].list
          /\ flush'[Own].cur = i /\ flush'[Own].held = q
      BY <1>1, <2>2, <2>6, <3>2 DEF FlushStates
    <3>4. Ended(q)'
      BY <1>2, <3>2 DEF Ended
    <3>5. FlushInv'
      BY <1>1, <1>3, <2>2, <3>2, <3>3, <3>4 DEF FlushInv
    <3> QED
      BY <2>4, <3>5 DEF KeptInv
  <2> QED
    BY <2>1, <2>5, <2>6
<1>7. CASE FlushSend(Own)
  <2>1. PICK pc \in {"remove", "next"} :
          /\ flush' = [flush EXCEPT ![Own].pc = pc]
          /\ delivered \subseteq delivered'
          /\ pc = "remove" => flush[Own].held \in delivered'
    BY <1>7 DEF FlushSend
  <2>2. flush[Own].pc = "send" /\ UNCHANGED <<lock, file>>
    BY <1>7 DEF FlushSend, FlushAt
  <2>3. /\ flush' \in [Flushers -> FlushStates] /\ flush'[Own].pc = pc
        /\ flush'[Own].list = flush[Own].list
        /\ flush'[Own].cur = flush[Own].cur /\ flush'[Own].held = flush[Own].held
    BY <1>1, <2>1 DEF FlushStates
  <2>4. Ended(flush[Own].held)'
    <3>1. PICK h \in Runs : h = flush[Own].held /\ Ended(h)
      BY <2>2 DEF KeptInv, FlushInv
    <3>2. Ended(h)'
      BY <1>2, <3>1 DEF Ended
    <3> QED
      BY <2>3, <3>1, <3>2 DEF Ended
  <2>5. FlushInv'
    BY <1>1, <1>3, <2>1, <2>2, <2>3, <2>4 DEF KeptInv, FlushInv
  <2> QED
    BY <1>2, <2>1, <2>2, <2>5, StillKeeps DEF KeptInv
<1>8. CASE FlushRemove(Own)
  <2>1. PICK i : i = flush[Own].cur
    OBVIOUS
  <2>2. /\ i \in Ids /\ Past(i) /\ flush[Own].held \in Runs /\ flush[Own].held[1] = i
        /\ Ended(flush[Own].held) /\ flush[Own].held \in delivered
    BY <1>8, <2>1 DEF FlushRemove, FlushAt, KeptInv, FlushInv
  <2>3. \A r \in Runs : file[i] = Report(r) /\ ~Rival(r) => r \in delivered
    <3>1. SUFFICES ASSUME NEW r \in Runs, file[i] = Report(r), ~Rival(r) PROVE r \in delivered
      OBVIOUS
    <3>2. r[1] = i
      BY <2>2, <3>1 DEF KeptInv, FilesInv
    <3> QED
      BY <2>2, <3>1, <3>2 DEF Rival
  <2>4. UNCHANGED <<lock, delivered>> /\ file' = [file EXCEPT ![i] = None]
    BY <1>8, <2>1 DEF FlushRemove, past
  <2>5. OnceInv' /\ RunsInv' /\ FilesInv'
    <3>1. file \in [Ids -> Files] /\ None \in Files
      BY DEF KeptInv, FilesInv, Files
    <3>2. /\ file' \in [Ids -> Files]
          /\ \A j \in Ids : file'[j] = file[j] \/ (j = i /\ file'[j] = None)
      BY <2>2, <2>4, <3>1
    <3> QED
      BY <1>2, <2>2, <2>3, <2>4, <3>2, DropKeeps
  <2>6. /\ flush' \in [Flushers -> FlushStates] /\ flush'[Own].pc = "next"
        /\ flush'[Own].list = flush[Own].list
    <3>1. flush' = [flush EXCEPT ![Own].pc = "next", ![Own].cur = None, ![Own].held = None]
      BY <1>8 DEF FlushRemove
    <3>2. PICK g : g = [flush[Own] EXCEPT !.pc = "next", !.cur = None, !.held = None]
      OBVIOUS
    <3>3. g \in FlushStates /\ g.pc = "next" /\ g.list = flush[Own].list
      BY <1>1, <3>2, Zenon DEF FlushStates
    <3>4. flush' = [flush EXCEPT ![Own] = g]
      BY <3>1, <3>2, Zenon
    <3> QED
      BY <1>1, <3>3, <3>4
  <2>7. FlushInv'
    BY <1>1, <1>3, <2>6 DEF FlushInv
  <2> QED
    BY <2>5, <2>7 DEF KeptInv
<1> QED
  BY <1>4, <1>5, <1>6, <1>7, <1>8 DEF Flush

(* A step that leaves runs, files and the flush loop alone.                *)
LEMMA SameKept ==
  ASSUME KeptInv, OnceInv', UNCHANGED <<run, file, lock, flush, delivered, spoiled>>
  PROVE  KeptInv'
<1>1. \A r \in Runs : (Rival(r)' <=> Rival(r)) /\ (Ended(r)' <=> Ended(r))
  BY DEF Rival, Ended
<1>2. \A i \in Ids : Past(i)' <=> Past(i)
  BY DEF Past, Ended
<1>3. RunsInv'
  BY DEF KeptInv, RunsInv, Ended
<1>4. FilesInv'
  <2>1. FilesInv /\ UNCHANGED <<run, file, delivered, spoiled>>
    BY DEF KeptInv
  <2>2. \A r \in Runs : At(r, "write")' <=> At(r, "write")
    BY <2>1, Zenon DEF At
  <2> QED
    BY <1>1, <1>2, <2>1, <2>2, Zenon DEF FilesInv
<1>5. FlushInv'
  <2>1. FlushInv /\ flush' = flush /\ delivered' = delivered
    BY DEF KeptInv
  <2>2. flush[Own].pc \in {"send", "remove"} =>
          Past(flush[Own].cur)' /\ Ended(flush[Own].held)'
    BY <1>1, <1>2, <2>1 DEF FlushInv
  <2>3. flush \in [Flushers -> FlushStates] /\ flush[Own].list \subseteq Ids
    BY <2>1, WorkerParameters DEF FlushInv, FlushStates
  <2> QED
    BY <1>2, <2>1, <2>2, <2>3, Zenon DEF FlushInv
<1> QED
  BY <1>3, <1>4, <1>5 DEF KeptInv

(* Every step of the process keeps the reports of its runs.                *)
LEMMA StepKept ==
  ASSUME Flushers = {Own}
  PROVE  KeptInv /\ [Next]_vars => KeptInv'
<1> SUFFICES ASSUME KeptInv, [Next]_vars PROVE KeptInv'
  OBVIOUS
<1>0. OnceInv'
  BY StepOnce DEF KeptInv
<1>1. CASE \E r \in Runs : Deliver(r) \/ Step(r) \/ ChildrenExit(r) \/ Deadline(r)
  BY <1>1, RunKept
<1>2. ASSUME NEW i \in Ids, Cancel(i) PROVE KeptInv'
  <2>1. PICK r \in Runs : r = cancels[i]
    BY <1>2 DEF Cancel, KeptInv, OnceInv
  <2>2. run[r].pc \in {"exec", "body", "orphan", "prepare"}
    BY <1>2, <2>1 DEF Cancel, Interruptible, Executing, At
  <2>3. OnlyRun(r) /\ run'[r].pc = run[r].pc /\ run'[r].out = run[r].out
    BY <1>2, <2>1, InterruptRun, Zenon DEF Cancel, KeptInv
  <2>4. Quiet(r)
    BY <1>2, <2>2, <2>3
    DEF Cancel, Quiet, KeptInv, RunsInv, Before, InHand, Ended, store, past
  <2> QED
    BY <1>0, <2>4, QuietKeeps
<1>3. ASSUME NEW i \in Ids, EvictDedup(i) PROVE KeptInv'
  <2>1. UNCHANGED <<run, file, lock, flush, delivered, spoiled>>
    BY <1>3 DEF EvictDedup, store
  <2> QED
    BY <1>0, <2>1, SameKept
<1>4. ASSUME NEW f \in Flushers, Flush(f) PROVE KeptInv'
  BY <1>4, FlushKept
<1>5. CASE Restart
  <2>1. \A r \in Runs : /\ run'[r].out = run[r].out
                        /\ run'[r].pc = IF run[r].pc = "none" THEN "none" ELSE "gone"
    BY <1>5 DEF Restart, KeptInv, OnceInv, RunStates
  <2>2. UNCHANGED <<file, delivered>> /\ spoiled \subseteq spoiled'
    BY <1>5 DEF Restart
  <2>3. \A r \in Runs : run[r].pc \in InHand => r \in spoiled'
    BY <1>5 DEF Restart, Active, InHand, At
  <2>4. RunsInv'
    BY <2>1 DEF KeptInv, RunsInv, Before, InHand, Ended
  <2>5. Onward /\ \A r \in Runs : Ended(r)' => Ended(r)
    BY <2>1 DEF Onward, Ended
  <2>6. ASSUME NEW i \in Ids, file[i] # None PROVE Past(i)'
    <3>1. CASE Past(i)
      BY <2>5, <3>1, OnwardKeeps
    <3>2. CASE \E r \in Runs : r[1] = i /\ At(r, "write")
      BY <2>1, <3>2 DEF KeptInv, RunsInv, InHand, Past, Ended, At
    <3> QED
      BY <2>6, <3>1, <3>2, Zenon DEF KeptInv, FilesInv
  <2>7. ASSUME NEW r \in Runs, Ended(r)', ~Rival(r)', r \notin spoiled'
        PROVE  r \in delivered' \/ file'[r[1]] = Report(r)
    <3>1. Ended(r) /\ ~Rival(r) /\ r \notin spoiled /\ run[r].pc \notin InHand
      BY <2>2, <2>3, <2>5, <2>7, OnwardKeeps
    <3> QED
      BY <2>2, <3>1 DEF KeptInv, FilesInv
  <2>8. FilesInv'
    BY <2>1, <2>2, <2>5, <2>6, <2>7, Zenon DEF KeptInv, FilesInv, Onward, At
  <2>9. FlushInv'
    <3>1. flush' = [flush EXCEPT ![Own] = Resting] /\ Resting \in FlushStates
      BY <1>5 DEF Restart, Resting, FlushStates
    <3>2. flush' \in [Flushers -> FlushStates] /\ flush'[Own] = Resting
      BY <3>1, WorkerParameters DEF KeptInv, FlushInv
    <3> QED
      BY <3>2 DEF FlushInv, Resting
  <2> QED
    BY <1>0, <2>4, <2>8, <2>9 DEF KeptInv
<1>6. CASE UNCHANGED vars
  BY <1>0, <1>6, SameKept DEF vars
<1> QED
  BY <1>1, <1>2, <1>3, <1>4, <1>5, <1>6 DEF Next

(* Buffer, Flush and Remove: where one process flushes the directory, the      *)
(* outcome of an id that was taken once is with the scheduler, in the run's    *)
(* hands or whole in its file, unless a restart or a full disk took it.       *)
THEOREM ReportsKept ==
  ASSUME Flushers = {Own}
  PROVE  Spec => []ReportKept
<1>1. KeptInv => ReportKept
  <2> SUFFICES ASSUME KeptInv, NEW r \in Runs,
                      run[r].out # "none", Taken(r[1]) = {r}, r \notin spoiled
               PROVE  r \in delivered \/ run[r].pc \in InHand \/ file[r[1]] = Report(r)
    BY DEF ReportKept, InHand
  <2>1. ~Rival(r)
    BY DEF Rival, Taken, Ended
  <2> QED
    BY <2>1 DEF KeptInv, FilesInv, Ended
<1>2. KeptInv /\ [Next]_vars => KeptInv'
  BY StepKept
<1> QED
  BY <1>1, <1>2, InitKept, PTL DEF Spec

--------------------------------------------------------------------------------
(* What a run leaves behind.                                               *)

(* A stored cancel function is that of a run of the id, past Register.      *)
LeftInv ==
    /\ OnceInv
    /\ running = Cardinality(Active)
    /\ \A i \in Ids : cancels[i] # None =>
          cancels[i][1] = i /\ run[cancels[i]].pc \in Cancellable
    /\ dirs \subseteq Executing \cup spoiled \cup littered

(* The number of runs under way is a number.                               *)
LEMMA FiniteActive == IsFiniteSet(Active)
<1>1. IsFiniteSet(1 .. MaxRuns)
  BY FS_Interval, WorkerParameters
<1>2. IsFiniteSet(Runs)
  BY <1>1, FS_Product, WorkerParameters DEF Runs
<1> QED
  BY <1>2, FS_Subset DEF Active

(* Nothing is left at the start.                                           *)
LEMMA InitLeft == Init => LeftInv
<1> SUFFICES ASSUME Init PROVE LeftInv
  OBVIOUS
<1>1. Active = {}
  BY DEF Init, Active, NoRun
<1>2. running = Cardinality(Active)
  BY <1>1, FS_EmptySet DEF Init
<1> QED
  BY <1>2, InitOnce DEF Init, LeftInv

(* The stored functions are still those of runs that can be cancelled.     *)
LEMMA FunctionsStay ==
  ASSUME LeftInv, NEW r \in Runs, OnlyRun(r), cancels' = cancels,
         run[r].pc \in Cancellable => run'[r].pc \in Cancellable
  PROVE  \A i \in Ids : cancels'[i] # None =>
            cancels'[i][1] = i /\ run'[cancels'[i]].pc \in Cancellable
<1> SUFFICES ASSUME NEW i \in Ids, cancels[i] # None
             PROVE  cancels[i][1] = i /\ run'[cancels[i]].pc \in Cancellable
  OBVIOUS
<1>1. PICK q \in Runs : q = cancels[i]
  BY DEF LeftInv, OnceInv
<1>2. q[1] = i /\ run[q].pc \in Cancellable
  BY <1>1, Zenon DEF LeftInv
<1> QED
  BY <1>1, <1>2 DEF OnlyRun

(* A step of a run that goes on: its directory is there while it executes.  *)
LEMMA GoesOnLeft ==
  ASSUME LeftInv, OnceInv', NEW r \in Runs, OnlyRun(r),
         run[r].pc \in Cancellable, run'[r].pc \in Cancellable,
         UNCHANGED <<cancels, running>>, spoiled \subseteq spoiled',
         littered \subseteq littered', dirs' \subseteq dirs \cup {r},
         r \in dirs' => \/ run'[r].pc \in {"exec", "body", "orphan"}
                        \/ r \in spoiled \/ r \in littered'
  PROVE  LeftInv'
<1>1. Active' = Active
  BY DEF Active, OnlyRun, Cancellable, Working
<1>2. running' = Cardinality(Active')
  BY <1>1 DEF LeftInv
<1>3. dirs' \subseteq Executing' \cup spoiled' \cup littered'
  BY DEF LeftInv, Executing, OnlyRun
<1>4. \A i \in Ids : cancels'[i] # None =>
         cancels'[i][1] = i /\ run'[cancels'[i]].pc \in Cancellable
  BY FunctionsStay
<1> QED
  BY <1>2, <1>3, <1>4 DEF LeftInv

(* Every step of a run keeps LeftInv.                                      *)
LEMMA RunLeft ==
  ASSUME LeftInv, NEW r \in Runs, Deliver(r) \/ Step(r) \/ ChildrenExit(r) \/ Deadline(r)
  PROVE  LeftInv'
<1> USE DEF PCs, Working, Cancellable
<1>1. OnceInv /\ OnceInv' /\ r[1] \in Ids
  BY RunOnce, IdOf, Zenon DEF LeftInv
<1>2. r \in dirs => \/ run[r].pc \in {"exec", "body", "orphan"}
                   \/ r \in spoiled \/ r \in littered
  BY DEF LeftInv, Executing
<1>3. CASE Deliver(r)
  <2>1. /\ OnlyRun(r) /\ run[r].pc = "none" /\ run'[r].pc = "accepted"
        /\ UNCHANGED <<cancels, running, dirs, littered, spoiled>>
    BY <1>1, <1>3, GotoRun, Zenon DEF Deliver, At, past, disk
  <2>2. Active' = Active /\ Executing' = Executing
    BY <2>1 DEF Active, Executing, OnlyRun
  <2>3. \A i \in Ids : cancels'[i] # None =>
           cancels'[i][1] = i /\ run'[cancels'[i]].pc \in Cancellable
    BY <2>1, FunctionsStay, Zenon
  <2> QED
    BY <1>1, <2>1, <2>2, <2>3, Zenon DEF LeftInv
<1>4. CASE Start(r)
  <2>1. /\ OnlyRun(r) /\ run[r].pc = "accepted" /\ UNCHANGED <<cancels, dirs, littered, spoiled>>
        /\ \/ run'[r].pc = "gone" /\ running' = running
           \/ run'[r].pc = "started" /\ running' = running + 1
    <3>1. \/ Goto(r, "gone") /\ running' = running
          \/ Goto(r, "started") /\ running' = running + 1
      BY <1>4 DEF Start
    <3> QED
      BY <1>1, <1>4, <3>1, GotoRun DEF Start, At, past, disk
  <2>2. Executing' = Executing
    BY <2>1 DEF Executing, OnlyRun
  <2>3. \A i \in Ids : cancels'[i] # None =>
           cancels'[i][1] = i /\ run'[cancels'[i]].pc \in Cancellable
    BY <2>1, FunctionsStay
  <2>4. running' = Cardinality(Active')
    <3>1. CASE run'[r].pc = "gone" /\ running' = running
      <4>1. Active' = Active
        BY <2>1, <3>1 DEF Active, OnlyRun
      <4> QED
        BY <3>1, <4>1 DEF LeftInv
    <3>2. CASE run'[r].pc = "started" /\ running' = running + 1
      <4>1. Active' = Active \cup {r} /\ r \notin Active
        BY <2>1, <3>2, Zenon DEF Active, OnlyRun
      <4> QED
        BY <3>2, <4>1, FiniteActive, FS_AddElement DEF LeftInv
    <3> QED
      BY <2>1, <3>1, <3>2
  <2> QED
    BY <1>1, <2>1, <2>2, <2>3, <2>4, Zenon DEF LeftInv
<1>5. CASE Register(r)
  <2>1. /\ OnlyRun(r) /\ run[r].pc = "started" /\ run'[r].pc = "prepare"
        /\ cancels' = [cancels EXCEPT ![r[1]] = r] /\ UNCHANGED <<running, dirs, littered, spoiled>>
    BY <1>1, <1>5, GotoRun, Zenon DEF Register, At, past, disk
  <2>2. Active' = Active /\ Executing' = Executing
    BY <2>1, Zenon DEF Active, Executing, OnlyRun
  <2>3. \A i \in Ids : cancels'[i] = IF i = r[1] THEN r ELSE cancels[i]
    BY <1>1, <2>1, Zenon DEF OnceInv
  <2>4. \A i \in Ids : cancels'[i] # None =>
           cancels'[i][1] = i /\ run'[cancels'[i]].pc \in Cancellable
    <3> SUFFICES ASSUME NEW i \in Ids, cancels'[i] # None
                 PROVE  cancels'[i][1] = i /\ run'[cancels'[i]].pc \in Cancellable
      BY Zenon
    <3>1. CASE i = r[1]
      BY <2>1, <2>3, <3>1, Zenon
    <3>2. CASE i # r[1]
      <4>0. cancels'[i] = cancels[i] /\ cancels[i] # None
        BY <2>3, <3>2, Zenon
      <4>1. PICK q \in Runs : q = cancels[i]
        BY <4>0, Zenon DEF LeftInv, OnceInv
      <4>2. q[1] = i /\ run[q].pc \in Cancellable
        BY <2>3, <3>2, <4>1 DEF LeftInv
      <4>3. cancels'[i] = q /\ q # r
        BY <2>3, <3>2, <4>1, <4>2
      <4>4. run'[q] = run[q]
        BY <2>1, <4>3 DEF OnlyRun
      <4> QED
        BY <4>2, <4>3, <4>4
    <3> QED
      BY <3>1, <3>2, Zenon
  <2> QED
    BY <1>1, <2>1, <2>2, <2>4, Zenon DEF LeftInv
<1>6. CASE Prepare(r)
  <2>1. /\ run[r].pc = "prepare" /\ UNCHANGED <<cancels, running, littered, spoiled>>
        /\ \/ Goto(r, "exec") /\ dirs' \subseteq dirs \cup {r}
           \/ End(r, "failed") /\ dirs' = dirs
    BY <1>6, Zenon DEF Prepare, At, past, disk
  <2> QED
    BY <1>1, <1>2, <2>1, GotoRun, EndRun, GoesOnLeft, Zenon DEF Outcomes
<1>7. CASE Execute(r) \/ ChildrenExit(r)
  <2>1. Executed(r)
    BY <1>1, <1>7, ExecuteRun
  <2> QED
    BY <1>1, <2>1, GoesOnLeft, Zenon DEF Executed, past
<1>8. CASE ReportFinal(r) \/ BufferOpen(r) \/ BufferWrite(r) \/ Remove(r)
  <2>1. /\ run[r].pc \in {"final", "buffer", "write", "remove"}
        /\ UNCHANGED <<cancels, running, dirs, littered>> /\ spoiled \subseteq spoiled'
        /\ \E pc \in {"remove", "buffer", "write", "leave"} : Goto(r, pc)
    BY <1>8, Zenon DEF ReportFinal, BufferOpen, BufferWrite, Remove, At, past, disk
  <2> QED
    BY <1>1, <1>2, <2>1, GotoRun, GoesOnLeft, Zenon
<1>9. CASE Leave(r)
  <2>1. /\ OnlyRun(r) /\ run[r].pc = "leave" /\ run'[r].pc = "gone"
        /\ cancels' = [cancels EXCEPT ![r[1]] = None] /\ running' = running - 1
        /\ UNCHANGED <<dirs, littered, spoiled>>
    BY <1>1, <1>9, GotoRun, Zenon DEF Leave, At, past, disk
  <2>2. Active' = Active \ {r} /\ r \in Active /\ Executing' = Executing
    BY <2>1, Zenon DEF Active, Executing, OnlyRun
  <2>3. running' = Cardinality(Active')
    BY <2>1, <2>2, FiniteActive, FS_RemoveElement, Zenon DEF LeftInv
  <2>4. \A i \in Ids : cancels'[i] = IF i = r[1] THEN None ELSE cancels[i]
    BY <1>1, <2>1 DEF OnceInv
  <2>5. ASSUME NEW i \in Ids, cancels'[i] # None
        PROVE  cancels'[i][1] = i /\ run'[cancels'[i]].pc \in Cancellable
    <3>1. i # r[1] /\ cancels'[i] = cancels[i]
      BY <2>4, <2>5
    <3>2. cancels[i] \in Runs /\ cancels[i][1] = i /\ run[cancels[i]].pc \in Cancellable
      BY <2>5, <3>1, Zenon DEF LeftInv, OnceInv
    <3> QED
      BY <2>1, <3>1, <3>2, Zenon DEF OnlyRun
  <2> QED
    BY <1>1, <2>1, <2>2, <2>3, <2>5, Zenon DEF LeftInv
<1>10. CASE Deadline(r)
  BY <1>1, <1>2, <1>10, InterruptRun, GoesOnLeft, Zenon
  DEF Deadline, Interruptible, Executing, At, past, disk
<1> QED
  BY <1>3, <1>4, <1>5, <1>6, <1>7, <1>8, <1>9, <1>10 DEF Step

(* Every step of the process keeps LeftInv.                                *)
LEMMA StepLeft == LeftInv /\ [Next]_vars => LeftInv'
<1> SUFFICES ASSUME LeftInv, [Next]_vars PROVE LeftInv'
  OBVIOUS
<1>0. OnceInv'
  BY StepOnce, Zenon DEF LeftInv
<1>1. CASE \E r \in Runs : Deliver(r) \/ Step(r) \/ ChildrenExit(r) \/ Deadline(r)
  BY <1>1, RunLeft
<1>2. ASSUME NEW i \in Ids, Cancel(i) PROVE LeftInv'
  <2>1. PICK r \in Runs : r = cancels[i]
    BY <1>2 DEF Cancel, LeftInv, OnceInv
  <2>2. run[r].pc \in {"exec", "body", "orphan", "prepare"}
    BY <1>2, <2>1 DEF Cancel, Interruptible, Executing, At
  <2>3. OnlyRun(r) /\ run'[r].pc = run[r].pc
    BY <1>2, <2>1, InterruptRun, Zenon DEF Cancel, LeftInv
  <2>4. r \in dirs => \/ run[r].pc \in {"exec", "body", "orphan"}
                     \/ r \in spoiled \/ r \in littered
    BY Zenon DEF LeftInv, Executing
  <2> QED
    BY <1>0, <1>2, <2>2, <2>3, <2>4, GoesOnLeft
    DEF Cancel, past, disk, Cancellable, Working, PCs
<1>3. CASE (\E i \in Ids : EvictDedup(i)) \/ (\E f \in Flushers : Flush(f)) \/ UNCHANGED vars
  <2>1. UNCHANGED <<run, cancels, running, dirs, littered, spoiled>>
    BY <1>3, Zenon
    DEF EvictDedup, Flush, FlushList, FlushDone, FlushRead, FlushSend, FlushRemove, past, disk,
        vars
  <2> QED
    BY <1>0, <2>1 DEF LeftInv, Active, Executing
<1>4. CASE Restart
  <2>1. Active' = {}
    BY <1>4 DEF Restart, Active
  <2>2. running' = Cardinality(Active')
    BY <1>4, <2>1, FS_EmptySet DEF Restart
  <2>3. dirs' \subseteq spoiled' \cup littered'
    BY <1>4 DEF Restart, LeftInv, Executing, Active, At, disk
  <2>4. \A i \in Ids : cancels'[i] = None
    BY <1>4 DEF Restart
  <2> QED
    BY <1>0, <2>2, <2>3, <2>4, Zenon DEF LeftInv
<1> QED
  BY <1>1, <1>2, <1>3, <1>4 DEF Next

(* run and its deferred calls: the counter is the number of runs under way,    *)
(* no cancel function outlives its run, and a sandbox directory only a        *)
(* restart or a Cleanup that failed, for any deliveries and faults.          *)
THEOREM NothingStays == Spec => []NothingLeft
<1>1. LeftInv => NothingLeft
  <2> SUFFICES ASSUME LeftInv PROVE NothingLeft
    OBVIOUS
  <2>1. \A i \in Ids : cancels[i] # None => cancels[i] \in Active
    BY DEF LeftInv, OnceInv, Active, Cancellable, Working
  <2> QED
    BY <2>1 DEF LeftInv, NothingLeft
<1> QED
  BY <1>1, InitLeft, StepLeft, PTL DEF Spec
================================================================================
