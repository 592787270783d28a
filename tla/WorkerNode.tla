------------------------------- MODULE WorkerNode ------------------------------
(***************************************************************************)
(* One worker process: the run goroutines of Handler with the dedup map,    *)
(* the cancel functions and the sandbox directories, the executors, and the  *)
(* local store's files with the loops that buffer, flush and remove them.    *)
(*                                                                         *)
(* TaskRuntime takes an execution and a write of a report file as one step;  *)
(* here a file is truncated, written, read and removed in steps of its own,  *)
(* and the executor tells how it was ended.                                 *)
(***************************************************************************)
EXTENDS Naturals, FiniteSets

CONSTANTS
    Ids,        \* schedule instance ids
    Kinds,      \* the task types delivered, a subset of AllKinds
    Sandboxed,  \* a sandbox directory is configured for shell tasks
    MaxRuns,    \* bound on deliveries of one id
    None,
    Flushers,   \* processes whose flush loop works in the store's directory
    Own,        \* this process among them
    Faults      \* the combinations of faults, each a subset of AllFaults

(* A command is a container, or a shell task outside a sandbox; a container   *)
(* without an image and an unknown task type fail like one.                  *)
AllKinds == {"shell", "command", "http"}

AllFaults ==
    {"loss",       \* a report does not get through
     "cancel",     \* the scheduler cancels
     "children",   \* a killed command leaves children that hold its output
     "evict",      \* the dedup entry of a run gets older than its TTL
     "mkdir",      \* the sandbox directory cannot be made
     "cleanup",    \* the sandbox directory cannot be removed
     "disk",       \* a report file cannot be written
     "crash"}      \* the process restarts

Runs == Ids \X (1 .. MaxRuns)

ASSUME WorkerParameters ==
    /\ IsFiniteSet(Ids) /\ Kinds \subseteq AllKinds /\ MaxRuns \in Nat
    /\ Sandboxed \in BOOLEAN
    /\ None \notin Runs \cup Flushers /\ Runs \cap Flushers = {}
    /\ Own \in Flushers /\ Faults \subseteq SUBSET AllFaults

VARIABLES
    kind,      \* the task type of an id
    faults,    \* the faults that may happen
    run,       \* the k-th delivery of an id: where it is, its context, its outcome
    dedup,     \* dedupMap: remembered ids
    cancels,   \* cancels: the run whose cancel function is stored
    running,   \* the running counter
    dirs,      \* runs whose sandbox directory is on disk
    littered,  \* history: runs whose Cleanup failed
    file,      \* report files: "none", "torn", or a whole report of a run
    lock,      \* Store.mu of this process
    flush,     \* flush loops: where each is, what it listed, what it holds
    delivered, \* history: runs whose final report the scheduler has
    spoiled,   \* history: runs that a restart or a disk error kept from ending well
    evicted    \* history: ids whose dedup entry was dropped

vars == <<kind, faults, run, dedup, cancels, running, dirs, littered, file, lock, flush,
          delivered, spoiled, evicted>>

disk == <<dirs, littered>>
store == <<file, lock, flush>>
given == <<kind, faults>>
past == <<given, delivered, spoiled, evicted>>

Outcomes == {"success", "failed", "timeout"}

NoRun == [pc |-> "none", ctx |-> "live", out |-> "none"]

Resting == [pc |-> "wait", list |-> {}, cur |-> None, held |-> None]

At(r, pc) == run[r].pc = pc

Goto(r, pc) == run' = [run EXCEPT ![r].pc = pc]

Active == {r \in Runs : run[r].pc \notin {"none", "accepted", "gone"}}

(* Runs in Execute, under each of its ways to wait.                        *)
Executing == {r \in Runs : run[r].pc \in {"exec", "body", "orphan"}}

Init == /\ kind \in [Ids -> Kinds] /\ faults \in Faults
        /\ run = [r \in Runs |-> NoRun]
        /\ dedup = {}
        /\ cancels = [i \in Ids |-> None]
        /\ running = 0
        /\ dirs = {} /\ littered = {}
        /\ file = [i \in Ids |-> None]
        /\ lock = None
        /\ flush = [f \in Flushers |-> Resting]
        /\ delivered = {} /\ spoiled = {} /\ evicted = {}

--------------------------------------------------------------------------------
(* Handler.Execute and ExecuteTask: a goroutine per request, deliveries of    *)
(* one id in order.                                                         *)

Deliver(r) ==
    /\ At(r, "none")
    /\ \A k \in 1 .. r[2] - 1 : ~At(<<r[1], k>>, "none")
    /\ Goto(r, "accepted")
    /\ UNCHANGED <<dedup, cancels, running, disk, store, past>>

(* Variant: the id is remembered when the run is over.                     *)
StartForgetful(r) ==
    /\ At(r, "accepted")
    /\ Goto(r, "started")
    /\ running' = running + 1
    /\ UNCHANGED <<dedup, cancels, disk, store, past>>

(* isDuplicate, then the counter.                                          *)
Start(r) ==
    /\ At(r, "accepted")
    /\ IF r[1] \in dedup
       THEN Goto(r, "gone") /\ UNCHANGED <<dedup, running>>
       ELSE /\ Goto(r, "started")
            /\ dedup' = dedup \cup {r[1]}
            /\ running' = running + 1
    /\ UNCHANGED <<cancels, disk, store, past>>

(* Variant: the cancel function is not stored.                             *)
RegisterNothing(r) ==
    /\ At(r, "started")
    /\ Goto(r, "prepare")
    /\ UNCHANGED <<dedup, cancels, running, disk, store, past>>

(* Ack and the running report, whatever becomes of them; then the context    *)
(* and its cancel function.                                                 *)
Register(r) ==
    /\ At(r, "started")
    /\ Goto(r, "prepare")
    /\ cancels' = [cancels EXCEPT ![r[1]] = r]
    /\ UNCHANGED <<dedup, running, disk, store, past>>

InSandbox(r) == kind[r[1]] = "shell" /\ Sandboxed

IsCommand(r) == kind[r[1]] \in {"shell", "command"}

End(r, o) == run' = [run EXCEPT ![r].pc = "final", ![r].out = o]

(* executeInSandbox makes a directory; without one the run has failed.     *)
Prepare(r) ==
    /\ At(r, "prepare")
    /\ \/ /\ Goto(r, "exec")
          /\ dirs' = IF InSandbox(r) THEN dirs \cup {r} ELSE dirs
          /\ UNCHANGED littered
       \/ /\ "mkdir" \in faults /\ InSandbox(r)
          /\ End(r, "failed")
          /\ UNCHANGED disk
    /\ UNCHANGED <<dedup, cancels, running, store, past>>

--------------------------------------------------------------------------------
(* Execute and ShellExec.                                                  *)

(* Before its outcome is known a run can be interrupted; later its context   *)
(* is of no use to anyone.                                                  *)
Interruptible(r) == r \in Executing \cup {q \in Runs : At(q, "prepare")}
                    /\ run[r].ctx = "live"

(* Variant: only commands get the context with the timeout.                *)
DeadlineOfCommand(r) ==
    /\ Interruptible(r) /\ IsCommand(r)
    /\ run' = [run EXCEPT ![r].ctx = "deadline"]
    /\ UNCHANGED <<dedup, cancels, running, disk, store, past>>

Deadline(r) ==
    /\ Interruptible(r)
    /\ run' = [run EXCEPT ![r].ctx = "deadline"]
    /\ UNCHANGED <<dedup, cancels, running, disk, store, past>>

(* Variant: the sandbox is cleaned up only after a success.                *)
EndExecDirty(r, o) ==
    /\ End(r, o)
    /\ dirs' = IF o = "success" THEN dirs \ {r} ELSE dirs
    /\ UNCHANGED littered

(* The deferred Cleanup of the sandbox; when it fails, that is only logged.    *)
EndExec(r, o) ==
    /\ End(r, o)
    /\ \/ dirs' = dirs \ {r} /\ UNCHANGED littered
       \/ /\ "cleanup" \in faults /\ r \in dirs
          /\ littered' = littered \cup {r} /\ UNCHANGED dirs

(* CombinedOutput returns when nobody holds the output any more.           *)
Exit(r, o) ==
    \/ EndExec(r, o)
    \/ /\ "children" \in faults
       /\ run' = [run EXCEPT ![r].pc = "orphan", ![r].out = o]
       /\ UNCHANGED disk

(* A command ends by itself; or it is not started, or found to have ended     *)
(* well, after the context was done, which is the context's error.           *)
CommandExits(r) ==
    /\ At(r, "exec") /\ IsCommand(r)
    /\ \/ run[r].ctx = "live" /\ \E o \in {"success", "failed"} : Exit(r, o)
       \/ run[r].ctx = "deadline" /\ Exit(r, "timeout")
    /\ UNCHANGED <<dedup, cancels, running, store, past>>

(* CommandContext kills the command: an exit by a signal, failed and not      *)
(* timeout.                                                                 *)
CommandKilled(r) ==
    /\ At(r, "exec") /\ IsCommand(r) /\ run[r].ctx # "live"
    /\ Exit(r, "failed")
    /\ UNCHANGED <<dedup, cancels, running, store, past>>

ChildrenExit(r) ==
    /\ At(r, "orphan")
    /\ EndExec(r, run[r].out)
    /\ UNCHANGED <<dedup, cancels, running, store, past>>

(* An HTTP task up to its response header: an error of the context is kept,    *)
(* unless another one came first.                                           *)
HttpFails(r) ==
    /\ At(r, "exec") /\ kind[r[1]] = "http"
    /\ \/ EndExec(r, "failed")
       \/ run[r].ctx = "deadline" /\ EndExec(r, "timeout")
    /\ UNCHANGED <<dedup, cancels, running, store, past>>

HttpAnswers(r) ==
    /\ At(r, "exec") /\ kind[r[1]] = "http" /\ run[r].ctx = "live"
    /\ Goto(r, "body")
    /\ UNCHANGED <<dedup, cancels, running, disk, store, past>>

(* The response's status decides; the body is read before, until its end or   *)
(* an interruption that nobody looks at.                                    *)
HttpBody(r) ==
    /\ At(r, "body")
    /\ \E o \in {"success", "failed"} : EndExec(r, o)
    /\ UNCHANGED <<dedup, cancels, running, store, past>>

Execute(r) == \/ CommandExits(r) \/ CommandKilled(r)
              \/ HttpFails(r) \/ HttpAnswers(r) \/ HttpBody(r)

(* Cancel reaches the run whose function is stored under the id, if any.   *)
Cancel(i) ==
    /\ "cancel" \in faults
    /\ cancels[i] # None
    /\ Interruptible(cancels[i])
    /\ run' = [run EXCEPT ![cancels[i]].ctx = "cancelled"]
    /\ UNCHANGED <<dedup, cancels, running, disk, store, past>>

--------------------------------------------------------------------------------
(* The final report and the local store.                                   *)

(* The scheduler may have handled a report whose answer was lost.          *)
Lost == "loss" \in faults

ReportFinal(r) ==
    /\ At(r, "final")
    /\ \/ Goto(r, "remove") /\ delivered' = delivered \cup {r}
       \/ Lost /\ Goto(r, "buffer") /\ UNCHANGED delivered
       \/ Lost /\ Goto(r, "buffer") /\ delivered' = delivered \cup {r}
    /\ UNCHANGED <<dedup, cancels, running, disk, store, given, spoiled, evicted>>

Report(r) == [kind |-> "whole", of |-> r]

Torn == [kind |-> "torn", of |-> None]

ASSUME NoneIsNoFile == Torn # None /\ \A r \in Runs : Report(r) # None

(* Buffer: os.WriteFile truncates, then writes, under the mutex.           *)
BufferOpen(r) ==
    /\ At(r, "buffer") /\ lock = None
    /\ \/ /\ lock' = r
          /\ file' = [file EXCEPT ![r[1]] = Torn]
          /\ Goto(r, "write")
          /\ UNCHANGED spoiled
       \/ /\ "disk" \in faults
          /\ Goto(r, "leave")
          /\ spoiled' = spoiled \cup {r}
          /\ UNCHANGED <<file, lock>>
    /\ UNCHANGED <<given, dedup, cancels, running, disk, flush, delivered, evicted>>

(* A file that was removed meanwhile is written to without a name.         *)
BufferWrite(r) ==
    /\ At(r, "write")
    /\ \/ /\ file' = [file EXCEPT ![r[1]] = IF @ = None THEN None ELSE Report(r)]
          /\ UNCHANGED spoiled
       \/ /\ "disk" \in faults
          /\ spoiled' = spoiled \cup {r}
          /\ UNCHANGED file
    /\ lock' = None
    /\ Goto(r, "leave")
    /\ UNCHANGED <<given, dedup, cancels, running, disk, flush, delivered, evicted>>

Remove(r) ==
    /\ At(r, "remove") /\ lock = None
    /\ file' = [file EXCEPT ![r[1]] = None]
    /\ Goto(r, "leave")
    /\ UNCHANGED <<dedup, cancels, running, disk, lock, flush, past>>

(* The deferred calls of run; whoever's function is stored is deleted.     *)
Leave(r) ==
    /\ At(r, "leave")
    /\ Goto(r, "gone")
    /\ cancels' = [cancels EXCEPT ![r[1]] = None]
    /\ running' = running - 1
    /\ UNCHANGED <<dedup, disk, store, past>>

Step(r) == \/ Start(r) \/ Register(r) \/ Prepare(r) \/ Execute(r) \/ ReportFinal(r)
           \/ BufferOpen(r) \/ BufferWrite(r) \/ Remove(r) \/ Leave(r)

--------------------------------------------------------------------------------
(* Flush: only the listing takes the mutex, and only that of its process.  *)

FlushAt(f, pc) == flush[f].pc = pc

FlushList(f) ==
    /\ FlushAt(f, "wait")
    /\ f = Own => lock = None
    /\ flush' = [flush EXCEPT ![f] = [Resting EXCEPT !.pc = "next",
                                       !.list = {i \in Ids : file[i] # None}]]
    /\ UNCHANGED <<run, dedup, cancels, running, disk, file, lock, past>>

(* Variant: a timer in place of the ticker.                                *)
FlushDoneForever(f) ==
    /\ FlushAt(f, "next") /\ flush[f].list = {}
    /\ UNCHANGED vars

FlushDone(f) ==
    /\ FlushAt(f, "next") /\ flush[f].list = {}
    /\ flush' = [flush EXCEPT ![f] = Resting]
    /\ UNCHANGED <<run, dedup, cancels, running, disk, file, lock, past>>

(* An unreadable report is deleted; one that is gone is passed over.       *)
FlushRead(f) ==
    /\ FlushAt(f, "next")
    /\ \E i \in flush[f].list :
          \/ /\ file[i] = None
             /\ flush' = [flush EXCEPT ![f].list = @ \ {i}]
             /\ UNCHANGED file
          \/ /\ file[i] = Torn
             /\ flush' = [flush EXCEPT ![f].list = @ \ {i}]
             /\ file' = [file EXCEPT ![i] = None]
          \/ /\ file[i] \notin {None, Torn}
             /\ flush' = [flush EXCEPT ![f].pc = "send", ![f].list = @ \ {i},
                                       ![f].cur = i, ![f].held = file[i].of]
             /\ UNCHANGED file
    /\ UNCHANGED <<run, dedup, cancels, running, disk, lock, past>>

(* Variant: the file goes also when the report did not get through.        *)
FlushSendDrops(f) ==
    /\ FlushAt(f, "send")
    /\ flush' = [flush EXCEPT ![f].pc = "remove"]
    /\ delivered' \in {delivered, delivered \cup {flush[f].held}}
    /\ UNCHANGED <<run, dedup, cancels, running, disk, file, lock, given, spoiled, evicted>>

FlushSend(f) ==
    /\ FlushAt(f, "send")
    /\ \/ /\ flush' = [flush EXCEPT ![f].pc = "remove"]
          /\ delivered' = delivered \cup {flush[f].held}
       \/ /\ Lost
          /\ flush' = [flush EXCEPT ![f].pc = "next"]
          /\ delivered' \in {delivered, delivered \cup {flush[f].held}}
    /\ UNCHANGED <<run, dedup, cancels, running, disk, file, lock, given, spoiled, evicted>>

(* The file is removed by its name, whatever is in it by now.              *)
FlushRemove(f) ==
    /\ FlushAt(f, "remove")
    /\ file' = [file EXCEPT ![flush[f].cur] = None]
    /\ flush' = [flush EXCEPT ![f].pc = "next", ![f].cur = None, ![f].held = None]
    /\ UNCHANGED <<run, dedup, cancels, running, disk, lock, past>>

Flush(f) == \/ FlushList(f) \/ FlushDone(f) \/ FlushRead(f)
            \/ FlushSend(f) \/ FlushRemove(f)

--------------------------------------------------------------------------------
(* StartDedupEviction: the entry ages from the start of the run, not from     *)
(* its end.                                                                 *)
EvictDedup(i) ==
    /\ "evict" \in faults
    /\ i \in dedup
    /\ dedup' = dedup \ {i}
    /\ evicted' = evicted \cup {i}
    /\ UNCHANGED <<run, cancels, running, disk, store, given, delivered, spoiled>>

(* A restart keeps what is on disk: report files and sandbox directories.  *)
Restart ==
    /\ "crash" \in faults
    /\ Active # {} \/ \E r \in Runs : At(r, "accepted")
    /\ run' = [r \in Runs |-> IF run[r].pc \in {"none", "gone"} THEN run[r]
                              ELSE [run[r] EXCEPT !.pc = "gone"]]
    /\ spoiled' = spoiled \cup {r \in Active : ~At(r, "leave")}
    /\ dedup' = {} /\ running' = 0
    /\ cancels' = [i \in Ids |-> None]
    /\ lock' = None
    /\ flush' = [flush EXCEPT ![Own] = Resting]
    /\ UNCHANGED <<given, disk, file, delivered, evicted>>

Next == \/ \E r \in Runs : Deliver(r) \/ Step(r) \/ ChildrenExit(r) \/ Deadline(r)
        \/ \E i \in Ids : Cancel(i) \/ EvictDedup(i)
        \/ \E f \in Flushers : Flush(f)
        \/ Restart

Spec == Init /\ [][Next]_vars

--------------------------------------------------------------------------------
(* Safety.                                                                 *)

PCs == {"none", "accepted", "started", "prepare", "exec", "body", "orphan", "final",
        "buffer", "write", "remove", "leave", "gone"}

(* Runs of an id that were not turned away as duplicates.                  *)
Taken(i) == {r \in Runs : r[1] = i /\ (r \in Active \/ run[r].out # "none")}

(* isDuplicate: one process executes an id twice at a time only if the TTL   *)
(* of the first run's entry passed while it ran.                            *)
OnceAtATime ==
    \A q, r \in Active : q[1] = r[1] /\ q # r => q[1] \in evicted

(* run and its deferred calls: the counter is the number of runs under way,  *)
(* and neither a cancel function nor a sandbox directory outlives its run,   *)
(* but for directories at a restart and those that could not be removed.     *)
NothingLeft ==
    /\ running = Cardinality(Active)
    /\ \A i \in Ids : cancels[i] # None => cancels[i] \in Active
    /\ dirs \subseteq Executing \cup spoiled \cup littered

(* run and Cancel: a run that executes can be cancelled through its id; only  *)
(* a second run of the id, begun after an eviction, takes that away.         *)
CancelReaches ==
    \A r \in Executing : r[1] \notin evicted => cancels[r[1]] = r

(* Buffer, Flush and Remove: the outcome of an id that was taken once is with  *)
(* the scheduler, in the run's hands or whole in its file, however the flush   *)
(* loop reads and removes beside it; only a restart or a full disk loses it.   *)
ReportKept ==
    \A r \in Runs :
       /\ run[r].out # "none" /\ Taken(r[1]) = {r} /\ r \notin spoiled
       => \/ r \in delivered
          \/ run[r].pc \in {"orphan", "final", "buffer", "write"}
          \/ file[r[1]] = Report(r)

--------------------------------------------------------------------------------
(* Liveness. A goroutine that can go on goes on and a context meets its       *)
(* deadline; tickers keep ticking; of the reports sent again and again one    *)
(* gets through. Nothing makes a command's children exit.                   *)

Interrupted(r) == run[r].ctx # "live" /\ Execute(r)

Going(r) == \/ Start(r) \/ Register(r) \/ Prepare(r) \/ ReportFinal(r)
            \/ BufferOpen(r) \/ BufferWrite(r) \/ Remove(r) \/ Leave(r)

Arrives(f) == FlushSend(f) /\ flush'[f].pc = "remove"

Fairness ==
    /\ \A r \in Runs : WF_vars(Going(r)) /\ WF_vars(Deadline(r)) /\ WF_vars(Interrupted(r))
    /\ \A f \in Flushers : WF_vars(Flush(f)) /\ SF_vars(Arrives(f))

FairSpec == Spec /\ Fairness

(* run and StartFlushLoop: every delivery is turned away, ends, or hangs on   *)
(* the output that a command's children keep open; and the outcome of an id    *)
(* that was taken once reaches the scheduler unless a restart or a full disk   *)
(* took it.                                                                 *)
ReportDelivered ==
    \A r \in Runs :
       /\ At(r, "accepted") ~> run[r].pc \in {"gone", "orphan"}
       /\ At(r, "final") ~> r \in delivered \cup spoiled \/ Taken(r[1]) # {r}

================================================================================
