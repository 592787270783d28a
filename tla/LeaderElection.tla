---------------------------- MODULE LeaderElection ----------------------------
(***************************************************************************)
(* Who may run the leader-only loops of the scheduler: a process that has    *)
(* returned from Elector.Acquire, until its context is cancelled. The lock   *)
(* is a MySQL GET_LOCK, held by one pooled connection, or an etcd election,  *)
(* held by a session with a lease; without either every process leads.      *)
(***************************************************************************)
EXTENDS Naturals, FiniteSets

CONSTANTS
    Schedulers,
    Nobody,
    Backend,    \* "local", "mysql" or "etcd"
    LeaderFaults      \* a subset of AllFaults

AllLeaderFaults ==
    {"crash",          \* a scheduler dies without releasing anything
     "backend_error",  \* Acquire meets an error of the backend
     "cancel",         \* the context given to Acquire ends
     "session_loss"}   \* the connection or the lease of a live leader ends

LeaderParameters ==
    /\ Nobody \notin Schedulers
    /\ Backend \in {"local", "mysql", "etcd"}
    /\ LeaderFaults \subseteq AllLeaderFaults

VARIABLES
    st,       \* what each scheduler process is doing
    holder,   \* the process whose connection or session has the lock
    strayed   \* history: processes that lead, or led last, without a lock of theirs

electionVars == <<st, holder, strayed>>

States == {"down", "acquiring", "leader", "releasing"}

ElectionInit == /\ st = [s \in Schedulers |-> "down"]
        /\ holder = Nobody
        /\ strayed = {}

Start(s) ==
    /\ st[s] = "down"
    /\ st' = [st EXCEPT ![s] = "acquiring"]
    /\ UNCHANGED <<holder, strayed>>

(* Variant: the result of GET_LOCK is not looked at.                        *)
AcquireAnyway(s) ==
    /\ st[s] = "acquiring"
    /\ st' = [st EXCEPT ![s] = "leader"]
    /\ holder' = s
    /\ UNCHANGED strayed

(* GET_LOCK with timeout zero, polled every two seconds, or Campaign; the    *)
(* local elector asks nobody.                                              *)
Acquire(s) ==
    /\ st[s] = "acquiring"
    /\ Backend = "local" \/ holder = Nobody
    /\ st' = [st EXCEPT ![s] = "leader"]
    /\ holder' = IF Backend = "local" THEN holder ELSE s
    /\ strayed' = IF Backend = "local" THEN strayed \cup {s} ELSE strayed

(* An error ends the process with MySQL; with etcd it makes it lead alone.  *)
AcquireError(s) ==
    /\ "backend_error" \in LeaderFaults
    /\ st[s] = "acquiring" /\ Backend # "local"
    /\ st' = [st EXCEPT ![s] = IF Backend = "etcd" THEN "leader" ELSE "down"]
    /\ strayed' = IF Backend = "etcd" THEN strayed \cup {s} ELSE strayed
    /\ UNCHANGED holder

(* The context is cancelled: the loops end, the lock is given back later. A  *)
(* process that still waits gives up, with etcd by returning to loops that    *)
(* end at once. The scheduler's main never cancels the context and leaves     *)
(* the lock to Expire.                                                     *)
Cancel(s) ==
    /\ "cancel" \in LeaderFaults
    /\ \/ st[s] = "leader" /\ st' = [st EXCEPT ![s] = "releasing"]
       \/ st[s] = "acquiring" /\ st' = [st EXCEPT ![s] = "down"]
    /\ UNCHANGED <<holder, strayed>>

(* RELEASE_LOCK, or Resign and the end of the session; a stray leader has    *)
(* nothing to give back.                                                   *)
ReleaseLock(s) ==
    /\ st[s] = "releasing"
    /\ st' = [st EXCEPT ![s] = "down"]
    /\ holder' = IF holder = s /\ s \notin strayed THEN Nobody ELSE holder
    /\ strayed' = strayed \ {s}

Crash(s) ==
    /\ "crash" \in LeaderFaults
    /\ st[s] # "down"
    /\ st' = [st EXCEPT ![s] = "down"]
    /\ strayed' = strayed \ {s}
    /\ UNCHANGED holder

(* Variant: the session ends only when its process is started again.        *)
ExpireRestarted(s) ==
    /\ holder = s /\ st[s] = "acquiring"
    /\ holder' = Nobody
    /\ UNCHANGED <<st, strayed>>

(* The server notices that the process that had the lock is gone, whatever   *)
(* a process started in its place does by now.                              *)
Expire(s) ==
    /\ holder = s /\ (st[s] \in {"down", "acquiring"} \/ s \in strayed)
    /\ holder' = Nobody
    /\ UNCHANGED <<st, strayed>>

(* A connection is dropped or a lease runs out; nothing in the process       *)
(* watches for it.                                                         *)
LoseSession(s) ==
    /\ "session_loss" \in LeaderFaults
    /\ holder = s /\ st[s] \in {"leader", "releasing"} /\ s \notin strayed
    /\ holder' = Nobody
    /\ strayed' = strayed \cup {s}
    /\ UNCHANGED st

ElectionNext == \E s \in Schedulers :
            \/ Start(s) \/ Acquire(s) \/ AcquireError(s)
            \/ Cancel(s) \/ ReleaseLock(s) \/ Crash(s) \/ Expire(s) \/ LoseSession(s)

ElectionSpec == ElectionInit /\ [][ElectionNext]_electionVars

(* Acquire polls or waits in the backend, a cancelled process releases, and  *)
(* the backend drops the session of a dead one. Nobody has to start.        *)
ElectionFairness == /\ WF_electionVars(\E s \in Schedulers : Acquire(s))
            /\ \A s \in Schedulers : WF_electionVars(ReleaseLock(s)) /\ WF_electionVars(Expire(s))

--------------------------------------------------------------------------------
(* Every variable keeps its type.                                          *)
ElectionTypeOK == /\ st \in [Schedulers -> States]
          /\ holder \in Schedulers \cup {Nobody}
          /\ strayed \subseteq Schedulers

Leaders == {s \in Schedulers : st[s] = "leader"}

(* A leader, and one that is about to release, has the lock, unless it lost  *)
(* its session unnoticed or never asked for one: what makes OneElected       *)
(* inductive.                                                              *)
LeaderHolds ==
    \A s \in Schedulers \ strayed : st[s] \in {"leader", "releasing"} => holder = s

(* "Elector grants one scheduler process permission to run leader-only       *)
(* loops": of two leaders one has lost its session unnoticed, or never       *)
(* asked for one; crashes, restarts and releases never make a second.       *)
OneElected == \A s, u \in Leaders \ strayed : s = u

(* The backends that can keep the promise: a lock, whose loss or whose        *)
(* absence no process ignores.                                             *)
LockReliable ==
    /\ Backend # "local" /\ "session_loss" \notin LeaderFaults
    /\ Backend = "etcd" => "backend_error" \notin LeaderFaults

(* The promise itself.                                                     *)
AtMostOneLeader == \A s, u \in Leaders : s = u

(* Acquire: again and again there is a leader or nobody waits to be one. So a  *)
(* process waiting in Acquire, whatever crashed or released before it, is      *)
(* followed by a leader unless it stops waiting.                            *)
SomeoneLeads ==
    []<>((\E s \in Schedulers : st[s] = "acquiring")
         => \E s \in Schedulers : st[s] = "leader")
================================================================================
