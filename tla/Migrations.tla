------------------------------- MODULE Migrations ------------------------------
(***************************************************************************)
(* RunMigrations, called by every service when it starts, against the files   *)
(* of migrations/: several processes at once, with crashes between any two     *)
(* statements. A statement that changes the schema commits by itself in MySQL,  *)
(* so the transaction around a file holds nothing together.                   *)
(***************************************************************************)
EXTENDS Naturals, Sequences

CONSTANTS
    Processes,
    MaxStarts,  \* bound on starts of one process
    Crashes,    \* whether processes crash or lose their connection
    Unread      \* whether the SELECT on the tracking table can fail

VARIABLES
    schema,    \* the tables and columns there are
    recorded,  \* schema_migrations
    mig          \* the processes: where each is, what it loaded, file and statement

migrationVars == <<schema, recorded, mig>>

(* The statements of the files. A column is added by a statement prepared      *)
(* before, from a look at the columns there are.                             *)
Create(t) == [do |-> "create", on |-> t]

Destroy(t) == [do |-> "drop", on |-> t]

Look(c) == [do |-> "look", on |-> c]

Add(c) == [do |-> "add", on |-> c]

(* The kinds of files there are: tables, a column, the dependencies with the    *)
(* "Down" part that RunMigrations executes like the rest, tables again.       *)
Files == <<
    <<Create("task"), Create("task_instance")>>,
    <<Look("next_retry_time"), Add("next_retry_time")>>,
    <<Create("task_dependency"), Destroy("task_dependency")>>,
    <<Create("ai_conversation"), Create("ai_message")>> >>

Idle == [pc |-> "idle", starts |-> 0, applied |-> {}, file |-> 1, stmt |-> 1,
         missing |-> FALSE, seen |-> {}]

MigrationInit == /\ schema = {}
        /\ recorded = {}
        /\ mig = [q \in Processes |-> Idle]

At(q, pc) == mig[q].pc = pc

Started(q, read) == [Idle EXCEPT !.pc = "run", !.starts = mig[q].starts + 1,
                                 !.applied = read, !.seen = recorded]

(* The tracking table is read once. An error of the SELECT, or of reading on in  *)
(* its rows, is ignored: the files that were not read count as not applied.     *)
Load(q) ==
    /\ At(q, "idle") /\ mig[q].starts < MaxStarts
    /\ \E read \in IF Unread THEN SUBSET recorded ELSE {recorded} :
          mig' = [mig EXCEPT ![q] = Started(q, read)]
    /\ UNCHANGED <<schema, recorded>>

Skip(q) ==
    /\ At(q, "run") /\ mig[q].file \in mig[q].applied
    /\ mig' = [mig EXCEPT ![q].file = @ + 1]
    /\ UNCHANGED <<schema, recorded>>

Current(q) == Files[mig[q].file]

(* Variant: a file that was applied is not passed over.                    *)
WorkingAgain(q) == At(q, "run") /\ mig[q].file \in DOMAIN Files

Working(q) == /\ At(q, "run")
              /\ mig[q].file \in DOMAIN Files \ mig[q].applied

Fails(q) == mig' = [mig EXCEPT ![q].pc = "failed"]

Execute(q) ==
    LET s == Current(q)[mig[q].stmt]
        next == [mig EXCEPT ![q].stmt = @ + 1]
    IN  /\ Working(q) /\ mig[q].stmt <= Len(Current(q))
        /\ \/ /\ s.do = "create"
              /\ schema' = schema \cup {s.on} /\ mig' = next
           \/ /\ s.do = "drop"
              /\ schema' = schema \ {s.on} /\ mig' = next
           \/ /\ s.do = "look"
              /\ mig' = [next EXCEPT ![q].missing = s.on \notin schema]
              /\ UNCHANGED schema
           \/ /\ s.do = "add" /\ ~mig[q].missing
              /\ mig' = next /\ UNCHANGED schema
           \/ /\ s.do = "add" /\ mig[q].missing /\ s.on \notin schema
              /\ schema' = schema \cup {s.on} /\ mig' = next
           \/ /\ s.do = "add" /\ mig[q].missing /\ s.on \in schema
              /\ Fails(q) /\ UNCHANGED schema
        /\ UNCHANGED recorded

(* Variant: the last statement is skipped.                                 *)
RecordEarly(q) ==
    /\ Working(q) /\ mig[q].stmt >= Len(Current(q))
    /\ IF mig[q].file \in recorded
       THEN Fails(q) /\ UNCHANGED recorded
       ELSE /\ recorded' = recorded \cup {mig[q].file}
            /\ mig' = [mig EXCEPT ![q].file = @ + 1, ![q].stmt = 1]
    /\ UNCHANGED schema

(* The file is recorded, unless another process has done so: the file name is  *)
(* the primary key.                                                        *)
Record(q) ==
    /\ Working(q) /\ mig[q].stmt > Len(Current(q))
    /\ IF mig[q].file \in recorded
       THEN Fails(q) /\ UNCHANGED recorded
       ELSE /\ recorded' = recorded \cup {mig[q].file}
            /\ mig' = [mig EXCEPT ![q].file = @ + 1, ![q].stmt = 1]
    /\ UNCHANGED schema

Finish(q) ==
    /\ At(q, "run") /\ mig[q].file > Len(Files)
    /\ mig' = [mig EXCEPT ![q].pc = "ready"]
    /\ UNCHANGED <<schema, recorded>>

(* A process that failed is started again; so is one that crashed, or whose      *)
(* statement was lost with the connection.                                   *)
Exit(q) ==
    /\ At(q, "failed") \/ (Crashes /\ At(q, "run"))
    /\ mig' = [mig EXCEPT ![q] = [Idle EXCEPT !.starts = mig[q].starts]]
    /\ UNCHANGED <<schema, recorded>>

MigrationNext == \E q \in Processes : \/ Load(q) \/ Skip(q) \/ Execute(q) \/ Record(q)
                             \/ Finish(q) \/ Exit(q)

MigrationSpec == MigrationInit /\ [][MigrationNext]_migrationVars

--------------------------------------------------------------------------------
(* What a single process that is never disturbed leaves.                   *)
Created(f) == {Files[f][k].on : k \in {k \in DOMAIN Files[f] : Files[f][k].do # "drop"}}

Dropped(f) == {Files[f][k].on : k \in {k \in DOMAIN Files[f] : Files[f][k].do = "drop"}}

Alone == UNION {Created(f) \ Dropped(f) : f \in DOMAIN Files}

(* RunMigrations: a service that got through it finds the schema that one       *)
(* undisturbed run would have left, whatever rivals and crashes there were.   *)
SchemaComplete == \A q \in Processes : At(q, "ready") => Alone \subseteq schema

(* RunMigrations: an attempt that has read the whole tracking table is refused a  *)
(* statement only because a rival has got further since then, or added the column  *)
(* it wanted to add. (One that has not read it all is refused the first file it    *)
(* missed.) Starting the services again and again gets through, then.          *)
FailsBehindRival ==
    \A q \in Processes : At(q, "failed") /\ mig[q].applied = mig[q].seen
       => \/ recorded \ mig[q].seen # {}
          \/ /\ mig[q].stmt \in DOMAIN Current(q)
             /\ Current(q)[mig[q].stmt].on \in schema

(* "RunMigrations applies all .sql files": the tables that the repositories     *)
(* query are there once a service is up.                                    *)
TablesThere == \A q \in Processes : At(q, "ready")
                  => UNION {Created(f) : f \in DOMAIN Files} \subseteq schema

================================================================================
