------------------------------ MODULE Migrator ------------------------------
(***************************************************************************)
(* The migration runner.  Every start of the API server, and the migrate   *)
(* command, work through the pending versions with one transaction each;   *)
(* nothing keeps two runners apart but the locks of the database.  The     *)
(* scripts create or drop one table each, with its indexes.                *)
(***************************************************************************)
EXTENDS Faults, FiniteSets

CONSTANTS
    MaxVersion,   \* migrations are numbered from 1
    References,   \* version -> the versions whose tables its table refers to
    Runners,      \* processes that migrate
    Steps         \* the step counts given to "migrate down"

Versions == 1 .. MaxVersion

ASSUME MigratorAssumption ==
    /\ MaxVersion \in Nat
    /\ References \in [Versions -> SUBSET Versions]
    /\ \A v \in Versions : References[v] \subseteq 1 .. v
    /\ Steps \subseteq Int

VARIABLES
    schema,       \* the versions whose tables exist
    recorded,     \* schema_migrations
    run,          \* the runners
    crossed       \* history: an Up and a Down committed across each other

vars == <<schema, recorded, run, crossed, faults>>

(* A runner and its local variables: the direction, what it still has to   *)
(* do, the version it is at.  "ready" is an API that serves or a command   *)
(* that ended well.  Two histories since it read the applied versions:     *)
(* disturbed, that another runner committed or locked it out or that a     *)
(* call failed; undercut, that a Down of another runner committed.         *)
Runner == [pc : {"off", "ensure", "read", "next", "exec", "record", "commit",
                 "ready", "failed"},
           dir : {"up", "down"}, steps : Steps \cup {0}, todo : SUBSET Versions,
           version : Versions \cup {0}, disturbed : BOOLEAN, undercut : BOOLEAN]
Off == [pc |-> "off", dir |-> "up", steps |-> 0, todo |-> {}, version |-> 0,
        disturbed |-> FALSE, undercut |-> FALSE]

At(r, pc) == run[r].pc = pc
GoTo(r, pc) == run' = [run EXCEPT ![r].pc = pc]
(* The open transaction is rolled back, and the runner gives up. *)
Fails(r) == run' = [run EXCEPT ![r].pc = "failed", ![r].todo = {}, ![r].version = 0]
FailsByFault(r, kind) ==
    /\ run' = [run EXCEPT ![r].pc = "failed", ![r].todo = {}, ![r].version = 0,
                          ![r].disturbed = TRUE]
    /\ Fault(kind)

(* An API server migrates when it starts; "migrate up" does nothing else.  *)
BeginUp(r) ==
    /\ run[r].pc \in {"off", "ready", "failed"}
    /\ run' = [run EXCEPT ![r] = [Off EXCEPT !.pc = "ensure"]]
    /\ UNCHANGED <<schema, recorded, crossed, faults>>

(* "migrate down" with a step count. *)
BeginDown(r, n) ==
    /\ run[r].pc \in {"off", "ready", "failed"}
    /\ run' = [run EXCEPT ![r] = [Off EXCEPT !.pc = "ensure", !.dir = "down", !.steps = n]]
    /\ UNCHANGED <<schema, recorded, crossed, faults>>

(* CREATE TABLE IF NOT EXISTS for the bookkeeping table. *)
Ensure(r) ==
    /\ At(r, "ensure")
    /\ \/ GoTo(r, "read") /\ NoFault
       \/ FailsByFault(r, "dbwrite")
    /\ UNCHANGED <<schema, recorded, crossed>>

Pending_ButLast ==                    \* a variant: the loop ends one too early
    Versions \ (recorded \cup {MaxVersion})

(* The versions an Up still has to apply. *)
Pending == Versions \ recorded

Last_Version(n) ==                    \* a variant: n taken for a version
    IF n <= 0 THEN recorded ELSE recorded \cap {n}

(* The n highest versions applied; all of them if n is not positive. *)
Last(n) ==
    IF n <= 0 THEN recorded
    ELSE {v \in recorded : Cardinality({w \in recorded : w > v}) < n}

ReadApplied(r) ==
    /\ At(r, "read")
    /\ \/ /\ run' = [run EXCEPT ![r].pc = "next",
                        ![r].todo = IF run[r].dir = "up" THEN Pending ELSE Last(run[r].steps)]
          /\ NoFault
       \/ FailsByFault(r, "dbread")
    /\ UNCHANGED <<schema, recorded, crossed>>

Foremost_MapOrder(r, v) == v \in run[r].todo      \* a variant: not sorted

(* Ascending versions for an Up, descending ones for a Down. *)
Foremost(r, v) ==
    /\ v \in run[r].todo
    /\ \A w \in run[r].todo : IF run[r].dir = "up" THEN v <= w ELSE v >= w

NextVersion(r) ==
    /\ At(r, "next")
    /\ \/ \E v \in Versions :
             /\ Foremost(r, v)
             /\ run' = [run EXCEPT ![r].pc = "exec", ![r].version = v, ![r].todo = @ \ {v}]
       \/ run[r].todo = {} /\ GoTo(r, "ready")
    /\ UNCHANGED <<schema, recorded, crossed, faults>>

(***************************************************************************)
(* One transaction: the statements of the script, the record, the commit   *)
(***************************************************************************)

(* The tables a script of this version locks, and whether another open     *)
(* transaction holds one of them.                                          *)
Locks(v) == {v} \cup References[v]
InTx(r) == run[r].pc \in {"record", "commit"}
Blocked(r) == \E d \in Runners \ {r} :
    InTx(d) /\ Locks(run[d].version) \cap Locks(run[r].version) # {}

(* CREATE TABLE wants the name free and the tables it refers to; DROP      *)
(* TABLE IF EXISTS wants no other table to refer to this one.              *)
Works(r) ==
    LET v == run[r].version IN
    IF run[r].dir = "up"
    THEN v \notin schema /\ References[v] \ {v} \subseteq schema
    ELSE \A w \in schema \ {v} : v \notin References[w]

SchemaAfter(r) == IF run[r].dir = "up" THEN schema \cup {run[r].version}
                                       ELSE schema \ {run[r].version}
RecordAfter(r) == IF run[r].dir = "up" THEN recorded \cup {run[r].version}
                                       ELSE recorded \ {run[r].version}

Uncommitted_Visible(r) == schema' = SchemaAfter(r)     \* a variant: no transaction

(* Nobody sees what a transaction has done before it commits. *)
Uncommitted(r) == UNCHANGED schema

(* A blocked script waits, or is the victim when the database finds that   *)
(* the runners wait for each other.                                        *)
Exec(r) ==
    /\ At(r, "exec")
    /\ \/ ~ Blocked(r) /\ Works(r) /\ GoTo(r, "record") /\ Uncommitted(r) /\ NoFault
       \/ ~ Blocked(r) /\ ~ Works(r) /\ Fails(r) /\ UNCHANGED schema /\ NoFault
       \/ /\ Blocked(r)
          /\ run' = [run EXCEPT ![r].pc = "failed", ![r].todo = {}, ![r].version = 0,
                                ![r].disturbed = TRUE]
          /\ UNCHANGED schema
          /\ NoFault
       \/ FailsByFault(r, "dbwrite") /\ UNCHANGED schema
    /\ UNCHANGED <<recorded, crossed>>

(* INSERT or DELETE of the version.  Its primary key has nothing to refuse: *)
(* where the version is recorded, the script has failed on the table.      *)
Record(r) ==
    /\ At(r, "record")
    /\ \/ GoTo(r, "commit") /\ NoFault
       \/ FailsByFault(r, "dbwrite")
    /\ UNCHANGED <<schema, recorded, crossed>>

(* What the others remember of the commit of r. *)
Working(d) == run[d].pc \in {"next", "exec", "record", "commit"}
Seen(r, rec) ==
    [d \in Runners |-> IF d = r THEN rec
        ELSE [run[d] EXCEPT
                 !.disturbed = @ \/ Working(d),
                 !.undercut = @ \/ (run[r].dir = "down" /\ (Working(d) \/ At(d, "ready")))]]
Crosses(r) == \E d \in Runners \ {r} : Working(d) /\ run[d].dir # run[r].dir

(* The commit may have happened although it reports an error. *)
Commit(r) ==
    /\ At(r, "commit")
    /\ \/ /\ schema' = SchemaAfter(r)
          /\ recorded' = RecordAfter(r)
          /\ crossed' = (crossed \/ Crosses(r))
          /\ \/ /\ run' = Seen(r, [run[r] EXCEPT !.pc = "next", !.version = 0])
                /\ NoFault
             \/ /\ run' = Seen(r, [run[r] EXCEPT !.pc = "failed", !.todo = {},
                                                 !.version = 0, !.disturbed = TRUE])
                /\ Fault("dbwrite")
       \/ FailsByFault(r, "dbwrite") /\ UNCHANGED <<schema, recorded, crossed>>

(* The process dies; the database rolls its open transaction back. *)
Crash(r) ==
    /\ run[r].pc \notin {"off", "ready", "failed"}
    /\ FailsByFault(r, "crash")
    /\ UNCHANGED <<schema, recorded, crossed>>

Init ==
    /\ FaultsInit
    /\ schema = {}
    /\ recorded = {}
    /\ run = [r \in Runners |-> Off]
    /\ crossed = FALSE

Step(r) ==
    \/ Ensure(r) \/ ReadApplied(r) \/ NextVersion(r)
    \/ Exec(r) \/ Record(r) \/ Commit(r)

Next ==
    \E r \in Runners :
        \/ BeginUp(r) \/ (\E n \in Steps : BeginDown(r, n))
        \/ Step(r) \/ Crash(r)

Spec == Init /\ [][Next]_vars

(***************************************************************************)
(* Properties                                                              *)
(***************************************************************************)

(* Every variable has its type. *)
MigratorTypeOK ==
    /\ FaultsTypeOK
    /\ schema \in SUBSET Versions
    /\ recorded \in SUBSET Versions
    /\ run \in [Runners -> Runner]
    /\ crossed \in BOOLEAN

(* A version is recorded exactly if its table exists, whichever statement   *)
(* fails, wherever a runner dies and however many migrate at once.          *)
RecordMatchesSchema == recorded = schema

(* An Up that ended well leaves every version applied, unless a Down        *)
(* committed since it read what was applied.                                *)
UpMeansComplete ==
    \A r \in Runners :
        (At(r, "ready") /\ run[r].dir = "up" /\ ~ run[r].undercut) => recorded = Versions

(* The versions applied have no gap, as long as no Up and Down committed    *)
(* across each other.                                                       *)
NoGapUnlessCrossed ==
    ~ crossed => \A v \in recorded : 1 .. v \subseteq recorded

(* A runner that nobody disturbs and whose calls work never fails: Up may   *)
(* be called on every startup, after any history of Ups and Downs.          *)
FailsOnlyDisturbed ==
    \A r \in Runners : At(r, "failed") => run[r].disturbed
=============================================================================
