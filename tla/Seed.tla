-------------------------------- MODULE Seed --------------------------------
(***************************************************************************)
(* The seed command: the demo rows one after the other, categories, users  *)
(* and products, each looked up by its natural key and inserted if nothing *)
(* is found.  It may be run again, next to another one, and while the shop *)
(* is open.  That somebody renames a demo product is left out.             *)
(***************************************************************************)
EXTENDS Faults

CONSTANTS
    Rows,         \* how many rows are seeded; they are numbered in order
    Unique,       \* the rows with a unique key: categories and users
    Seeders,      \* seed commands
    MaxCopies     \* bound: rows of one key that the API inserts

VARIABLES
    table,        \* row -> how many of it there are
    seeder,       \* the commands
    seeded,       \* history: row -> how many of them a seed inserted
    raced         \* history: rows that two seeds at once did not find

seedVars == <<table, seeder, seeded, raced, faults>>

RowIds == 1 .. Rows

(* What the constants are.  "nobody" is no command: it stands for the API  *)
(* in Disturbed.                                                           *)
SeedConstants == Rows \in Nat /\ Unique \subseteq RowIds /\ "nobody" \notin Seeders

ASSUME SeedAssumption == SeedConstants

(* A command and the row it is at.  disturbed is history: since it began,  *)
(* another client has inserted a row, or a call of it has failed.          *)
Seeder == [pc : {"off", "find", "insert", "done", "failed"}, row : 0 .. Rows + 1,
           disturbed : BOOLEAN]
SeederOff == [pc |-> "off", row |-> 0, disturbed |-> FALSE]

SeedAt(r, pc) == seeder[r].pc = pc

(* Connect, and the first row. *)
Begin(r) ==
    /\ seeder[r].pc \in {"off", "done", "failed"}
    /\ seeder' = [seeder EXCEPT ![r] = [SeederOff EXCEPT !.pc = "find", !.row = 1]]
    /\ UNCHANGED <<table, seeded, raced, faults>>

SeedFails(r, kind) ==
    /\ seeder' = [seeder EXCEPT ![r].pc = "failed", ![r].disturbed = TRUE]
    /\ Fault(kind)

Missing_Users(k) ==                   \* a variant: only for products
    k \in Unique => table[k] = 0

(* Nothing in the table has the key of this row. *)
Missing(k) == table[k] = 0

(* The first half of FirstOrCreate. *)
Find(r) ==
    LET k == seeder[r].row IN
    /\ SeedAt(r, "find")
    /\ k \in RowIds
    /\ \/ /\ Missing(k)
          /\ seeder' = [seeder EXCEPT ![r].pc = "insert"]
          /\ raced' = IF \E q \in Seeders : SeedAt(q, "insert") /\ seeder[q].row = k
                      THEN raced \cup {k} ELSE raced
          /\ NoFault
       \/ /\ ~ Missing(k)
          /\ seeder' = [seeder EXCEPT ![r].row = @ + 1]
          /\ NoFault /\ UNCHANGED raced
       \/ SeedFails(r, "dbread") /\ UNCHANGED raced
    /\ UNCHANGED <<table, seeded>>

Accepts(k) == k \in Unique => table[k] = 0

Added(k) == Accepts(k) /\ table' = [table EXCEPT ![k] = @ + 1]

(* What the commands remember of a row that c (or nobody of them) added. *)
Disturbed(c) ==
    [q \in Seeders |-> IF q = c THEN seeder[q] ELSE [seeder[q] EXCEPT !.disturbed = TRUE]]

(* The second half.  A unique key refuses a row that came in between, and  *)
(* the command ends with the error.                                        *)
Insert(r) ==
    LET k == seeder[r].row IN
    /\ SeedAt(r, "insert")
    /\ \/ /\ Added(k)
          /\ seeded' = [seeded EXCEPT ![k] = @ + 1]
          /\ \/ /\ seeder' = [Disturbed(r) EXCEPT ![r].row = @ + 1, ![r].pc = "find"]
                /\ NoFault
             \/ /\ seeder' = [Disturbed(r) EXCEPT ![r].pc = "failed", ![r].disturbed = TRUE]
                /\ Fault("dbwrite")
       \/ /\ ~ Accepts(k)
          /\ seeder' = [seeder EXCEPT ![r].pc = "failed"]
          /\ NoFault /\ UNCHANGED <<table, seeded>>
       \/ SeedFails(r, "dbwrite") /\ UNCHANGED <<table, seeded>>
    /\ UNCHANGED raced

AllSeen_Short(r) == seeder[r].row >= Rows        \* a variant: the last one is left out

AllSeen(r) == seeder[r].row > Rows

Finish(r) ==
    /\ SeedAt(r, "find")
    /\ AllSeen(r)
    /\ seeder' = [seeder EXCEPT ![r].pc = "done"]
    /\ UNCHANGED <<table, seeded, raced, faults>>

SeedCrash(r) ==
    /\ seeder[r].pc \in {"find", "insert"}
    /\ SeedFails(r, "crash")
    /\ UNCHANGED <<table, seeded, raced>>

(* The API inserts such a row: somebody signs up with a demo email, or     *)
(* creates a category or a product of that name.                           *)
OtherInsert(k) ==
    /\ table[k] < MaxCopies
    /\ Added(k)
    /\ seeder' = Disturbed("nobody")
    /\ UNCHANGED <<seeded, raced, faults>>

SeedInit ==
    /\ FaultsInit
    /\ table = [k \in RowIds |-> 0]
    /\ seeder = [r \in Seeders |-> SeederOff]
    /\ seeded = [k \in RowIds |-> 0]
    /\ raced = {}

SeedNext ==
    \/ \E r \in Seeders : Begin(r) \/ Find(r) \/ Insert(r) \/ Finish(r) \/ SeedCrash(r)
    \/ \E k \in RowIds : OtherInsert(k)

SeedSpec == SeedInit /\ [][SeedNext]_seedVars

(***************************************************************************)
(* Properties                                                              *)
(***************************************************************************)

(* A seed that ended well leaves every row there, wherever earlier ones     *)
(* gave up.                                                                 *)
DoneMeansComplete ==
    \A r \in Seeders : SeedAt(r, "done") => \A k \in RowIds : table[k] > 0

(* "Running it repeatedly will not create duplicates": of each row at most  *)
(* one is ever seeded, though an INSERT reports an error after it worked;   *)
(* only two seeds that both miss a row at once, which nothing keeps apart,  *)
(* may insert it twice.                                                     *)
SeededOnceUnlessRaced ==
    \A k \in RowIds \ raced : seeded[k] <= 1

(* A seed that is run again after any history, and that nobody disturbs,    *)
(* does not fail.                                                           *)
SeedFailsOnlyDisturbed ==
    \A r \in Seeders : SeedAt(r, "failed") => seeder[r].disturbed
=============================================================================
