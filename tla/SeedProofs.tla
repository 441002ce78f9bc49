----------------------------- MODULE SeedProofs -----------------------------
(***************************************************************************)
(* The three properties of the seed, for any rows and unique keys, any     *)
(* number of commands at once and of rows from the API, of failures and of *)
(* crashes.  A row that was there stays there; so a command can rely on    *)
(* the rows it has passed, and on the row it found missing only as long as *)
(* nothing disturbed it.                                                   *)
(***************************************************************************)
EXTENDS Seed, TLAPS

SeedTypeOK ==
    /\ FaultsTypeOK
    /\ table \in [RowIds -> Nat]
    /\ seeder \in [Seeders -> Seeder]
    /\ seeded \in [RowIds -> Nat]
    /\ raced \in SUBSET RowIds

(* A command at work has passed the rows before its own. *)
Passed(r) ==
    /\ seeder[r].pc \in {"find", "insert"} =>
          /\ seeder[r].row > 0
          /\ \A k \in RowIds : k < seeder[r].row => table[k] > 0
    /\ SeedAt(r, "insert") => seeder[r].row \in RowIds
    /\ SeedAt(r, "done") => \A k \in RowIds : table[k] > 0

(* A command that nothing disturbed since it looked finds what it saw.     *)
SawRight(r) ==
    /\ (SeedAt(r, "insert") /\ ~ seeder[r].disturbed) => table[seeder[r].row] = 0
    /\ SeedAt(r, "failed") => seeder[r].disturbed

(* Of a row that was not raced for at most one command is inserting it,    *)
(* and then none did so before.                                            *)
Inserting(r, k) == SeedAt(r, "insert") /\ seeder[r].row = k
OneInserts ==
    \A k \in RowIds \ raced :
        /\ seeded[k] <= 1
        /\ seeded[k] > 0 => table[k] > 0
        /\ \A r \in Seeders : Inserting(r, k) =>
              seeded[k] = 0 /\ \A q \in Seeders : Inserting(q, k) => q = r

SeedInv ==
    /\ SeedTypeOK
    /\ \A r \in Seeders : Passed(r)
    /\ \A r \in Seeders : SawRight(r)
    /\ OneInserts

(***************************************************************************)
(* What a step does                                                        *)
(***************************************************************************)

(* A command that does not move, though it may be disturbed. *)
Stays(q) ==
    /\ seeder'[q].pc = seeder[q].pc /\ seeder'[q].row = seeder[q].row
    /\ seeder[q].disturbed => seeder'[q].disturbed
OthersStay(c) == \A q \in Seeders : q # c => Stays(q)

(* One row of a key comes into the table, inserted by c; all others are    *)
(* disturbed.                                                              *)
Grows(c, k) ==
    /\ k \in RowIds
    /\ table' = [table EXCEPT ![k] = @ + 1]
    /\ \/ UNCHANGED seeded /\ c \notin Seeders
       \/ Inserting(c, k) /\ c \in Seeders /\ seeded' = [seeded EXCEPT ![k] = @ + 1]
    /\ \A q \in Seeders : q # c => seeder'[q].disturbed
TableStep(c) == UNCHANGED <<table, seeded>> \/ \E k : Grows(c, k)

(* The command of a step, if there is one, goes from one place to another. *)
Moves(r) ==
    \/ SeedAt(r, "find")' /\ seeder'[r].row = 1 /\ UNCHANGED <<table, seeded>>
    \/ /\ SeedAt(r, "find") /\ SeedAt(r, "insert")'
       /\ seeder'[r].row = seeder[r].row /\ seeder[r].row \in RowIds
       /\ table[seeder[r].row] = 0 /\ UNCHANGED <<table, seeded>>
       /\ \A q \in Seeders : Inserting(q, seeder[r].row) => seeder[r].row \in raced'
    \/ /\ SeedAt(r, "find") /\ SeedAt(r, "find")' /\ UNCHANGED <<table, seeded>>
       /\ seeder'[r].row = seeder[r].row + 1 /\ table[seeder[r].row] # 0
       /\ seeder[r].row \in RowIds
    \/ /\ SeedAt(r, "insert") /\ SeedAt(r, "find")'
       /\ seeder'[r].row = seeder[r].row + 1 /\ Grows(r, seeder[r].row)
    \/ SeedAt(r, "failed")' /\ seeder'[r].disturbed
    \/ /\ SeedAt(r, "insert") /\ SeedAt(r, "failed")'
       /\ ~ Accepts(seeder[r].row) /\ seeder'[r].disturbed = seeder[r].disturbed
    \/ SeedAt(r, "find") /\ seeder[r].row > Rows /\ SeedAt(r, "done")' /\ UNCHANGED <<table, seeded>>

Step(c) ==
    /\ SeedTypeOK'
    /\ OthersStay(c)
    /\ TableStep(c)
    /\ raced \subseteq raced'
    /\ c \in Seeders => Moves(c)

LEMMA FaultTyped ==
    ASSUME FaultsTypeOK, (\E k : Fault(k)) \/ NoFault
    PROVE  FaultsTypeOK'
BY FaultsAssumption DEF FaultsTypeOK, Fault, NoFault

LEMMA FailureTyped ==
    ASSUME SeedTypeOK, NEW r \in Seeders, NEW k, SeedFails(r, k)
    PROVE  /\ seeder' \in [Seeders -> Seeder] /\ FaultsTypeOK'
           /\ SeedAt(r, "failed")' /\ seeder'[r].disturbed
           /\ OthersStay(r)
<1>1. FaultsTypeOK' BY FaultTyped DEF SeedFails, SeedTypeOK
<1>2. seeder' \in [Seeders -> Seeder] BY DEF SeedFails, SeedTypeOK, Seeder
<1>3. SeedAt(r, "failed")' /\ seeder'[r].disturbed BY DEF SeedFails, SeedTypeOK, Seeder, SeedAt
<1>4. OthersStay(r) BY DEF SeedFails, SeedTypeOK, OthersStay, Stays
<1>5. QED BY <1>1, <1>2, <1>3, <1>4

LEMMA BeginStep == ASSUME SeedTypeOK, NEW r \in Seeders, Begin(r), Rows \in Nat PROVE Step(r)
<1> DEFINE first == [SeederOff EXCEPT !.pc = "find", !.row = 1]
<1>1. 0 \in 0 .. Rows + 1 /\ 1 \in 0 .. Rows + 1 OBVIOUS
<1>2. first \in Seeder BY <1>1 DEF Seeder, SeederOff
<1>3. seeder' = [seeder EXCEPT ![r] = first] BY DEF Begin
<1> HIDE DEF first
<1>4. SeedTypeOK' BY <1>2, <1>3 DEF Begin, SeedTypeOK, FaultsTypeOK
<1> USE DEF first
<1>5. QED BY <1>4 DEF Begin, SeedTypeOK, Step, OthersStay, Stays, TableStep, Moves, SeedAt, SeederOff

LEMMA FindStep == ASSUME SeedTypeOK, NEW r \in Seeders, Find(r), Rows \in Nat PROVE Step(r)
<1> DEFINE k == seeder[r].row
<1>1. k \in RowIds /\ SeedAt(r, "find") /\ UNCHANGED <<table, seeded>> BY DEF Find
<1>2. raced \subseteq raced' /\ raced' \in SUBSET RowIds BY <1>1 DEF Find, SeedTypeOK
<1>3. CASE /\ Missing(k) /\ seeder' = [seeder EXCEPT ![r].pc = "insert"] /\ NoFault
           /\ raced' = IF \E q \in Seeders : SeedAt(q, "insert") /\ seeder[q].row = k
                       THEN raced \cup {k} ELSE raced
  <2>1. SeedTypeOK'
    BY <1>1, <1>2, <1>3, FaultTyped DEF SeedTypeOK, Seeder
  <2>2. OthersStay(r) BY <1>3 DEF SeedTypeOK, OthersStay, Stays
  <2>3. Moves(r) BY <1>1, <1>3 DEF SeedTypeOK, Moves, SeedAt, Missing, Inserting
  <2>4. QED BY <1>1, <1>2, <2>1, <2>2, <2>3 DEF Step, TableStep
<1>4. CASE ~ Missing(k) /\ seeder' = [seeder EXCEPT ![r].row = @ + 1] /\ NoFault
  <2>1. k + 1 \in 0 .. Rows + 1 BY <1>1 DEF RowIds
  <2>2. SeedTypeOK'
    BY <1>1, <1>2, <1>4, <2>1, FaultTyped DEF SeedTypeOK, Seeder
  <2>3. OthersStay(r) BY <1>4 DEF SeedTypeOK, OthersStay, Stays
  <2>4. Moves(r) BY <1>1, <1>4 DEF SeedTypeOK, Moves, SeedAt, Missing
  <2>5. QED BY <1>1, <1>2, <2>2, <2>3, <2>4 DEF Step, TableStep
<1>5. CASE SeedFails(r, "dbread")
  BY <1>1, <1>2, <1>5, FailureTyped DEF SeedTypeOK, Step, TableStep, Moves
<1>6. QED BY <1>3, <1>4, <1>5 DEF Find

LEMMA InsertStep ==
    ASSUME SeedTypeOK, NEW r \in Seeders, Passed(r), Insert(r), Rows \in Nat
    PROVE  Step(r)
<1> DEFINE k == seeder[r].row
<1>1. k \in RowIds /\ SeedAt(r, "insert") /\ UNCHANGED raced BY DEF Insert, Passed
<1>2. CASE /\ Added(k) /\ seeded' = [seeded EXCEPT ![k] = @ + 1]
           /\ \/ /\ seeder' = [Disturbed(r) EXCEPT ![r].row = @ + 1, ![r].pc = "find"]
                 /\ NoFault
              \/ /\ seeder' = [Disturbed(r) EXCEPT ![r].pc = "failed", ![r].disturbed = TRUE]
                 /\ Fault("dbwrite")
  <2>1. k + 1 \in 0 .. Rows + 1 BY <1>1 DEF RowIds
  <2>2. Disturbed(r) \in [Seeders -> Seeder] BY DEF Disturbed, SeedTypeOK, Seeder
  <2>3. seeder' \in [Seeders -> Seeder]
    <3> DEFINE D == Disturbed(r)
    <3>1. D[r].row = k BY DEF Disturbed
    <3>2. D \in [Seeders -> Seeder] BY <2>2
    <3> HIDE DEF D
    <3>3. [D EXCEPT ![r].row = @ + 1, ![r].pc = "find"] \in [Seeders -> Seeder]
      BY <2>1, <3>1, <3>2 DEF Seeder
    <3>4. [D EXCEPT ![r].pc = "failed", ![r].disturbed = TRUE] \in [Seeders -> Seeder]
      BY <3>2 DEF Seeder
    <3>5. QED BY <1>2, <3>3, <3>4 DEF D
  <2>4. SeedTypeOK'
    BY <1>1, <1>2, <2>3, FaultTyped DEF Added, SeedTypeOK
  <2>5. /\ \A q \in Seeders : q # r => seeder'[q] = [seeder[q] EXCEPT !.disturbed = TRUE]
        /\ \/ /\ seeder'[r].pc = "find" /\ seeder'[r].row = k + 1
           \/ /\ seeder'[r].pc = "failed" /\ seeder'[r].disturbed
    <3> DEFINE D == Disturbed(r)
    <3>1. /\ D[r] = seeder[r] /\ D \in [Seeders -> Seeder]
          /\ \A q \in Seeders : q # r => D[q] = [seeder[q] EXCEPT !.disturbed = TRUE]
      BY <2>2 DEF Disturbed
    <3> HIDE DEF D
    <3>2. \A q \in Seeders : q # r => seeder'[q] = D[q] BY <1>2, <3>1 DEF D
    <3>3. ASSUME seeder' = [D EXCEPT ![r].row = @ + 1, ![r].pc = "find"]
          PROVE  seeder'[r].pc = "find" /\ seeder'[r].row = k + 1
      BY <3>1, <3>3 DEF Seeder
    <3>4. ASSUME seeder' = [D EXCEPT ![r].pc = "failed", ![r].disturbed = TRUE]
          PROVE  seeder'[r].pc = "failed" /\ seeder'[r].disturbed
      BY <3>1, <3>4 DEF Seeder
    <3>5. QED BY <1>2, <3>1, <3>2, <3>3, <3>4 DEF D
  <2>6. OthersStay(r) /\ \A q \in Seeders : q # r => seeder'[q].disturbed
    <3>1. \A q \in Seeders : seeder[q] \in Seeder BY DEF SeedTypeOK
    <3>2. ASSUME NEW q \in Seeders, q # r PROVE Stays(q) /\ seeder'[q].disturbed
      BY <2>5, <3>1, <3>2 DEF Seeder, Stays
    <3>3. QED BY <3>2 DEF OthersStay
  <2>7. Grows(r, k) BY <1>1, <1>2, <2>6 DEF Grows, Added, Inserting
  <2>8. Moves(r) BY <1>1, <2>5, <2>7 DEF Moves, SeedAt
  <2>9. QED BY <1>1, <2>4, <2>6, <2>7, <2>8 DEF Step, TableStep
<1>3. CASE ~ Accepts(k) /\ seeder' = [seeder EXCEPT ![r].pc = "failed"] /\ NoFault
           /\ UNCHANGED <<table, seeded>>
  <2>1. SeedTypeOK' BY <1>1, <1>3, FaultTyped DEF SeedTypeOK, Seeder
  <2>2. OthersStay(r) BY <1>3 DEF SeedTypeOK, OthersStay, Stays
  <2>3. Moves(r) BY <1>1, <1>3 DEF SeedTypeOK, Seeder, Moves, SeedAt
  <2>4. QED BY <1>1, <1>3, <2>1, <2>2, <2>3 DEF Step, TableStep
<1>4. CASE SeedFails(r, "dbwrite") /\ UNCHANGED <<table, seeded>>
  BY <1>1, <1>4, FailureTyped DEF SeedTypeOK, Step, TableStep, Moves
<1>5. QED BY <1>2, <1>3, <1>4 DEF Insert

LEMMA FinishStep == ASSUME SeedTypeOK, NEW r \in Seeders, Finish(r) PROVE Step(r)
<1>1. SeedTypeOK' BY DEF Finish, SeedTypeOK, FaultsTypeOK, Seeder
<1>2. QED
  BY <1>1 DEF Finish, AllSeen, SeedTypeOK, Step, OthersStay, Stays, TableStep, Moves, SeedAt

LEMMA CrashStep == ASSUME SeedTypeOK, NEW r \in Seeders, SeedCrash(r) PROVE Step(r)
BY FailureTyped DEF SeedCrash, SeedTypeOK, Step, TableStep, Moves

LEMMA OtherStep ==
    ASSUME SeedTypeOK, "nobody" \notin Seeders, NEW k \in RowIds, OtherInsert(k)
    PROVE  Step("nobody")
<1>1. seeder' = [q \in Seeders |-> [seeder[q] EXCEPT !.disturbed = TRUE]]
  BY DEF OtherInsert, Disturbed
<1>2. seeder' \in [Seeders -> Seeder] BY <1>1 DEF SeedTypeOK, Seeder
<1>3. SeedTypeOK' BY <1>2 DEF OtherInsert, Added, SeedTypeOK, FaultsTypeOK
<1>4. \A q \in Seeders : Stays(q) /\ seeder'[q].disturbed
  BY <1>1 DEF SeedTypeOK, Seeder, Stays
<1>5. Grows("nobody", k) BY <1>4 DEF Grows, OtherInsert, Added
<1>6. QED BY <1>3, <1>4, <1>5 DEF Step, OthersStay, TableStep, OtherInsert

LEMMA EveryStep ==
    ASSUME SeedConstants, SeedInv, SeedNext
    PROVE  \E c : Step(c)
<1>1. CASE \E r \in Seeders : Begin(r) \/ Find(r) \/ Insert(r) \/ Finish(r) \/ SeedCrash(r)
  BY <1>1, BeginStep, FindStep, InsertStep, FinishStep, CrashStep DEF SeedInv, SeedConstants
<1>2. CASE \E k \in RowIds : OtherInsert(k)
  BY <1>2, OtherStep DEF SeedInv, SeedConstants
<1>3. QED BY <1>1, <1>2 DEF SeedNext

(***************************************************************************)
(* What a step leaves true                                                 *)
(***************************************************************************)
LEMMA TableGrows ==
    ASSUME SeedInv, NEW c, Step(c)
    PROVE  \A k \in RowIds : table'[k] >= table[k] /\ seeded'[k] >= seeded[k]
BY DEF Step, TableStep, Grows, SeedInv, SeedTypeOK

LEMMA PassedKept ==
    ASSUME SeedConstants, SeedInv, NEW c, Step(c), NEW r \in Seeders
    PROVE  Passed(r)'
<1>1. \A k \in RowIds : table[k] > 0 => table'[k] > 0
  BY TableGrows DEF SeedInv, SeedTypeOK, Step
<1>2. Passed(r) BY DEF SeedInv
<1>3. CASE Stays(r) BY <1>1, <1>2, <1>3 DEF Passed, Stays, SeedAt
<1>4. CASE Moves(r)
  <2>1. seeder[r].row \in 0 .. Rows + 1 /\ seeder'[r].row \in 0 .. Rows + 1
    BY DEF Step, SeedInv, SeedTypeOK, Seeder
  <2>2. CASE SeedAt(r, "failed")' BY <2>2 DEF Passed, SeedAt
  <2>3. CASE SeedAt(r, "find")' /\ seeder'[r].row = 1
    BY <2>3 DEF Passed, SeedAt, RowIds
  <2>4. CASE SeedAt(r, "find") /\ SeedAt(r, "insert")' /\ seeder'[r].row = seeder[r].row
             /\ seeder[r].row \in RowIds
    BY <1>1, <1>2, <2>4 DEF Passed, SeedAt
  <2>5. CASE /\ seeder[r].pc \in {"find", "insert"} /\ SeedAt(r, "find")'
             /\ seeder'[r].row = seeder[r].row + 1 /\ seeder[r].row \in RowIds
             /\ table'[seeder[r].row] > 0
    <3>1. \A k \in RowIds : k < seeder'[r].row => k < seeder[r].row \/ k = seeder[r].row
      BY <2>1, <2>5 DEF RowIds
    <3>2. QED BY <1>1, <1>2, <2>1, <2>5, <3>1 DEF Passed, SeedAt
  <2>6. CASE SeedAt(r, "find") /\ seeder[r].row > Rows /\ SeedAt(r, "done")'
    <3>1. \A k \in RowIds : k < seeder[r].row
      BY <2>1, <2>6 DEF RowIds, SeedConstants
    <3>2. QED BY <1>1, <1>2, <2>6, <3>1 DEF Passed, SeedAt
  <2>7. QED
    <3>1. \A k : Grows(r, k) => k \in RowIds /\ table'[k] > 0
      BY DEF Grows, SeedInv, SeedTypeOK
    <3>2. \A k \in RowIds : table[k] # 0 => table[k] > 0 BY DEF SeedInv, SeedTypeOK
    <3>3. \/ SeedAt(r, "failed")'
          \/ SeedAt(r, "find")' /\ seeder'[r].row = 1
          \/ SeedAt(r, "find") /\ SeedAt(r, "insert")' /\ seeder'[r].row = seeder[r].row
             /\ seeder[r].row \in RowIds
          \/ /\ seeder[r].pc \in {"find", "insert"} /\ SeedAt(r, "find")'
             /\ seeder'[r].row = seeder[r].row + 1 /\ seeder[r].row \in RowIds
             /\ table'[seeder[r].row] > 0
          \/ SeedAt(r, "find") /\ seeder[r].row > Rows /\ SeedAt(r, "done")'
      <4> HIDE DEF SeedAt, Grows
      <4>1. \A k \in RowIds : (UNCHANGED table /\ table[k] # 0) => table'[k] > 0
        BY <3>2
      <4>2. SeedAt(r, "find") => seeder[r].pc \in {"find", "insert"} BY DEF SeedAt
      <4>3. SeedAt(r, "insert") => seeder[r].pc \in {"find", "insert"} BY DEF SeedAt
      <4>4. QED BY <1>4, <3>1, <4>1, <4>2, <4>3 DEF Moves
    <3>4. QED BY <2>2, <2>3, <2>4, <2>5, <2>6, <3>3
<1>5. QED BY <1>3, <1>4 DEF Step, OthersStay

LEMMA SawRightKept ==
    ASSUME SeedInv, NEW c, Step(c), NEW r \in Seeders
    PROVE  SawRight(r)'
<1>1. SawRight(r) /\ Passed(r) BY DEF SeedInv
<1>2. CASE r # c
  <2>1. Stays(r) BY <1>2 DEF Step, OthersStay
  <2>2. UNCHANGED table \/ seeder'[r].disturbed BY <1>2 DEF Step, TableStep, Grows
  <2>3. seeder[r] \in Seeder /\ seeder'[r] \in Seeder BY DEF Step, SeedInv, SeedTypeOK
  <2>4. QED BY <1>1, <2>1, <2>2, <2>3 DEF SawRight, Stays, SeedAt, Seeder
<1>3. CASE r = c
  <2>1. Moves(r) BY <1>3 DEF Step
  <2>2. (SeedAt(r, "insert") /\ ~ Accepts(seeder[r].row)) => seeder[r].disturbed
    BY <1>1 DEF SawRight, Accepts
  <2>3. QED BY <2>1, <2>2 DEF Moves, SawRight, SeedAt
<1>4. QED BY <1>2, <1>3

LEMMA OneInsertsKept ==
    ASSUME SeedInv, NEW c, Step(c)
    PROVE  OneInserts'
<1> SUFFICES ASSUME NEW k \in RowIds, k \notin raced'
             PROVE  /\ seeded'[k] <= 1
                    /\ seeded'[k] > 0 => table'[k] > 0
                    /\ \A r \in Seeders : Inserting(r, k)' =>
                          seeded'[k] = 0 /\ \A q \in Seeders : Inserting(q, k)' => q = r
  BY DEF OneInserts
<1>1. /\ seeded[k] <= 1 /\ (seeded[k] > 0 => table[k] > 0)
      /\ \A r \in Seeders : Inserting(r, k) =>
            seeded[k] = 0 /\ \A q \in Seeders : Inserting(q, k) => q = r
  BY DEF Step, SeedInv, OneInserts
<1>2. /\ seeded \in [RowIds -> Nat] /\ table \in [RowIds -> Nat]
      /\ seeded' \in [RowIds -> Nat] /\ table' \in [RowIds -> Nat]
  BY DEF Step, SeedInv, SeedTypeOK
<1>3. ASSUME NEW r \in Seeders, Inserting(r, k)', ~ Inserting(r, k)
      PROVE  /\ r = c /\ UNCHANGED <<table, seeded>> /\ table[k] = 0
             /\ \A q \in Seeders : ~ Inserting(q, k)
  <2>1. r = c BY <1>3 DEF Step, OthersStay, Stays, Inserting, SeedAt
  <2>2. Moves(r) BY <2>1 DEF Step
  <2>3. QED BY <1>3, <2>1, <2>2 DEF Moves, Inserting, SeedAt
<1>4. CASE Inserting(c, k) /\ c \in Seeders /\ Grows(c, k)
  <2>1. seeded[k] = 0 /\ \A q \in Seeders : Inserting(q, k) => q = c BY <1>1, <1>4
  <2>2. ~ SeedAt(c, "insert")' BY <1>4 DEF Step, Moves, SeedAt, Inserting
  <2>3. seeded'[k] \in {0, 1} BY <1>2, <1>4, <2>1 DEF Grows
  <2>4. table'[k] > 0 BY <1>2, <1>4 DEF Grows
  <2>5. \A r \in Seeders : ~ Inserting(r, k)'
    <3>1. TAKE r \in Seeders
    <3>2. CASE r = c BY <2>2, <3>2 DEF Inserting, SeedAt
    <3>3. CASE r # c
      <4>1. ~ Inserting(r, k) BY <2>1, <3>3
      <4>2. QED BY <1>3, <3>3, <4>1
    <3>4. QED BY <3>2, <3>3
  <2>6. QED BY <2>3, <2>4, <2>5
<1>5. CASE seeded'[k] = seeded[k]
  <2>1. seeded'[k] > 0 => table'[k] > 0 BY <1>1, <1>2, <1>5, TableGrows
  <2>2. ASSUME NEW r \in Seeders, Inserting(r, k)', Inserting(r, k)
        PROVE  seeded'[k] = 0 /\ \A q \in Seeders : Inserting(q, k)' => q = r
    <3>1. seeded'[k] = 0 BY <1>1, <1>5, <2>2
    <3>2. ASSUME NEW q \in Seeders, Inserting(q, k)' PROVE q = r
      BY <1>1, <1>3, <2>2, <3>2
    <3>3. QED BY <3>1, <3>2
  <2>3. ASSUME NEW r \in Seeders, Inserting(r, k)', ~ Inserting(r, k)
        PROVE  seeded'[k] = 0 /\ \A q \in Seeders : Inserting(q, k)' => q = r
    <3>1. /\ r = c /\ table[k] = 0 /\ \A q \in Seeders : ~ Inserting(q, k)
      BY <1>3, <2>3
    <3>2. seeded'[k] = 0 BY <1>1, <1>2, <1>5, <3>1
    <3>3. ASSUME NEW q \in Seeders, Inserting(q, k)' PROVE q = r
      BY <1>3, <3>1, <3>3
    <3>4. QED BY <3>2, <3>3
  <2>4. QED BY <1>1, <1>5, <2>1, <2>2, <2>3
<1>6. seeded'[k] = seeded[k] \/ (Inserting(c, k) /\ c \in Seeders /\ Grows(c, k))
  <2>1. CASE UNCHANGED <<table, seeded>> BY <2>1
  <2>2. ASSUME NEW j, Grows(c, j) PROVE seeded'[k] = seeded[k] \/ (Inserting(c, k) /\ c \in Seeders /\ Grows(c, k))
    BY <1>2, <2>2 DEF Grows
  <2>3. QED BY <2>1, <2>2 DEF Step, TableStep
<1>7. QED BY <1>4, <1>5, <1>6

LEMMA SeedInvInit == SeedConstants /\ SeedInit => SeedInv
<1> SUFFICES ASSUME SeedConstants, SeedInit PROVE SeedInv OBVIOUS
<1>1. SeederOff \in Seeder BY DEF SeederOff, Seeder, SeedConstants
<1>2. SeedTypeOK
  BY <1>1, FaultsAssumption DEF SeedInit, FaultsInit, FaultsTypeOK, SeedTypeOK
<1>3. \A r \in Seeders : seeder[r].pc = "off" BY DEF SeedInit, SeederOff
<1>4. QED
  BY <1>2, <1>3 DEF SeedInit, SeedInv, Passed, SawRight, OneInserts, Inserting, SeedAt

LEMMA SeedInvStep == SeedConstants /\ SeedInv /\ [SeedNext]_seedVars => SeedInv'
<1> SUFFICES ASSUME SeedConstants, SeedInv, [SeedNext]_seedVars PROVE SeedInv' OBVIOUS
<1>1. CASE SeedNext
  <2>1. PICK c : Step(c) BY <1>1, EveryStep
  <2>2. QED BY <2>1, PassedKept, SawRightKept, OneInsertsKept DEF Step, SeedInv
<1>2. CASE UNCHANGED seedVars
  BY <1>2 DEF seedVars, SeedInv, SeedTypeOK, FaultsTypeOK, Passed, SawRight, OneInserts,
     Inserting, SeedAt, RowIds
<1>3. QED BY <1>1, <1>2

LEMMA Seeding == SeedSpec => []SeedInv
BY SeedAssumption, SeedInvInit, SeedInvStep, PTL DEF SeedSpec

(***************************************************************************)
(* The properties                                                          *)
(***************************************************************************)

(* A seed that ended well leaves every row there, whatever rows there are  *)
(* and however many commands failed, crashed or ran next to it.            *)
THEOREM SeedCompletes == SeedSpec => []DoneMeansComplete
<1>1. SeedInv => DoneMeansComplete BY DEF SeedInv, Passed, DoneMeansComplete
<1>2. QED BY <1>1, Seeding, PTL

(* Of each row one is seeded at most, unless two seeds missed it at once.  *)
THEOREM SeedsOnce == SeedSpec => []SeededOnceUnlessRaced
<1>1. SeedInv => SeededOnceUnlessRaced BY DEF SeedInv, OneInserts, SeededOnceUnlessRaced
<1>2. QED BY <1>1, Seeding, PTL

(* A seed fails only if something disturbed it since it began: no history  *)
(* of earlier seeds, half done or twice done, makes it fail.               *)
THEOREM SeedWorksAlone == SeedSpec => []SeedFailsOnlyDisturbed
<1>1. SeedInv => SeedFailsOnlyDisturbed BY DEF SeedInv, SawRight, SeedFailsOnlyDisturbed
<1>2. QED BY <1>1, Seeding, PTL
=============================================================================
