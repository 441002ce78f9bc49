--------------------------- MODULE MigratorProofs ---------------------------
(***************************************************************************)
(* The migration runner, for any number of runners and of migrations that  *)
(* refer to earlier ones only.  Two facts carry the proofs: what an Up has *)
(* neither applied nor found applied is still to do, as long as no Down    *)
(* commits; and what a Down still has to revert is the top of what is      *)
(* applied, as long as no Up commits.                                      *)
(***************************************************************************)
EXTENDS Migrator, FiniteSetTheorems, TLAPS

Busy(r) == run[r].pc \in {"exec", "record", "commit"}
Up(r) == run[r].dir = "up"
Left(r) == run[r].todo \cup {run[r].version}

(* The version a runner is at comes before those it still has to do. *)
InTurn(r) ==
    /\ run[r].pc \in {"ensure", "read"} => ~ run[r].undercut /\ run[r].version = 0
    /\ run[r].pc = "next" => run[r].version = 0
    /\ Busy(r) => /\ run[r].version \in Versions
                  /\ \A w \in run[r].todo :
                        IF Up(r) THEN run[r].version < w ELSE run[r].version > w

UpSound(r) ==
    (Working(r) /\ Up(r)) =>
        /\ ~ run[r].undercut => Versions \subseteq recorded \cup Left(r)
        /\ run[r].undercut => crossed /\ run[r].disturbed
        /\ ~ run[r].disturbed => Left(r) \cap recorded = {}

DownSound(r) ==
    (Working(r) /\ ~ Up(r) /\ ~ (crossed /\ run[r].disturbed)) =>
        \A t \in Left(r), w \in recorded : (t # 0 /\ w > t) => w \in Left(r)

Ended(r) ==
    /\ (At(r, "ready") /\ Up(r) /\ ~ run[r].undercut) => recorded = Versions
    /\ At(r, "failed") => run[r].disturbed

RunnerSound(r) == InTurn(r) /\ UpSound(r) /\ DownSound(r) /\ Ended(r)
RunnersSound == \A r \in Runners : RunnerSound(r)

MigratorInv ==
    MigratorTypeOK /\ RunnersSound /\ RecordMatchesSchema /\ NoGapUnlessCrossed

(***************************************************************************)
(* Steps of one runner that commit nothing                                 *)
(***************************************************************************)
Alone(r) ==
    /\ run' \in [Runners -> Runner]
    /\ \A d \in Runners : d # r => run'[d] = run[d]
    /\ UNCHANGED <<schema, recorded, crossed>>
    /\ FaultsTypeOK'

LEMMA FaultsKept ==
    ASSUME FaultsTypeOK
    PROVE  /\ NoFault => FaultsTypeOK'
           /\ UNCHANGED faults => FaultsTypeOK'
           /\ \A kind : Fault(kind) => FaultsTypeOK'
BY FaultsAssumption DEF FaultsTypeOK, NoFault, Fault

LEMMA OneRunner ==
    ASSUME run \in [Runners -> Runner], NEW r \in Runners, NEW rec \in Runner,
           run' = [run EXCEPT ![r] = rec], UNCHANGED <<schema, recorded, crossed>>,
           FaultsTypeOK'
    PROVE  Alone(r) /\ run'[r] = rec
BY DEF Alone

(* What one runner moves leaves the others sound. *)
LEMMA AloneSound ==
    ASSUME NEW r \in Runners, Alone(r), RunnersSound, RunnerSound(r)'
    PROVE  RunnersSound'
<1>1. ASSUME NEW d \in Runners, d # r PROVE RunnerSound(d)'
  <2>1. run'[d] = run[d] /\ recorded' = recorded /\ crossed' = crossed
    BY <1>1 DEF Alone
  <2>2. RunnerSound(d) BY DEF RunnersSound
  <2>3. QED
    BY <2>1, <2>2 DEF RunnerSound, InTurn, UpSound, DownSound, Ended, Busy, Up, Left, Working, At
<1>2. QED BY <1>1 DEF RunnersSound

LEMMA OffIsRunner == Off \in Runner /\ Off.pc = "off"
BY DEF Off, Runner

LEMMA BeginSound ==
    ASSUME MigratorInv, NEW r \in Runners, NEW rec \in Runner,
           rec.pc = "ensure", ~ rec.undercut, rec.version = 0,
           run' = [run EXCEPT ![r] = rec],
           UNCHANGED <<schema, recorded, crossed, faults>>
    PROVE  Alone(r) /\ RunnerSound(r)'
<1>1. run \in [Runners -> Runner] /\ FaultsTypeOK'
  BY FaultsKept DEF MigratorInv, MigratorTypeOK
<1>2. Alone(r) /\ run'[r] = rec BY <1>1, OneRunner
<1>3. QED
  BY <1>2 DEF RunnerSound, InTurn, UpSound, DownSound, Ended, Busy, Working, At

(* A runner that fails and may say why. *)
LEMMA FailureSound ==
    ASSUME MigratorInv, NEW r \in Runners, NEW why \in BOOLEAN, why \/ run[r].disturbed,
           run' = [run EXCEPT ![r] = [run[r] EXCEPT !.pc = "failed", !.todo = {}, !.version = 0,
                                          !.disturbed = @ \/ why]],
           UNCHANGED <<schema, recorded, crossed>>, FaultsTypeOK'
    PROVE  Alone(r) /\ RunnerSound(r)'
<1> DEFINE rec == [run[r] EXCEPT !.pc = "failed", !.todo = {}, !.version = 0,
                                 !.disturbed = @ \/ why]
<1>1. run \in [Runners -> Runner] /\ run' = [run EXCEPT ![r] = rec]
  BY DEF MigratorInv, MigratorTypeOK
<1>2. rec \in Runner /\ rec.pc = "failed" /\ rec.disturbed
  BY <1>1, ZenonT(40) DEF Runner
<1> HIDE DEF rec
<1>3. Alone(r) /\ run'[r] = rec BY <1>1, <1>2, OneRunner
<1>4. QED
  BY <1>2, <1>3 DEF RunnerSound, InTurn, UpSound, DownSound, Ended, Busy, Working, At

LEMMA FaultSound ==
    ASSUME MigratorInv, NEW r \in Runners, NEW kind, FailsByFault(r, kind),
           UNCHANGED <<schema, recorded, crossed>>
    PROVE  Alone(r) /\ RunnerSound(r)'
<1>1. run \in [Runners -> Runner] BY DEF MigratorInv, MigratorTypeOK
<1>2. run' = [run EXCEPT ![r] = [run[r] EXCEPT !.pc = "failed", !.todo = {}, !.version = 0,
                                          !.disturbed = @ \/ TRUE]]
  BY <1>1 DEF FailsByFault, Runner
<1>3. FaultsTypeOK' BY FaultsKept DEF FailsByFault, MigratorInv, MigratorTypeOK
<1>4. QED BY <1>2, <1>3, FailureSound

(* A runner that goes on without touching what it has to do. *)
LEMMA GoneOn ==
    ASSUME MigratorInv, NEW r \in Runners, NEW pc \in {"read", "record", "commit"},
           GoTo(r, pc), UNCHANGED <<schema, recorded, crossed>>, FaultsTypeOK',
           pc = "read" => At(r, "ensure"), pc # "read" => Busy(r)
    PROVE  Alone(r) /\ RunnerSound(r)'
<1> DEFINE rec == [run[r] EXCEPT !.pc = pc]
<1>1. run \in [Runners -> Runner] /\ run' = [run EXCEPT ![r] = rec]
  BY DEF MigratorInv, MigratorTypeOK, GoTo
<1>2. /\ rec \in Runner /\ rec.pc = pc /\ rec.dir = run[r].dir /\ rec.todo = run[r].todo
      /\ rec.version = run[r].version /\ rec.disturbed = run[r].disturbed
      /\ rec.undercut = run[r].undercut
  BY <1>1 DEF Runner
<1> HIDE DEF rec
<1>3. Alone(r) /\ run'[r] = rec BY <1>1, <1>2, OneRunner
<1>4. recorded' = recorded /\ crossed' = crossed BY <1>3 DEF Alone
<1>5. RunnerSound(r) BY DEF MigratorInv, RunnersSound
<1>6. InTurn(r)' BY <1>2, <1>3, <1>5 DEF RunnerSound, InTurn, Busy, Up, At
<1>7. UpSound(r)'
  BY <1>2, <1>3, <1>4, <1>5 DEF RunnerSound, UpSound, Busy, Working, Up, Left
<1>8. DownSound(r)'
  BY <1>2, <1>3, <1>4, <1>5 DEF RunnerSound, DownSound, Busy, Working, Up, Left
<1>9. Ended(r)' BY <1>2, <1>3 DEF Ended, At
<1>10. QED BY <1>3, <1>6, <1>7, <1>8, <1>9 DEF RunnerSound

(* The versions a Down reverts are the top of those applied. *)
LEMMA LastIsTop ==
    ASSUME recorded \subseteq Versions, NEW n \in Int, NEW t \in Last(n),
           NEW w \in recorded, w > t
    PROVE  w \in Last(n)
<1>1. CASE n <= 0 BY <1>1 DEF Last
<1>2. CASE ~ (n <= 0)
  <2> DEFINE Above(v) == {x \in recorded : x > v}
  <2>1. t \in recorded /\ Cardinality(Above(t)) < n BY <1>2 DEF Last
  <2>2. IsFiniteSet(recorded)
    <3>1. IsFiniteSet(Versions) BY MigratorAssumption, FS_Interval DEF Versions
    <3>2. QED BY <3>1, FS_Subset
  <2>3. Above(t) \subseteq recorded /\ Above(w) \subseteq Above(t)
    <3>1. \A x \in recorded : x \in Int BY MigratorAssumption DEF Versions
    <3>2. t \in Int /\ w \in Int BY <2>1, <3>1
    <3>3. \A x \in Int : x > w => x > t BY <3>2
    <3>4. QED BY <3>1, <3>3
  <2>4. IsFiniteSet(Above(t)) BY <2>2, <2>3, FS_Subset
  <2>5. /\ Cardinality(Above(w)) \in Nat /\ Cardinality(Above(t)) \in Nat
        /\ Cardinality(Above(w)) <= Cardinality(Above(t))
    <3> HIDE DEF Above
    <3>1. QED BY <2>3, <2>4, FS_Subset, FS_CardinalityType
  <2>6. Cardinality(Above(w)) < n BY <2>1, <2>5
  <2>7. QED BY <1>2, <2>6 DEF Last
<1>3. QED BY <1>1, <1>2

LEMMA ReadSound ==
    ASSUME MigratorInv, NEW r \in Runners, ReadApplied(r)
    PROVE  Alone(r) /\ RunnerSound(r)'
<1>1. CASE FailsByFault(r, "dbread") BY <1>1, FaultSound DEF ReadApplied
<1> DEFINE todo == IF Up(r) THEN Pending ELSE Last(run[r].steps)
           rec == [run[r] EXCEPT !.pc = "next", !.todo = todo]
<1>2. CASE run' = [run EXCEPT ![r].pc = "next", ![r].todo = todo] /\ NoFault
  <2>1. /\ run \in [Runners -> Runner] /\ recorded \subseteq Versions
        /\ run[r].pc = "read" /\ run[r].steps \in Int
    BY MigratorAssumption DEF MigratorInv, MigratorTypeOK, ReadApplied, At, Runner
  <2>2. todo \subseteq Versions BY <2>1 DEF Pending, Last
  <2>3. run' = [run EXCEPT ![r] = rec] BY <1>2, <2>1
  <2>4. /\ rec \in Runner /\ rec.pc = "next" /\ rec.dir = run[r].dir /\ rec.todo = todo
        /\ rec.version = run[r].version /\ rec.disturbed = run[r].disturbed
        /\ rec.undercut = run[r].undercut
    BY <2>1, <2>2 DEF Runner
  <2>5. FaultsTypeOK' /\ UNCHANGED <<schema, recorded, crossed>>
    BY <1>2, FaultsKept DEF MigratorInv, MigratorTypeOK, ReadApplied
  <2> HIDE DEF rec
  <2>6. Alone(r) /\ run'[r] = rec BY <2>1, <2>3, <2>4, <2>5, OneRunner
  <2>7. RunnerSound(r) BY DEF MigratorInv, RunnersSound
  <2>8. rec.version = 0 /\ ~ rec.undercut
    BY <2>1, <2>4, <2>7 DEF RunnerSound, InTurn
  <2>9. InTurn(r)' BY <2>4, <2>6, <2>8 DEF InTurn, Busy
  <2>10. UpSound(r)'
    BY <2>1, <2>4, <2>5, <2>6, <2>8, MigratorAssumption
    DEF UpSound, Working, Up, Left, Pending, Versions
  <2>11. DownSound(r)'
    <3>1. ASSUME ~ Up(r), NEW t \in todo, NEW w \in recorded, w > t PROVE w \in todo
      BY <2>1, <3>1, LastIsTop
    <3> HIDE DEF todo
    <3>2. QED BY <2>4, <2>5, <2>6, <2>8, <3>1 DEF DownSound, Left, Up
  <2>12. Ended(r)' BY <2>4, <2>6 DEF Ended, At
  <2>13. QED BY <2>6, <2>9, <2>10, <2>11, <2>12 DEF RunnerSound
<1>3. QED BY <1>1, <1>2 DEF ReadApplied, Up

LEMMA NextSound ==
    ASSUME MigratorInv, NEW r \in Runners, NextVersion(r)
    PROVE  Alone(r) /\ RunnerSound(r)'
<1>1. /\ run \in [Runners -> Runner] /\ recorded \subseteq Versions
      /\ run[r] \in Runner /\ run[r].pc = "next" /\ run[r].version = 0
      /\ FaultsTypeOK' /\ UNCHANGED <<schema, recorded, crossed>>
      /\ \A v \in Versions : v \in Int /\ v # 0
  <2>1. \A v \in Versions : v \in Int /\ v # 0 BY MigratorAssumption DEF Versions
  <2>2. QED
    BY <2>1, FaultsKept
    DEF MigratorInv, MigratorTypeOK, RunnersSound, RunnerSound, InTurn, NextVersion, At
<1>2. UpSound(r) /\ DownSound(r) /\ Working(r)
  BY <1>1 DEF MigratorInv, RunnersSound, RunnerSound, Working
<1>3. CASE \E v \in Versions :
             /\ Foremost(r, v)
             /\ run' = [run EXCEPT ![r].pc = "exec", ![r].version = v, ![r].todo = @ \ {v}]
  <2>1. PICK v \in Versions :
             /\ Foremost(r, v)
             /\ run' = [run EXCEPT ![r].pc = "exec", ![r].version = v, ![r].todo = @ \ {v}]
    BY <1>3
  <2> DEFINE rec == [run[r] EXCEPT !.pc = "exec", !.version = v, !.todo = @ \ {v}]
  <2>2. run' = [run EXCEPT ![r] = rec] BY <1>1, <2>1
  <2>3. /\ rec \in Runner /\ rec.pc = "exec" /\ rec.dir = run[r].dir
        /\ rec.todo = run[r].todo \ {v} /\ rec.version = v
        /\ rec.disturbed = run[r].disturbed /\ rec.undercut = run[r].undercut
    BY <1>1, <2>1 DEF Runner
  <2> HIDE DEF rec
  <2>4. Alone(r) /\ run'[r] = rec BY <1>1, <2>2, <2>3, OneRunner
  <2>5. /\ v \in run[r].todo
        /\ \A w \in run[r].todo : IF Up(r) THEN v <= w ELSE v >= w
        /\ \A w \in run[r].todo : w \in Int
    BY <1>1, <2>1 DEF Foremost, Up, Runner
  <2>6. rec.todo \cup {rec.version} = run[r].todo BY <2>3, <2>5
  <2>7. \A w \in run[r].todo \ {v} : IF Up(r) THEN v < w ELSE v > w
    BY <1>1, <2>5
  <2>8. InTurn(r)' BY <2>3, <2>4, <2>7 DEF InTurn, Busy, Up
  <2>9. run[r].todo \subseteq Left(r) /\ Left(r) \subseteq run[r].todo \cup {0}
    BY <1>1 DEF Left
  <2>10. UpSound(r)'
    BY <1>1, <1>2, <2>3, <2>4, <2>6, <2>9 DEF UpSound, Working, Up, Left
  <2>11. DownSound(r)'
    BY <1>1, <1>2, <2>3, <2>4, <2>6, <2>9 DEF DownSound, Working, Up, Left
  <2>12. Ended(r)' BY <2>3, <2>4 DEF Ended, At
  <2>13. QED BY <2>4, <2>8, <2>10, <2>11, <2>12 DEF RunnerSound
<1>4. CASE run[r].todo = {} /\ GoTo(r, "ready")
  <2> DEFINE rec == [run[r] EXCEPT !.pc = "ready"]
  <2>1. run' = [run EXCEPT ![r] = rec] BY <1>1, <1>4 DEF GoTo
  <2>2. /\ rec \in Runner /\ rec.pc = "ready" /\ rec.dir = run[r].dir
        /\ rec.undercut = run[r].undercut
    BY <1>1 DEF Runner
  <2> HIDE DEF rec
  <2>3. Alone(r) /\ run'[r] = rec BY <1>1, <2>1, <2>2, OneRunner
  <2>4. Left(r) = {0} BY <1>1, <1>4 DEF Left
  <2>5. (Up(r) /\ ~ run[r].undercut) => recorded = Versions
    BY <1>1, <1>2, <2>4 DEF UpSound
  <2>6. Ended(r)' BY <1>1, <2>2, <2>3, <2>5 DEF Ended, At, Up
  <2>7. QED
    BY <2>2, <2>3, <2>6 DEF RunnerSound, InTurn, UpSound, DownSound, Busy, Working
<1>5. QED BY <1>3, <1>4 DEF NextVersion

(* The script of a runner that nobody disturbed works. *)
LEMMA ScriptWorks ==
    ASSUME MigratorInv, NEW r \in Runners, At(r, "exec"), ~ run[r].disturbed
    PROVE  Works(r)
<1> DEFINE v == run[r].version
<1>1. /\ v \in Versions /\ Working(r) /\ recorded \subseteq Versions
      /\ \A w \in run[r].todo : IF Up(r) THEN v < w ELSE v > w
      /\ UpSound(r) /\ DownSound(r) /\ v \in Left(r) /\ recorded = schema
  BY DEF MigratorInv, MigratorTypeOK, RunnersSound, RunnerSound, InTurn, Busy, At, Working, Left,
         RecordMatchesSchema
<1>2. \A w \in Versions : w \in Int /\ References[w] \subseteq 1 .. w /\ References[w] \subseteq Versions
  BY MigratorAssumption DEF Versions
<1>3. CASE Up(r)
  <2>1. Versions \subseteq recorded \cup Left(r) /\ Left(r) \cap recorded = {}
    BY <1>1, <1>3 DEF UpSound
  <2>2. v \notin recorded BY <1>1, <2>1
  <2>3. ASSUME NEW w \in References[v], w # v PROVE w \in recorded
    <3>1. w \in Versions /\ w \in Int /\ w < v BY <1>1, <1>2, <2>3
    <3>2. w \notin run[r].todo
      <4>1. w \in run[r].todo => v < w BY <1>1, <1>3
      <4>2. v \in Int BY <1>1, <1>2
      <4> HIDE DEF v
      <4>3. QED BY <3>1, <4>1, <4>2
    <3>3. QED BY <2>1, <2>3, <3>1, <3>2 DEF Left
  <2>4. QED BY <1>1, <1>3, <2>2, <2>3 DEF Works, Up
<1>4. CASE ~ Up(r)
  <2>1. ASSUME NEW w \in recorded, w # v, v \in References[w] PROVE FALSE
    <3>1. w \in Int /\ v \in Int /\ w > v /\ v # 0
      BY <1>1, <1>2, <2>1 DEF Versions
    <3>2. w \in Left(r) BY <1>1, <1>4, <3>1 DEF DownSound
    <3>3. w \in run[r].todo BY <2>1, <3>2 DEF Left
    <3>4. QED BY <1>1, <1>4, <3>1, <3>3
  <2>2. QED BY <1>1, <1>4, <2>1 DEF Works, Up
<1>5. QED BY <1>3, <1>4

LEMMA ExecSound ==
    ASSUME MigratorInv, NEW r \in Runners, Exec(r)
    PROVE  Alone(r) /\ RunnerSound(r)'
<1>1. /\ run \in [Runners -> Runner] /\ run[r] \in Runner /\ At(r, "exec") /\ Busy(r)
      /\ UNCHANGED <<recorded, crossed>> /\ FaultsTypeOK'
  BY FaultsKept DEF MigratorInv, MigratorTypeOK, Exec, At, Busy, FailsByFault
<1>2. CASE GoTo(r, "record") /\ Uncommitted(r)
  BY <1>1, <1>2, GoneOn DEF Uncommitted
<1>3. CASE ~ Works(r) /\ Fails(r) /\ UNCHANGED schema
  <2>1. run[r].disturbed BY <1>1, <1>3, ScriptWorks
  <2>2. run' = [run EXCEPT ![r] = [run[r] EXCEPT !.pc = "failed", !.todo = {}, !.version = 0,
                                          !.disturbed = @ \/ TRUE]]
    <3>1. [run[r] EXCEPT !.pc = "failed", !.todo = {}, !.version = 0]
           = [run[r] EXCEPT !.pc = "failed", !.todo = {}, !.version = 0, !.disturbed = @ \/ TRUE]
      BY <1>1, <2>1 DEF Runner
    <3>2. QED BY <1>1, <1>3, <3>1 DEF Fails
  <2>3. QED BY <1>1, <1>3, <2>2, FailureSound
<1>4. CASE /\ run' = [run EXCEPT ![r].pc = "failed", ![r].todo = {}, ![r].version = 0,
                                ![r].disturbed = TRUE]
           /\ UNCHANGED schema
  <2>1. run' = [run EXCEPT ![r] = [run[r] EXCEPT !.pc = "failed", !.todo = {}, !.version = 0,
                                          !.disturbed = @ \/ TRUE]]
    BY <1>1, <1>4 DEF Runner
  <2>2. QED BY <1>1, <1>4, <2>1, FailureSound
<1>5. CASE FailsByFault(r, "dbwrite") /\ UNCHANGED schema
  BY <1>1, <1>5, FaultSound
<1>6. QED BY <1>2, <1>3, <1>4, <1>5 DEF Exec

LEMMA EasySound ==
    ASSUME MigratorInv, NEW r \in Runners, Ensure(r) \/ Record(r) \/ Crash(r)
    PROVE  Alone(r) /\ RunnerSound(r)'
<1>1. FaultsTypeOK' /\ UNCHANGED <<schema, recorded, crossed>>
  BY FaultsKept DEF MigratorInv, MigratorTypeOK, Ensure, Record, Crash, FailsByFault
<1>2. CASE Ensure(r) BY <1>1, <1>2, GoneOn, FaultSound DEF Ensure
<1>3. CASE Record(r)
  <2>1. Busy(r) BY <1>3 DEF Record, At, Busy
  <2>2. QED BY <1>1, <1>3, <2>1, GoneOn, FaultSound DEF Record
<1>4. CASE Crash(r) BY <1>1, <1>4, FaultSound DEF Crash
<1>5. QED BY <1>2, <1>3, <1>4

(***************************************************************************)
(* A commit                                                                *)
(***************************************************************************)
LEMMA SeenByOthers ==
    ASSUME run \in [Runners -> Runner], NEW r \in Runners, NEW rec \in Runner,
           run' = Seen(r, rec)
    PROVE  /\ run' \in [Runners -> Runner] /\ run'[r] = rec
           /\ \A d \in Runners \ {r} :
                 /\ run'[d].pc = run[d].pc /\ run'[d].dir = run[d].dir
                 /\ run'[d].todo = run[d].todo /\ run'[d].version = run[d].version
                 /\ run'[d].disturbed <=> (run[d].disturbed \/ Working(d))
                 /\ run'[d].undercut <=>
                       (run[d].undercut \/ (~ Up(r) /\ (Working(d) \/ At(d, "ready"))))
<1> DEFINE dis(d) == run[d].disturbed \/ Working(d)
           under(d) == run[d].undercut \/ (run[r].dir = "down" /\ (Working(d) \/ At(d, "ready")))
           new(d) == [run[d] EXCEPT !.disturbed = dis(d), !.undercut = under(d)]
<1>1. \A d \in Runners : dis(d) \in BOOLEAN /\ under(d) \in BOOLEAN
  BY DEF Runner
<1>2. run[r].dir = "down" <=> ~ Up(r) BY DEF Runner, Up
<1>3. run' = [d \in Runners |-> IF d = r THEN rec ELSE new(d)] BY DEF Seen
<1>4. \A d \in Runners :
         (dis(d) <=> (run[d].disturbed \/ Working(d)))
         /\ (under(d) <=> (run[d].undercut \/ (~ Up(r) /\ (Working(d) \/ At(d, "ready")))))
  BY <1>2
<1> HIDE DEF dis, under
<1>5. ASSUME NEW d \in Runners
      PROVE  /\ new(d) \in Runner /\ new(d).pc = run[d].pc /\ new(d).dir = run[d].dir
             /\ new(d).todo = run[d].todo /\ new(d).version = run[d].version
             /\ new(d).disturbed = dis(d) /\ new(d).undercut = under(d)
  BY <1>1 DEF Runner
<1> HIDE DEF new
<1>6. run' \in [Runners -> Runner] /\ run'[r] = rec /\ \A d \in Runners \ {r} : run'[d] = new(d)
  BY <1>3, <1>5
<1>7. QED BY <1>4, <1>5, <1>6

(* The shape of a commit that took effect. *)
Kept(r) ==
    /\ run'[r].pc = "next" /\ run'[r].version = 0 /\ run'[r].todo = run[r].todo
    /\ run'[r].dir = run[r].dir /\ run'[r].disturbed = run[r].disturbed
    /\ run'[r].undercut = run[r].undercut
Lost(r) == run'[r].pc = "failed" /\ run'[r].disturbed
Committed(r) ==
    /\ At(r, "commit")
    /\ schema' = SchemaAfter(r) /\ recorded' = RecordAfter(r)
    /\ crossed' = (crossed \/ Crosses(r))
    /\ run' \in [Runners -> Runner]
    /\ \A d \in Runners \ {r} :
          /\ run'[d].pc = run[d].pc /\ run'[d].dir = run[d].dir
          /\ run'[d].todo = run[d].todo /\ run'[d].version = run[d].version
          /\ run'[d].disturbed <=> (run[d].disturbed \/ Working(d))
          /\ run'[d].undercut <=>
                (run[d].undercut \/ (~ Up(r) /\ (Working(d) \/ At(d, "ready"))))
    /\ Kept(r) \/ Lost(r)
    /\ FaultsTypeOK'

LEMMA Commits ==
    ASSUME MigratorInv, NEW r \in Runners, Commit(r)
    PROVE  Committed(r) \/ (Alone(r) /\ RunnerSound(r)')
<1> DEFINE kept == [run[r] EXCEPT !.pc = "next", !.version = 0]
           lost == [run[r] EXCEPT !.pc = "failed", !.todo = {}, !.version = 0, !.disturbed = TRUE]
<1>1. run \in [Runners -> Runner] /\ FaultsTypeOK' /\ At(r, "commit")
  BY FaultsKept DEF MigratorInv, MigratorTypeOK, Commit, FailsByFault
<1>2. CASE FailsByFault(r, "dbwrite") /\ UNCHANGED <<schema, recorded, crossed>>
  BY <1>2, FaultSound
<1>3. /\ kept \in Runner /\ kept.pc = "next" /\ kept.version = 0 /\ kept.todo = run[r].todo
      /\ kept.dir = run[r].dir /\ kept.disturbed = run[r].disturbed
      /\ kept.undercut = run[r].undercut
  BY <1>1 DEF Runner
<1>4. lost \in Runner /\ lost.pc = "failed" /\ lost.disturbed
  BY <1>1 DEF Runner
<1>5. CASE /\ schema' = SchemaAfter(r) /\ recorded' = RecordAfter(r)
           /\ crossed' = (crossed \/ Crosses(r))
           /\ run' = Seen(r, kept) \/ run' = Seen(r, lost)
  <2> HIDE DEF kept, lost
  <2>1. CASE run' = Seen(r, kept)
    BY <1>1, <1>3, <1>5, <2>1, SeenByOthers DEF Committed, Kept
  <2>2. CASE run' = Seen(r, lost)
    BY <1>1, <1>4, <1>5, <2>2, SeenByOthers DEF Committed, Lost
  <2>3. QED BY <1>5, <2>1, <2>2
<1>6. QED BY <1>2, <1>5 DEF Commit

LEMMA CommittedOthers ==
    ASSUME MigratorInv, NEW r \in Runners, Committed(r), NEW d \in Runners, d # r
    PROVE  RunnerSound(d)'
<1>1. /\ run'[d].pc = run[d].pc /\ run'[d].dir = run[d].dir
      /\ run'[d].todo = run[d].todo /\ run'[d].version = run[d].version
      /\ run'[d].disturbed <=> (run[d].disturbed \/ Working(d))
      /\ run'[d].undercut <=> (run[d].undercut \/ (~ Up(r) /\ (Working(d) \/ At(d, "ready"))))
      /\ (Working(d))' <=> Working(d)
      /\ (Up(d))' <=> Up(d)
      /\ (Left(d))' = Left(d)
  BY DEF Committed, Working, Up, Left
<1>2. /\ InTurn(d) /\ UpSound(d) /\ DownSound(d) /\ Ended(d)
      /\ run[r].version \in Versions /\ recorded \subseteq Versions
  BY DEF MigratorInv, MigratorTypeOK, RunnersSound, RunnerSound, InTurn, Committed, At, Busy
<1>3. /\ Up(r) => recorded' = recorded \cup {run[r].version}
      /\ ~ Up(r) => recorded' = recorded \ {run[r].version}
  BY DEF Committed, RecordAfter, Up
<1>4. /\ crossed => crossed'
      /\ (Working(d) /\ Up(d) /\ ~ Up(r)) => crossed'
      /\ (Working(d) /\ ~ Up(d) /\ Up(r)) => crossed'
  BY DEF Committed, Crosses, Up
<1>5. InTurn(d)' BY <1>1, <1>2 DEF InTurn, Busy, Working, At
<1>6. UpSound(d)' BY <1>1, <1>2, <1>3, <1>4 DEF UpSound
<1>7. DownSound(d)' BY <1>1, <1>2, <1>3, <1>4 DEF DownSound
<1>8. Ended(d)' BY <1>1, <1>2, <1>3 DEF Ended, At
<1>9. QED BY <1>5, <1>6, <1>7, <1>8 DEF RunnerSound

LEMMA CommittedSelf ==
    ASSUME MigratorInv, NEW r \in Runners, Committed(r)
    PROVE  RunnerSound(r)' /\ NoGapUnlessCrossed'
<1> DEFINE v == run[r].version
<1>1. /\ InTurn(r) /\ UpSound(r) /\ DownSound(r) /\ Working(r) /\ NoGapUnlessCrossed
      /\ v \in Versions /\ v \in Left(r) /\ recorded \subseteq Versions
      /\ \A w \in run[r].todo : IF Up(r) THEN v < w ELSE v > w
      /\ run[r].todo \subseteq Versions
  BY DEF MigratorInv, MigratorTypeOK, RunnersSound, RunnerSound, InTurn, Committed, At, Busy,
         Working, Left, Runner
<1>2. \A w \in Versions : w \in Int /\ w # 0 /\ 1 .. w \subseteq Versions
  BY MigratorAssumption DEF Versions
<1>3. /\ Up(r) => recorded' = recorded \cup {v}
      /\ ~ Up(r) => recorded' = recorded \ {v}
      /\ crossed => crossed'
  BY DEF Committed, RecordAfter, Up
<1>4. v \notin run[r].todo
  <2>1. v \in Int BY <1>1, <1>2
  <2>2. v \in run[r].todo => v < v \/ v > v BY <1>1
  <2> HIDE DEF v
  <2>3. QED BY <2>1, <2>2
<1>5. ASSUME Lost(r) PROVE RunnerSound(r)'
  BY <1>5 DEF Lost, RunnerSound, InTurn, UpSound, DownSound, Ended, Busy, Working, At
<1>6. ASSUME Kept(r) PROVE RunnerSound(r)'
  <2>1. /\ (Left(r))' = run[r].todo \cup {0} /\ ((Up(r))' <=> Up(r))
        /\ run'[r].undercut = run[r].undercut /\ run'[r].disturbed = run[r].disturbed
        /\ run'[r].pc = "next" /\ run'[r].version = 0
    BY <1>6 DEF Kept, Left, Up
  <2>2. Left(r) = run[r].todo \cup {v} BY DEF Left
  <2>3. InTurn(r)' BY <2>1 DEF InTurn, Busy
  <2>4. UpSound(r)'
    BY <1>1, <1>2, <1>3, <1>4, <2>1, <2>2 DEF UpSound
  <2>5. DownSound(r)'
    BY <1>1, <1>2, <1>3, <2>1, <2>2 DEF DownSound
  <2>6. Ended(r)' BY <2>1 DEF Ended, At
  <2>7. QED BY <2>3, <2>4, <2>5, <2>6 DEF RunnerSound
<1>7. RunnerSound(r)' BY <1>5, <1>6 DEF Committed
<1>8. ASSUME ~ crossed', NEW w \in recorded', NEW x \in 1 .. w PROVE x \in recorded'
  <2>1. ~ crossed /\ v \in Int /\ w \in Versions /\ w \in Int /\ x \in Int /\ x <= w
        /\ x \in Versions
    BY <1>1, <1>2, <1>3, <1>8
  <2>2. w \in recorded => x \in recorded BY <1>1, <1>8, <2>1 DEF NoGapUnlessCrossed
  <2>3. CASE Up(r)
    <3>1. x \in recorded \cup run[r].todo \cup {v}
      BY <1>1, <2>1, <2>3 DEF UpSound, Left
    <3>2. ASSUME w = v, x \in run[r].todo PROVE FALSE
      <4>1. v < x BY <1>1, <2>3, <3>2
      <4> HIDE DEF v
      <4>2. QED BY <2>1, <3>2, <4>1
    <3>3. QED BY <1>3, <1>8, <2>2, <2>3, <3>1, <3>2
  <2>4. CASE ~ Up(r)
    <3>1. w \in recorded /\ w # v BY <1>3, <1>8, <2>4
    <3>2. ASSUME x = v PROVE FALSE
      <4>1. w > v BY <2>1, <3>1, <3>2
      <4>2. v # 0 BY <1>1, <1>2
      <4>3. w \in Left(r) BY <1>1, <2>1, <2>4, <3>1, <4>1, <4>2 DEF DownSound
      <4>4. v > w BY <1>1, <2>4, <3>1, <4>3 DEF Left
      <4> HIDE DEF v
      <4>5. QED BY <2>1, <4>1, <4>4
    <3>3. QED BY <1>3, <2>2, <2>4, <3>1, <3>2
  <2>5. QED BY <2>3, <2>4
<1>9. NoGapUnlessCrossed' BY <1>8 DEF NoGapUnlessCrossed
<1>10. QED BY <1>7, <1>9

LEMMA CommittedInv ==
    ASSUME MigratorInv, NEW r \in Runners, Committed(r)
    PROVE  MigratorInv'
<1>1. RunnersSound' BY CommittedOthers, CommittedSelf DEF RunnersSound
<1>2. RecordMatchesSchema'
  BY DEF MigratorInv, RecordMatchesSchema, Committed, SchemaAfter, RecordAfter
<1>3. /\ run[r].version \in Versions /\ recorded \subseteq Versions
      /\ schema \subseteq Versions /\ crossed \in BOOLEAN
  BY DEF MigratorInv, MigratorTypeOK, RunnersSound, RunnerSound, InTurn, Committed, At, Busy
<1>4. MigratorTypeOK'
  <2>1. recorded' \subseteq Versions /\ schema' \subseteq Versions
    BY <1>3 DEF Committed, RecordAfter, SchemaAfter
  <2>2. Crosses(r) \in BOOLEAN BY DEF Crosses
  <2>3. crossed' \in BOOLEAN BY <1>3, <2>2 DEF Committed
  <2>4. QED BY <2>1, <2>3 DEF Committed, MigratorTypeOK
<1>5. QED BY <1>1, <1>2, <1>4, CommittedSelf DEF MigratorInv

(***************************************************************************)
(* The theorems                                                            *)
(***************************************************************************)
LEMMA MigratorInit ==
    ASSUME Init
    PROVE  MigratorInv
<1>1. FaultsTypeOK BY FaultsAssumption DEF Init, FaultsInit, FaultsTypeOK
<1>2. MigratorTypeOK BY <1>1, OffIsRunner DEF Init, MigratorTypeOK
<1>3. RunnersSound
  BY OffIsRunner DEF Init, RunnersSound, RunnerSound, InTurn, UpSound, DownSound, Ended, Busy, Working, At
<1>4. RecordMatchesSchema /\ NoGapUnlessCrossed
  BY DEF Init, RecordMatchesSchema, NoGapUnlessCrossed
<1>5. QED BY <1>2, <1>3, <1>4 DEF MigratorInv

LEMMA AloneInv ==
    ASSUME MigratorInv, NEW r \in Runners, Alone(r), RunnerSound(r)'
    PROVE  MigratorInv'
<1>1. RunnersSound' BY AloneSound DEF MigratorInv
<1>2. QED
  BY <1>1 DEF MigratorInv, MigratorTypeOK, RecordMatchesSchema, NoGapUnlessCrossed, Alone

LEMMA MigratorStep ==
    ASSUME MigratorInv, [Next]_vars
    PROVE  MigratorInv'
<1>1. CASE UNCHANGED vars
  BY <1>1 DEF vars, MigratorInv, MigratorTypeOK, FaultsTypeOK, RecordMatchesSchema,
     NoGapUnlessCrossed, RunnersSound, RunnerSound, InTurn, UpSound, DownSound, Ended, Busy,
     Up, Left, Working, At
<1>2. ASSUME NEW r \in Runners, BeginUp(r) \/ \E n \in Steps : BeginDown(r, n) PROVE MigratorInv'
  <2>1. CASE BeginUp(r)
    <3> DEFINE rec == [Off EXCEPT !.pc = "ensure"]
    <3>1. rec \in Runner /\ rec.pc = "ensure" /\ ~ rec.undercut /\ rec.version = 0
      BY OffIsRunner DEF Off, Runner
    <3>2. run' = [run EXCEPT ![r] = rec] /\ UNCHANGED <<schema, recorded, crossed, faults>>
      BY <2>1 DEF BeginUp
    <3> HIDE DEF rec
    <3>3. QED BY <3>1, <3>2, BeginSound, AloneInv
  <2>2. ASSUME NEW n \in Steps, BeginDown(r, n) PROVE MigratorInv'
    <3> DEFINE rec == [Off EXCEPT !.pc = "ensure", !.dir = "down", !.steps = n]
    <3>1. rec \in Runner /\ rec.pc = "ensure" /\ ~ rec.undercut /\ rec.version = 0
      BY OffIsRunner DEF Off, Runner
    <3>2. run' = [run EXCEPT ![r] = rec] /\ UNCHANGED <<schema, recorded, crossed, faults>>
      BY <2>2 DEF BeginDown
    <3> HIDE DEF rec
    <3>3. QED BY <3>1, <3>2, BeginSound, AloneInv
  <2>3. QED BY <1>2, <2>1, <2>2
<1>3. ASSUME NEW r \in Runners, Ensure(r) \/ Record(r) \/ Crash(r) PROVE MigratorInv'
  BY <1>3, EasySound, AloneInv
<1>4. ASSUME NEW r \in Runners, ReadApplied(r) \/ NextVersion(r) \/ Exec(r) PROVE MigratorInv'
  BY <1>4, ReadSound, NextSound, ExecSound, AloneInv
<1>5. ASSUME NEW r \in Runners, Commit(r) PROVE MigratorInv'
  BY <1>5, Commits, CommittedInv, AloneInv
<1>6. QED BY <1>1, <1>2, <1>3, <1>4, <1>5 DEF Next, Step

LEMMA MigratorInvariant == Spec => []MigratorInv
BY MigratorInit, MigratorStep, PTL DEF Spec

(* The schema and the record of what was applied agree after every crash   *)
(* and error, for any number of runners.                                   *)
THEOREM SchemaRecorded == Spec => []RecordMatchesSchema
<1>1. MigratorInv => RecordMatchesSchema BY DEF MigratorInv
<1>2. QED BY <1>1, MigratorInvariant, PTL

(* An Up that ended well while no Down committed has left the schema       *)
(* complete, even if other Ups applied part of it.                         *)
THEOREM UpCompletes == Spec => []UpMeansComplete
<1>1. MigratorInv => UpMeansComplete
  BY DEF MigratorInv, RunnersSound, RunnerSound, Ended, UpMeansComplete, Up
<1>2. QED BY <1>1, MigratorInvariant, PTL

(* Ups alone, or Downs alone, never leave a gap, however many run at once. *)
THEOREM NoGaps == Spec => []NoGapUnlessCrossed
<1>1. MigratorInv => NoGapUnlessCrossed BY DEF MigratorInv
<1>2. QED BY <1>1, MigratorInvariant, PTL

(* A runner that is left alone finds the tables its script needs and the   *)
(* names it creates free, in any schema history left behind.               *)
THEOREM AloneItWorks == Spec => []FailsOnlyDisturbed
<1>1. MigratorInv => FailsOnlyDisturbed
  BY DEF MigratorInv, RunnersSound, RunnerSound, Ended, FailsOnlyDisturbed
<1>2. QED BY <1>1, MigratorInvariant, PTL
=============================================================================
