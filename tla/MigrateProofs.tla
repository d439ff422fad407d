---------------------------- MODULE MigrateProofs ----------------------------
(***************************************************************************)
(* Theorems about Migrate, for every number of files and of runners, with  *)
(* runners of releases that know different numbers of files.               *)
(***************************************************************************)
EXTENDS Migrate, TLAPS

InTransaction == {"execute", "record", "commit"}

(* What a runner has loaded or passed over is recorded, and it holds a row  *)
(* that nobody else has or holds.                                           *)
RunnerInv(r) ==
  /\ applied[r] \subseteq recorded
  /\ stage[r] \in InTransaction \cup {"next"} => 1 .. file[r] - 1 \subseteq recorded
  /\ stage[r] \in InTransaction => file[r] =< Known[r]
  /\ stage[r] = "commit" =>
       /\ file[r] \notin recorded
       /\ \A s \in Runners \ {r} : stage[s] = "commit" => file[s] # file[r]

(* The inductive invariant. *)
MigrateInv ==
  /\ MigrateTypeOK
  /\ \A r \in Runners : RunnerInv(r)
  /\ SchemaMatchesRecord
  /\ FinishedMeansMigrated

-----------------------------------------------------------------------------
(* Nothing has been migrated and nobody has begun. *)
LEMMA MigrateInvInit == MigrateInit => MigrateInv
  <1> SUFFICES ASSUME MigrateInit PROVE MigrateInv
    OBVIOUS
  <1> USE FilesAssumption DEF MigrateInit
  <1>1. MigrateTypeOK
    <2>1. 1 \in 1 .. Files + 1 /\ {} \in SUBSET (1 .. Files)
      OBVIOUS
    <2>2. /\ executions \in [1 .. Files -> Nat] /\ stage \in [Runners -> Stages]
          /\ file \in [Runners -> 1 .. Files + 1]
          /\ applied \in [Runners -> SUBSET (1 .. Files)]
      BY <2>1 DEF Stages
    <2> QED BY <2>1, <2>2 DEF MigrateTypeOK
  <1>2. \A r \in Runners : RunnerInv(r)
    BY DEF RunnerInv, InTransaction
  <1>3. SchemaMatchesRecord /\ FinishedMeansMigrated
    BY DEF SchemaMatchesRecord, FinishedMeansMigrated
  <1> QED BY <1>1, <1>2, <1>3 DEF MigrateInv

(* A runner that changes only its own stage, and neither takes a row nor     *)
(* reports success, disturbs nothing.                                        *)
LEMMA OwnStage ==
  ASSUME MigrateInv, NEW r \in Runners, NEW new \in Stages \ {"commit", "done"},
         stage' = [stage EXCEPT ![r] = new], UNCHANGED <<recorded, executions, file, applied>>,
         tableExists' \in BOOLEAN,
         new \in InTransaction \cup {"next"} => stage[r] \in InTransaction \cup {"next"},
         new \in InTransaction => file[r] =< Known[r]
  PROVE  MigrateInv'
  <1>1. MigrateTypeOK /\ \A s \in Runners : RunnerInv(s)
    BY DEF MigrateInv
  <1>2. \A s \in Runners : stage'[s] = IF s = r THEN new ELSE stage[s]
    BY <1>1 DEF MigrateTypeOK
  <1>3. MigrateTypeOK'
    BY <1>1 DEF MigrateTypeOK
  <1>4. ASSUME NEW s \in Runners PROVE RunnerInv(s)'
    BY <1>1, <1>2 DEF RunnerInv
  <1>5. SchemaMatchesRecord' /\ FinishedMeansMigrated'
    BY <1>2 DEF MigrateInv, SchemaMatchesRecord, FinishedMeansMigrated
  <1> QED BY <1>3, <1>4, <1>5 DEF MigrateInv

(* A commit records the file after all those before it, and once. *)
LEMMA ApplyKeepsInv ==
  ASSUME MigrateInv, NEW r \in Runners, stage[r] = "commit", Apply(r),
         UNCHANGED <<tableExists, applied>>,
         \/ stage' = [stage EXCEPT ![r] = "next"] /\ file' = [file EXCEPT ![r] = @ + 1]
         \/ stage' = [stage EXCEPT ![r] = "failed"] /\ file' = file
  PROVE  MigrateInv'
  <1> DEFINE f == file[r]
  <1>1. MigrateTypeOK /\ \A s \in Runners : RunnerInv(s)
    BY DEF MigrateInv
  <1>2. f \in 1 .. Files /\ f \notin recorded /\ 1 .. f - 1 \subseteq recorded
    BY <1>1, FilesAssumption DEF MigrateTypeOK, RunnerInv, InTransaction
  <1>3. recorded' = recorded \cup {f} /\ executions' = [executions EXCEPT ![f] = @ + 1]
    BY DEF Apply
  <1>4. MigrateTypeOK'
    <2>1. stage' \in [Runners -> Stages]
      BY <1>1 DEF MigrateTypeOK, Stages
    <2>2. file' \in [Runners -> 1 .. Files + 1]
      <3>1. f + 1 \in 1 .. Files + 1
        BY <1>2, FilesAssumption
      <3>2. file \in [Runners -> 1 .. Files + 1]
        BY <1>1 DEF MigrateTypeOK
      <3> QED BY <3>1, <3>2
    <2>4. recorded' \subseteq 1 .. Files
      BY <1>1, <1>2, <1>3 DEF MigrateTypeOK
    <2>5. executions' \in [1 .. Files -> Nat]
      <3>1. executions \in [1 .. Files -> Nat]
        BY <1>1 DEF MigrateTypeOK
      <3>2. executions[f] + 1 \in Nat
        BY <1>2, <3>1
      <3> HIDE DEF f
      <3> QED BY <1>2, <1>3, <3>1, <3>2
    <2>3. applied' \in [Runners -> SUBSET (1 .. Files)] /\ tableExists' \in BOOLEAN
      BY <1>1 DEF MigrateTypeOK
    <2> QED BY <2>1, <2>2, <2>3, <2>4, <2>5 DEF MigrateTypeOK
  <1>5. \A s \in Runners \ {r} : stage'[s] = stage[s] /\ file'[s] = file[s]
    BY <1>1 DEF MigrateTypeOK
  <1>6. RunnerInv(r)'
    <2>1. applied'[r] \subseteq recorded'
      BY <1>1, <1>3 DEF RunnerInv
    <2>2. stage'[r] = "next" => file'[r] - 1 = f
      BY <1>1, <1>2 DEF MigrateTypeOK
    <2>3. 1 .. f \subseteq recorded'
      BY <1>2, <1>3
    <2>4. stage'[r] \in {"next", "failed"}
      BY <1>1 DEF MigrateTypeOK
    <2> QED BY <2>1, <2>2, <2>3, <2>4 DEF RunnerInv, InTransaction
  <1>7. ASSUME NEW s \in Runners \ {r} PROVE RunnerInv(s)'
    <2>1. RunnerInv(s) /\ stage'[s] = stage[s] /\ file'[s] = file[s] /\ applied'[s] = applied[s]
      BY <1>1, <1>5
    <2>2. stage[s] = "commit" => file[s] # f
      BY <1>1 DEF RunnerInv
    <2>3. stage'[r] # "commit"
      BY <1>1 DEF MigrateTypeOK
    <2>4. stage'[s] = "commit" =>
            \A t \in Runners \ {s} : stage'[t] = "commit" => file'[t] # file'[s]
      BY <1>5, <2>1, <2>3 DEF RunnerInv
    <2>5. stage'[s] = "commit" => file'[s] \notin recorded'
      BY <1>3, <2>1, <2>2 DEF RunnerInv
    <2>6. /\ applied'[s] \subseteq recorded'
          /\ stage'[s] \in InTransaction \cup {"next"} => 1 .. file'[s] - 1 \subseteq recorded'
          /\ stage'[s] \in InTransaction => file'[s] =< Known[s]
      BY <1>3, <2>1 DEF RunnerInv
    <2> QED BY <2>4, <2>5, <2>6 DEF RunnerInv
  <1>8. SchemaMatchesRecord'
    <2>1. SchemaMatchesRecord
      BY DEF MigrateInv
    <2>2. ASSUME NEW g \in 1 .. Files PROVE executions'[g] = IF g \in recorded' THEN 1 ELSE 0
      <3>1. executions[g] = IF g \in recorded THEN 1 ELSE 0
        BY <2>1 DEF SchemaMatchesRecord
      <3>2. executions'[g] = IF g = f THEN executions[g] + 1 ELSE executions[g]
        BY <1>1, <1>2, <1>3 DEF MigrateTypeOK
      <3> QED BY <1>2, <1>3, <3>1, <3>2
    <2>3. ASSUME NEW g \in recorded' PROVE 1 .. g \subseteq recorded'
      <3>1. CASE g \in recorded
        BY <1>3, <2>1, <3>1 DEF SchemaMatchesRecord
      <3>2. CASE g = f
        BY <1>2, <1>3, <3>2
      <3> QED BY <1>3, <3>1, <3>2
    <2> QED BY <2>2, <2>3 DEF SchemaMatchesRecord
  <1>9. FinishedMeansMigrated'
    <2>1. ASSUME NEW s \in Runners, stage'[s] = "done" PROVE 1 .. Known[s] \subseteq recorded'
      <3>1. stage[s] = "done"
        BY <1>1, <2>1 DEF MigrateTypeOK
      <3> QED BY <1>3, <3>1 DEF MigrateInv, FinishedMeansMigrated
    <2> QED BY <2>1 DEF FinishedMeansMigrated
  <1> QED BY <1>4, <1>6, <1>7, <1>8, <1>9 DEF MigrateInv

(* Every step of a runner keeps the invariant. *)
LEMMA MigrateInvStep == MigrateInv /\ [MigrateNext]_migrateVars => MigrateInv'
  <1> SUFFICES ASSUME MigrateInv, [MigrateNext]_migrateVars PROVE MigrateInv'
    OBVIOUS
  <1>1. MigrateTypeOK /\ \A s \in Runners : RunnerInv(s)
    BY DEF MigrateInv
  <1>2. CASE UNCHANGED migrateVars
    BY <1>2 DEF migrateVars, MigrateInv, MigrateTypeOK, RunnerInv, SchemaMatchesRecord,
       FinishedMeansMigrated
  <1>3. ASSUME NEW r \in Runners, MigrateStep(r) PROVE MigrateInv'
    <2>1. CASE EnsureSchemaMigrations(r)
      BY <2>1, OwnStage DEF EnsureSchemaMigrations, Stages, InTransaction
    <2>2. CASE LoadApplied(r)
      <3>1. MigrateTypeOK'
        <4>1. 1 \in 1 .. Files + 1
          BY FilesAssumption
        <4> QED BY <1>1, <2>2, <4>1 DEF LoadApplied, MigrateTypeOK, Stages
      <3>2. \A s \in Runners : /\ s # r => stage'[s] = stage[s] /\ file'[s] = file[s]
                                           /\ applied'[s] = applied[s]
                               /\ s = r => stage'[s] = "next" /\ file'[s] = 1
                                           /\ applied'[s] = recorded
        BY <1>1, <2>2 DEF LoadApplied, MigrateTypeOK
      <3>3. recorded' = recorded /\ executions' = executions
        BY <2>2 DEF LoadApplied
      <3>4. ASSUME NEW s \in Runners PROVE RunnerInv(s)'
        BY <1>1, <3>2, <3>3 DEF RunnerInv, InTransaction
      <3>5. SchemaMatchesRecord' /\ FinishedMeansMigrated'
        BY <3>2, <3>3 DEF MigrateInv, SchemaMatchesRecord, FinishedMeansMigrated
      <3> QED BY <3>1, <3>4, <3>5 DEF MigrateInv
    <2>3. CASE SkipApplied(r)
      <3>1. file[r] \in 1 .. Files /\ file[r] + 1 \in 1 .. Files + 1
        BY <1>1, <2>3, FilesAssumption DEF SkipApplied, MigrateTypeOK
      <3>2. MigrateTypeOK'
        BY <1>1, <2>3, <3>1 DEF SkipApplied, MigrateTypeOK
      <3>3. \A s \in Runners : file'[s] = IF s = r THEN file[s] + 1 ELSE file[s]
        BY <1>1, <2>3 DEF SkipApplied, MigrateTypeOK
      <3>4. 1 .. file[r] \subseteq recorded
        BY <1>1, <2>3, <3>1 DEF SkipApplied, RunnerInv
      <3>5. stage' = stage /\ recorded' = recorded /\ applied' = applied /\ executions' = executions
        BY <2>3 DEF SkipApplied
      <3>6. RunnerInv(r)'
        <4>1. file'[r] - 1 = file[r] /\ stage'[r] = "next"
          BY <2>3, <3>1, <3>3, <3>5 DEF SkipApplied
        <4> QED BY <1>1, <3>4, <3>5, <4>1 DEF RunnerInv, InTransaction
      <3>7. ASSUME NEW s \in Runners \ {r} PROVE RunnerInv(s)'
        <4>1. stage[r] # "commit" /\ file'[s] = file[s]
          BY <2>3, <3>3 DEF SkipApplied
        <4> QED BY <1>1, <3>3, <3>5, <4>1 DEF RunnerInv, InTransaction
      <3>8. SchemaMatchesRecord' /\ FinishedMeansMigrated'
        BY <3>5 DEF MigrateInv, SchemaMatchesRecord, FinishedMeansMigrated
      <3> QED BY <3>2, <3>6, <3>7, <3>8 DEF MigrateInv
    <2>4. CASE Begin(r)
      BY <1>1, <2>4, OwnStage DEF Begin, Stages, InTransaction, MigrateTypeOK
    <2>5. CASE Finish(r)
      <3>1. MigrateTypeOK'
        <4>1. 1 \in 1 .. Files + 1
          BY FilesAssumption
        <4> QED BY <1>1, <2>5, <4>1 DEF Finish, MigrateTypeOK, Stages
      <3>2. \A s \in Runners : /\ s # r => stage'[s] = stage[s] /\ file'[s] = file[s]
                                           /\ applied'[s] = applied[s]
                               /\ s = r => stage'[s] = "done" /\ applied'[s] = {}
        BY <1>1, <2>5 DEF Finish, MigrateTypeOK
      <3>3. recorded' = recorded /\ executions' = executions
        BY <2>5 DEF Finish
      <3>4. ASSUME NEW s \in Runners PROVE RunnerInv(s)'
        BY <1>1, <3>2, <3>3 DEF RunnerInv, InTransaction
      <3>5. 1 .. Known[r] \subseteq recorded
        <4>1. 1 .. file[r] - 1 \subseteq recorded
          BY <1>1, <2>5 DEF Finish, RunnerInv
        <4>2. file[r] \in 1 .. Files + 1 /\ Known[r] \in 0 .. Files /\ file[r] > Known[r]
          BY <1>1, <2>5, FilesAssumption DEF Finish, MigrateTypeOK
        <4>3. Known[r] =< file[r] - 1 /\ Known[r] \in Int /\ file[r] \in Int
          BY <4>2, FilesAssumption
        <4> QED BY <4>1, <4>3
      <3>6. SchemaMatchesRecord' /\ FinishedMeansMigrated'
        BY <3>2, <3>3, <3>5 DEF MigrateInv, SchemaMatchesRecord, FinishedMeansMigrated
      <3> QED BY <3>1, <3>4, <3>6 DEF MigrateInv
    <2>6. CASE Execute(r)
      BY <1>1, <2>6, OwnStage DEF Execute, Stages, InTransaction, MigrateTypeOK, RunnerInv
    <2>7. CASE InsertRow(r)
      <3>1. MigrateTypeOK'
        BY <1>1, <2>7 DEF InsertRow, MigrateTypeOK, Stages
      <3>2. \A s \in Runners : stage'[s] = IF s = r THEN "commit" ELSE stage[s]
        BY <1>1, <2>7 DEF InsertRow, MigrateTypeOK
      <3>3. UNCHANGED <<recorded, executions, file, applied>> /\ stage[r] = "record" /\ RowIsFree(r)
        BY <2>7 DEF InsertRow
      <3>4. ASSUME NEW s \in Runners PROVE RunnerInv(s)'
        BY <1>1, <3>2, <3>3 DEF RunnerInv, RowIsFree, InTransaction
      <3>5. SchemaMatchesRecord' /\ FinishedMeansMigrated'
        BY <3>2, <3>3 DEF MigrateInv, SchemaMatchesRecord, FinishedMeansMigrated
      <3> QED BY <3>1, <3>4, <3>5 DEF MigrateInv
    <2>8. CASE Commit(r)
      BY <2>8, ApplyKeepsInv DEF Commit
    <2>9. CASE Fail(r)
      BY <1>1, <2>9, OwnStage DEF Fail, Stages, InTransaction, MigrateTypeOK
    <2>10. CASE CommitUnseen(r)
      BY <2>10, ApplyKeepsInv DEF CommitUnseen
    <2>11. CASE RunAgain(r)
      BY <1>1, <2>11, OwnStage DEF RunAgain, Stages, InTransaction, MigrateTypeOK
    <2> QED BY <1>3, <2>1, <2>2, <2>3, <2>4, <2>5, <2>6, <2>7, <2>8, <2>9, <2>10, <2>11
            DEF MigrateStep
  <1> QED BY <1>2, <1>3 DEF MigrateNext

-----------------------------------------------------------------------------
(* The inductive invariant holds in every state. *)
THEOREM MigrationsAreInOrder == MigrateSpec => []MigrateInv
  BY MigrateInvInit, MigrateInvStep, PTL DEF MigrateSpec

(* The variables of the runners keep their types. *)
THEOREM MigrateTypeCorrect == MigrateSpec => []MigrateTypeOK
  <1>1. MigrateInv => MigrateTypeOK
    BY DEF MigrateInv
  <1> QED BY <1>1, MigrationsAreInOrder, PTL

(* Every file is executed once or never, as its row says, and in order,      *)
(* although applyMigration does not ask again what was loaded at the start.  *)
THEOREM SchemaIsRecorded == MigrateSpec => []SchemaMatchesRecord
  <1>1. MigrateInv => SchemaMatchesRecord
    BY DEF MigrateInv
  <1> QED BY <1>1, MigrationsAreInOrder, PTL

(* A runner that reports success has left no file of its release out. *)
THEOREM SuccessMeansMigrated == MigrateSpec => []FinishedMeansMigrated
  <1>1. MigrateInv => FinishedMeansMigrated
    BY DEF MigrateInv
  <1> QED BY <1>1, MigrationsAreInOrder, PTL
=============================================================================
