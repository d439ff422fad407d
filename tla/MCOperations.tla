----------------------------- MODULE MCOperations -----------------------------
(***************************************************************************)
(* Migration runners bring the schema up to date; then the retention       *)
(* workers run, or the analyses.  These two share no table with each other *)
(* and take nothing from the runners but that they are done, so one of     *)
(* them is chosen at the start and the other rests.                        *)
(***************************************************************************)
EXTENDS Migrate, Retention, SecurityFindings, TLC

CONSTANTS newRelease, oldRelease

VARIABLE workload

operationsVars == <<migrateVars, retentionVars, findingVars, workload>>

MCRunners == {newRelease, oldRelease}
MCKnown == [r \in MCRunners |-> IF r = newRelease THEN Files ELSE Files - 1]

(* Every property of the run is a safety property. *)
Interchangeable == Permutations(Purgers) \cup Permutations(Analysts)

MCTargetOf ==
  [r \in Rows |-> CASE r = 1 -> "messages" [] r = 2 -> "ledger" [] OTHER -> "snapshots"]

(* Two findings, in the same order for everybody, one of them alone, and a   *)
(* third one.                                                               *)
MCInputs ==
  {[f \in {"openclaw_enable_public_ip", "enable_project_oslogin"} |->
      f = "openclaw_enable_public_ip"],
   [f \in {"enable_project_oslogin"} |-> FALSE],
   [f \in {"wgeasy_ui_port"} |-> "default"]}

ThirdFinding == DefaultPort([f \in {"wgeasy_ui_port"} |-> "default"])

MCReads ==
  {[order |-> "desc", filter |-> Statuses], [order |-> "asc", filter |-> {"open"}]}

OperationsInit ==
  /\ MigrateInit /\ RetentionInit /\ FindingsInit
  /\ \/ workload = "retention" /\ \A f, g \in AllFindings :
                                     Precedes(f, g) => serial[f] < serial[g]
     \/ workload = "analysis" /\ backend = "postgres" /\ \A f \in ThirdFinding : serial[f] = 3
     \/ workload = "list" /\ backend = "postgres"

Migrated == \A r \in Runners : stage[r] = "done"

(* Analyses overlap when they write two findings; when a list of those that  *)
(* are open among three is read, they follow one another within a minute.    *)
FindingsBound ==
  /\ workload = "analysis" => \A a \in Analysts : analysis'[a].todo \cap ThirdFinding = {}
  /\ workload = "list" =>
       /\ minute' = 0
       /\ reader'.pc # "idle" => reader'.filter = {"open"}
       /\ Cardinality({a \in Analysts : analysis'[a].pc = "write"}) =< 1

OperationsNext ==
  \/ MigrateNext /\ UNCHANGED <<retentionVars, findingVars, workload>>
  \/ /\ Migrated /\ workload = "retention" /\ RetentionNext
     /\ UNCHANGED <<migrateVars, findingVars, workload>>
  \/ /\ Migrated /\ workload \in {"analysis", "list"} /\ FindingsNext
     /\ FindingsBound
     /\ UNCHANGED <<migrateVars, retentionVars, workload>>

OperationsSpec == OperationsInit /\ [][OperationsNext]_operationsVars
=============================================================================
