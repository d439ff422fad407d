--------------------------- MODULE OperationsProofs ---------------------------
(***************************************************************************)
(* Migrations, retention and analyses as they run in one system: each part *)
(* behaves as its own specification says, so what the other proof modules  *)
(* show of a part holds of the whole.                                      *)
(***************************************************************************)
EXTENDS MCOperations, MigrateProofs, RetentionProofs, FindingProofs

(* A step of the system is a step of one of the parts, or changes none. *)
LEMMA OperationsStep ==
  ASSUME [OperationsNext]_operationsVars
  PROVE  /\ [MigrateNext]_migrateVars
         /\ [RetentionNext]_retentionVars
         /\ [FindingsNext]_findingVars
  <1>1. CASE OperationsNext
    BY <1>1 DEF OperationsNext
  <1>2. CASE UNCHANGED operationsVars
    BY <1>2 DEF operationsVars
  <1> QED BY <1>1, <1>2

(* The system keeps to the specification of each part. *)
THEOREM PartsKeepTheirSpecifications ==
  OperationsSpec => MigrateSpec /\ RetentionSpec /\ FindingsSpec
  <1>1. OperationsInit => MigrateInit /\ RetentionInit /\ FindingsInit
    BY DEF OperationsInit
  <1> QED BY <1>1, OperationsStep, PTL DEF OperationsSpec, MigrateSpec, RetentionSpec, FindingsSpec

(* What the parts promise by themselves they promise together: the schema is *)
(* as it is recorded, every deletion is accounted for, no finding is missed  *)
(* without a cause, the infra status never goes back and analyses have the   *)
(* effect of one after the other.                                            *)
THEOREM OperationsAreSafe ==
  OperationsSpec => /\ [](SchemaMatchesRecord /\ FinishedMeansMigrated)
                    /\ []PurgesAreAudited /\ LatestStatusNeverGoesBack
                    /\ []MissedFindingHasACause /\ ImplementsFindingStore
  BY PartsKeepTheirSpecifications, SchemaIsRecorded, SuccessMeansMigrated, PurgesAreReported,
     LatestStatusIsKept, MissedFindingsHaveCauses, AnalysesAreSerializable, PTL
=============================================================================
