------------------------------- MODULE Migrate -------------------------------
(***************************************************************************)
(* The migration runner (cmd/migrate).  Several may run at once, of the    *)
(* same release or of an earlier one that knows only the first files; one  *)
(* that fails or crashes is started again.                                 *)
(*                                                                         *)
(* A file and its row in schema_migrations are one transaction, but which  *)
(* files need it is read once, before the first.  What a file contains is  *)
(* left out: its statements may wait for a lock, and may fail at any time. *)
(***************************************************************************)
EXTENDS Integers

CONSTANTS
  Runners,   \* runs of the program
  Files,     \* number of migration files, in the order of their names
  Known      \* how many of them each runner has

ASSUME FilesAssumption == Files \in Nat /\ Known \in [Runners -> 0 .. Files]

VARIABLES
  tableExists,  \* schema_migrations exists
  recorded,     \* its rows
  executions,   \* how often the content of each file has been committed
  stage,        \* the call each runner makes next
  file,         \* the file it works on
  applied       \* what it loaded at the start

migrateVars == <<tableExists, recorded, executions, stage, file, applied>>

Stages == {"ensure", "load", "next", "execute", "record", "commit", "done", "failed"}

MigrateInit ==
  /\ tableExists = FALSE
  /\ recorded = {}
  /\ executions = [f \in 1 .. Files |-> 0]
  /\ stage = [r \in Runners |-> "ensure"]
  /\ file = [r \in Runners |-> 1]
  /\ applied = [r \in Runners |-> {}]

-----------------------------------------------------------------------------
(* CREATE TABLE IF NOT EXISTS. *)
EnsureSchemaMigrations(r) ==
  /\ stage[r] = "ensure"
  /\ tableExists' = TRUE
  /\ stage' = [stage EXCEPT ![r] = "load"]
  /\ UNCHANGED <<recorded, executions, file, applied>>

LoadApplied(r) ==
  /\ stage[r] = "load"
  /\ applied' = [applied EXCEPT ![r] = recorded]
  /\ file' = [file EXCEPT ![r] = 1]
  /\ stage' = [stage EXCEPT ![r] = "next"]
  /\ UNCHANGED <<tableExists, recorded, executions>>

(* Mutant: the end of the list is not looked at. *)
SkipAppliedUnbounded(r) ==
  /\ stage[r] = "next"
  /\ file[r] \in applied[r] \/ file[r] > Known[r]
  /\ file' = [file EXCEPT ![r] = @ + 1]
  /\ UNCHANGED <<tableExists, recorded, executions, stage, applied>>

SkipApplied(r) ==
  /\ stage[r] = "next" /\ file[r] =< Known[r]
  /\ file[r] \in applied[r]
  /\ file' = [file EXCEPT ![r] = @ + 1]
  /\ UNCHANGED <<tableExists, recorded, executions, stage, applied>>

Begin(r) ==
  /\ stage[r] = "next" /\ file[r] =< Known[r]
  /\ file[r] \notin applied[r]
  /\ stage' = [stage EXCEPT ![r] = "execute"]
  /\ UNCHANGED <<tableExists, recorded, executions, file, applied>>

Finish(r) ==
  /\ stage[r] = "next" /\ file[r] > Known[r]
  /\ stage' = [stage EXCEPT ![r] = "done"]
  /\ file' = [file EXCEPT ![r] = 1]
  /\ applied' = [applied EXCEPT ![r] = {}]
  /\ UNCHANGED <<tableExists, recorded, executions>>

(* The content runs in the transaction. *)
Execute(r) ==
  /\ stage[r] = "execute"
  /\ stage' = [stage EXCEPT ![r] = "record"]
  /\ UNCHANGED <<tableExists, recorded, executions, file, applied>>

(* Mutant: no primary key, only what was loaded counts. *)
RowIsNotLoaded(r) == file[r] \notin applied[r]

(* The primary key: an uncommitted row of the same file makes the INSERT wait *)
(* and a committed one makes it fail.                                        *)
RowIsFree(r) ==
  /\ file[r] \notin recorded
  /\ \A s \in Runners \ {r} : stage[s] = "commit" => file[s] # file[r]

InsertRow(r) ==
  /\ stage[r] = "record"
  /\ RowIsFree(r)
  /\ stage' = [stage EXCEPT ![r] = "commit"]
  /\ UNCHANGED <<tableExists, recorded, executions, file, applied>>

Apply(r) ==
  /\ recorded' = recorded \cup {file[r]}
  /\ executions' = [executions EXCEPT ![file[r]] = @ + 1]

Commit(r) ==
  /\ stage[r] = "commit"
  /\ Apply(r)
  /\ stage' = [stage EXCEPT ![r] = "next"]
  /\ file' = [file EXCEPT ![r] = @ + 1]
  /\ UNCHANGED <<tableExists, applied>>

(* Mutant: a migration that fails is logged and the next one is taken. *)
FailAndGoOn(r) ==
  /\ stage[r] \in {"execute", "record"}
  /\ stage' = [stage EXCEPT ![r] = "next"]
  /\ file' = [file EXCEPT ![r] = @ + 1]
  /\ UNCHANGED <<tableExists, recorded, executions, applied>>

(* The program exits and the server rolls back: a statement that fails, the *)
(* conflict of two rows, a lost connection or a crash.                      *)
Fail(r) ==
  /\ stage[r] \notin {"done", "failed"}
  /\ stage' = [stage EXCEPT ![r] = "failed"]
  /\ UNCHANGED <<tableExists, recorded, executions, file, applied>>

(* The connection is lost after the COMMIT was sent. *)
CommitUnseen(r) ==
  /\ stage[r] = "commit"
  /\ Apply(r)
  /\ stage' = [stage EXCEPT ![r] = "failed"]
  /\ UNCHANGED <<tableExists, file, applied>>

RunAgain(r) ==
  /\ stage[r] = "failed"
  /\ stage' = [stage EXCEPT ![r] = "ensure"]
  /\ UNCHANGED <<tableExists, recorded, executions, file, applied>>

MigrateStep(r) ==
  \/ EnsureSchemaMigrations(r) \/ LoadApplied(r)
  \/ SkipApplied(r) \/ Begin(r) \/ Finish(r)
  \/ Execute(r) \/ InsertRow(r) \/ Commit(r)
  \/ Fail(r) \/ CommitUnseen(r) \/ RunAgain(r)

MigrateNext == \E r \in Runners : MigrateStep(r)

MigrateSpec == MigrateInit /\ [][MigrateNext]_migrateVars

-----------------------------------------------------------------------------
MigrateTypeOK ==
  /\ tableExists \in BOOLEAN
  /\ recorded \subseteq 1 .. Files
  /\ executions \in [1 .. Files -> Nat]
  /\ stage \in [Runners -> Stages]
  /\ file \in [Runners -> 1 .. Files + 1]
  /\ applied \in [Runners -> SUBSET (1 .. Files)]

(* However runners overlap, fail and run again, every file has been executed *)
(* exactly once or never, as its row says, and in the order of the names.    *)
SchemaMatchesRecord ==
  /\ \A f \in 1 .. Files : executions[f] = IF f \in recorded THEN 1 ELSE 0
  /\ \A f \in recorded : 1 .. f \subseteq recorded

(* A runner that reports success leaves every file it has applied. *)
FinishedMeansMigrated ==
  \A r \in Runners : stage[r] = "done" => 1 .. Known[r] \subseteq recorded
=============================================================================
