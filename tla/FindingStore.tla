----------------------------- MODULE FindingStore -----------------------------
(***************************************************************************)
(* What the store of security findings promises: an analysis adds what it  *)
(* has found, or reopens what was resolved, in one step, and nothing else  *)
(* but the operators changes a status.  The in-memory store does it under  *)
(* its mutex; the Postgres store implements it with row locks, as          *)
(* SecurityFindings shows.                                                 *)
(***************************************************************************)
EXTENDS Integers

CONSTANTS Findings, Absent, Times

VARIABLE table   \* the row of each finding, or Absent

Statuses == {"open", "acknowledged", "resolved"}

(* A row that is detected again keeps its status, unless it was resolved. *)
Detected(row, time) ==
  [status |-> IF row = Absent \/ row.status = "resolved" THEN "open" ELSE row.status,
   last |-> time]

StoreInit == table = [f \in Findings |-> Absent]

Analysis(found, time) ==
  table' = [f \in Findings |-> IF f \in found THEN Detected(table[f], time) ELSE table[f]]

(* Operators acknowledge and resolve findings. *)
Triage(f, status) ==
  /\ table[f] # Absent /\ status \in Statuses \ {"open"}
  /\ table' = [table EXCEPT ![f].status = status]

StoreNext ==
  \/ \E found \in SUBSET Findings, time \in Times : Analysis(found, time)
  \/ \E f \in Findings, status \in Statuses : Triage(f, status)

StoreSpec == StoreInit /\ [][StoreNext]_table
=============================================================================
