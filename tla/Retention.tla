------------------------------ MODULE Retention ------------------------------
(***************************************************************************)
(* Retention (internal/retention and the statements it calls): on every    *)
(* tick a worker goes through four targets in a fixed order, has the       *)
(* oldest expired rows of each compacted or deleted, and writes one audit  *)
(* row with the counts at the end.                                         *)
(*                                                                         *)
(* A statement of Postgres chooses its rows in a snapshot of its own and   *)
(* changes them when it has locked them, so other workers and producers    *)
(* act in between.  The in-memory store holds its mutex for both, and      *)
(* belongs to one process.                                                 *)
(***************************************************************************)
EXTENDS Integers, FiniteSets, FiniteSetsExt

CONSTANTS
  Purgers,       \* the retention workers, one per process
  Rows,          \* rows of the four tables, numbered as their ids are
  TargetOf,      \* the target that each row belongs to
  Initially,     \* the rows that are there at the start
  Window,        \* how long rows are kept
  MaxRowsPerRun, \* the LIMIT of each statement
  MaxClock       \* the bound on the clock

ASSUME RetentionAssumption ==
  /\ Rows \subseteq Nat /\ Initially \subseteq Rows
  /\ IsFiniteSet(Rows) /\ IsFiniteSet(Purgers)
  /\ Window \in Nat /\ MaxRowsPerRun \in Nat \ {0} /\ MaxClock \in Nat

VARIABLES
  clock,
  backend,  \* which store the processes use
  rows,     \* whether a row exists or has been compacted or deleted
  at,       \* the time that its age is counted from
  run,      \* the run of each worker
  audited,  \* how many rows the audit rows report, of messages and of others
  failed    \* history: a run that had deleted rows ended without audit row

retentionVars == <<clock, backend, rows, at, run, audited, failed>>

Targets == <<"messages", "audits", "snapshots", "ledger">>
RowsOf(target) == {r \in Rows : TargetOf[r] = target}

(* Producers send the time of messages and snapshots; the others are stamped *)
(* when they are written or settled, but an event in memory when it is first *)
(* seen.                                                                     *)
SentLate ==
  RowsOf("messages") \cup RowsOf("snapshots")
    \cup (IF backend = "memory" THEN RowsOf("ledger") ELSE {})

Counts == [compacted : Nat, deleted : Nat]
NoCounts == [compacted |-> 0, deleted |-> 0]

Runs ==
  [pc : {"idle", "choose", "purge", "audit"}, target : 1 .. 4, dry : BOOLEAN,
   started : 0 .. MaxClock, chosen : SUBSET Rows, count : Counts]

Resting ==
  [pc |-> "idle", target |-> 1, dry |-> FALSE, started |-> 0, chosen |-> {},
   count |-> NoCounts]

RetentionInit ==
  /\ clock = 0
  /\ backend \in {"postgres", "memory"}
  /\ rows = [r \in Rows |-> IF r \in Initially THEN "kept" ELSE "absent"]
  /\ at = [r \in Rows |-> 0]
  /\ run = [w \in Purgers |-> Resting]
  /\ audited = NoCounts
  /\ failed = FALSE

-----------------------------------------------------------------------------
Kept(target) == {r \in RowsOf(target) : rows[r] = "kept"}

(* The order of time, and of ids for equal times. *)
Before(r, s) == at[r] < at[s] \/ (at[r] = at[s] /\ r < s)

(* GetLatestStatus reads this snapshot; the in-memory store takes the first *)
(* of several with the same time.                                           *)
Latest ==
  {r \in Kept("snapshots") : \A s \in Kept("snapshots") \ {r} :
     IF backend = "postgres" THEN Before(s, r) ELSE at[s] < at[r] \/ (at[s] = at[r] /\ r < s)}

(* Mutant: the latest snapshot is looked for among those that are not old. *)
ExpiredButRecent(target, started) ==
  {r \in Kept(target) : at[r] < started - Window}
    \ (IF target = "snapshots" THEN {r \in Latest : at[r] >= started - Window} ELSE {})

Expired(target, started) ==
  {r \in Kept(target) : at[r] < started - Window}
    \ (IF target = "snapshots" THEN Latest ELSE {})

(* The first rows up to the limit: oldest first in Postgres, in the order of *)
(* their ids or keys in memory.                                              *)
Candidates(target, started) ==
  LET expired == Expired(target, started)
      earlier(r) == {s \in expired : IF backend = "postgres" THEN Before(s, r) ELSE s < r}
  IN  {r \in expired : Cardinality(earlier(r)) < MaxRowsPerRun}

(* Mutant: the candidates are counted, not the rows that are deleted. *)
WithCandidates(r, chosen) ==
  IF Targets[r.target] = "messages"
    THEN [r EXCEPT !.count.compacted = @ + Cardinality(chosen)]
    ELSE [r EXCEPT !.count.deleted = @ + Cardinality(chosen)]

(* The count that the statement returns.  Compaction does not ask again      *)
(* whether the payload is still there, so a message that another worker      *)
(* compacts meanwhile is counted by both.                                    *)
WithPurged(r, chosen) ==
  IF Targets[r.target] = "messages"
    THEN [r EXCEPT !.count.compacted = @ + Cardinality(chosen)]
    ELSE [r EXCEPT !.count.deleted = @ + Cardinality(chosen \cap Kept(Targets[r.target]))]

Purge(chosen) ==
  rows' = [r \in Rows |-> IF r \in chosen /\ rows[r] = "kept" THEN "purged" ELSE rows[r]]

(* Mutant: the last target is not the end. *)
NextTargetUnbounded(r) ==
  [r EXCEPT !.pc = IF r.target = 4 THEN "audit" ELSE "choose",
            !.target = r.target + 1, !.chosen = {}]

NextTarget(r) ==
  [r EXCEPT !.pc = IF r.target = 4 THEN "audit" ELSE "choose",
            !.target = IF r.target = 4 THEN 4 ELSE r.target + 1,
            !.chosen = {}]

-----------------------------------------------------------------------------
StartRun(w, dry) ==
  /\ run[w].pc = "idle"
  /\ backend = "memory" => \A v \in Purgers \ {w} : run[v].pc = "idle"
  /\ run' = [run EXCEPT ![w] = [Resting EXCEPT !.pc = "choose", !.dry = dry,
                                               !.started = clock]]
  /\ UNCHANGED <<clock, backend, rows, at, audited, failed>>

(* A dry run counts the candidates and reports that it affected none. *)
CountCandidates(w) ==
  /\ run[w].pc = "choose" /\ run[w].dry
  /\ run' = [run EXCEPT ![w] = NextTarget(run[w])]
  /\ UNCHANGED <<clock, backend, rows, at, audited, failed>>

Choose(w) ==
  /\ run[w].pc = "choose" /\ ~run[w].dry /\ backend = "postgres"
  /\ run' = [run EXCEPT ![w].pc = "purge",
                        ![w].chosen = Candidates(Targets[run[w].target], run[w].started)]
  /\ UNCHANGED <<clock, backend, rows, at, audited, failed>>

PurgeChosen(w) ==
  /\ run[w].pc = "purge"
  /\ Purge(run[w].chosen)
  /\ run' = [run EXCEPT ![w] = NextTarget(WithPurged(run[w], run[w].chosen))]
  /\ UNCHANGED <<clock, backend, at, audited, failed>>

PurgeInMemory(w) ==
  LET chosen == Candidates(Targets[run[w].target], run[w].started)
  IN  /\ run[w].pc = "choose" /\ ~run[w].dry /\ backend = "memory"
      /\ Purge(chosen)
      /\ run' = [run EXCEPT ![w] = NextTarget(WithPurged(run[w], chosen))]
      /\ UNCHANGED <<clock, backend, at, audited, failed>>

AuditRun(w) ==
  /\ run[w].pc = "audit"
  /\ audited' = [compacted |-> audited.compacted + run[w].count.compacted,
                 deleted |-> audited.deleted + run[w].count.deleted]
  /\ run' = [run EXCEPT ![w] = Resting]
  /\ UNCHANGED <<clock, backend, rows, at, failed>>

(* A call fails, after the server applied it or before, or the process ends. *)
(* What the run had done stays done and is reported nowhere.                 *)
FailRun(w) ==
  /\ run[w].pc # "idle" /\ backend = "postgres"
  /\ \/ /\ failed' = (failed \/ run[w].count # NoCounts)
        /\ UNCHANGED rows
     \/ /\ run[w].pc = "purge"
        /\ Purge(run[w].chosen)
        /\ failed' = TRUE
  /\ run' = [run EXCEPT ![w] = Resting]
  /\ UNCHANGED <<clock, backend, at, audited>>

(* A producer's message or snapshot is stored, an audit row is written or an *)
(* event is settled.                                                         *)
Arrive(r, time) ==
  /\ rows[r] = "absent"
  /\ backend = "memory" =>
       \A s \in RowsOf(TargetOf[r]) : s < r => rows[s] # "absent"
  /\ time = clock \/ (r \in SentLate /\ time < clock)
  /\ rows' = [rows EXCEPT ![r] = "kept"]
  /\ at' = [at EXCEPT ![r] = time]
  /\ UNCHANGED <<clock, backend, run, audited, failed>>

Pass ==
  /\ clock < MaxClock
  /\ clock' = clock + 1
  /\ UNCHANGED <<backend, rows, at, run, audited, failed>>

RetentionNext ==
  \/ \E w \in Purgers : \/ \E dry \in BOOLEAN : StartRun(w, dry)
                        \/ CountCandidates(w) \/ Choose(w) \/ PurgeChosen(w)
                        \/ PurgeInMemory(w) \/ AuditRun(w) \/ FailRun(w)
  \/ \E r \in Rows, time \in 0 .. MaxClock : Arrive(r, time)
  \/ Pass

RetentionSpec == RetentionInit /\ [][RetentionNext]_retentionVars

-----------------------------------------------------------------------------
RetentionTypeOK ==
  /\ clock \in 0 .. MaxClock
  /\ backend \in {"postgres", "memory"}
  /\ rows \in [Rows -> {"absent", "kept", "purged"}]
  /\ at \in [Rows -> 0 .. MaxClock]
  /\ run \in [Purgers -> Runs]
  /\ audited \in Counts
  /\ failed \in BOOLEAN

(* The infra status that readers see is never lost and never goes back to an *)
(* older snapshot, whatever late snapshots arrive while several workers      *)
(* delete (docs/operations.md: infra retention preserves the latest one).    *)
LatestStatusNeverGoesBack ==
  [][\A r \in Latest : \E s \in Latest' : at'[s] >= at[r]]_retentionVars

Gone == {r \in Rows : rows[r] = "purged"}
Reported(field) == audited[field] + MapThenSumSet(LAMBDA w : run[w].count[field], Purgers)

(* Unless a run failed, the audit rows and the reports under way account for *)
(* every row that is gone; in Postgres compactions may be counted more than  *)
(* once, in memory nothing is.                                               *)
PurgesAreAudited ==
  LET messages == Gone \cap RowsOf("messages")
  IN  ~failed => /\ Reported("deleted") = Cardinality(Gone \ messages)
                 /\ Reported("compacted") >= Cardinality(messages)
                 /\ backend = "memory" => Reported("compacted") = Cardinality(messages)
=============================================================================
