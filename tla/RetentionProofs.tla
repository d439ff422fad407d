---------------------------- MODULE RetentionProofs ----------------------------
(***************************************************************************)
(* The latest infra snapshot is never deleted and every deletion is        *)
(* accounted for, with any number of workers, rows and producers, in both  *)
(* stores.                                                                 *)
(***************************************************************************)
EXTENDS Retention, FiniteSetTheorems, TLAPS

(* The strict order by which a store looks for its latest snapshot. *)
Outranks(r, s) ==
  at[s] < at[r] \/ (at[s] = at[r] /\ IF backend = "postgres" THEN s < r ELSE r < s)

(* What a worker is about to purge is no longer, or not yet, the latest     *)
(* snapshot, and no row that is still to come.                              *)
ChosenAreOld ==
  \A w \in Purgers : /\ run[w].chosen \cap Latest = {}
                     /\ \A r \in run[w].chosen : rows[r] # "absent"

(* The inductive invariant. *)
RetentionInv == RetentionTypeOK /\ ChosenAreOld

-----------------------------------------------------------------------------
(* Latest in terms of that order. *)
LEMMA LatestIsNewest ==
  ASSUME RetentionTypeOK
  PROVE  Latest = {r \in Kept("snapshots") : \A s \in Kept("snapshots") \ {r} : Outranks(r, s)}
  BY DEF Latest, Outranks, Before

(* It is a total order. *)
LEMMA OutranksIsAnOrder ==
  ASSUME RetentionTypeOK
  PROVE  /\ \A r, s \in Rows : ~(Outranks(r, s) /\ Outranks(s, r))
         /\ \A r, s, t \in Rows : Outranks(r, s) /\ Outranks(s, t) => Outranks(r, t)
         /\ \A r, s \in Rows : r # s => Outranks(r, s) \/ Outranks(s, r)
         /\ \A r, s \in Rows : Outranks(r, s) => at[r] >= at[s]
  <1>1. \A r \in Rows : r \in Nat /\ at[r] \in Int
    BY RetentionAssumption DEF RetentionTypeOK
  <1> QED BY <1>1 DEF Outranks

(* Where there are snapshots there is a latest one: the sets of snapshots   *)
(* newer than a given one have a least member.                              *)
LEMMA LatestIsThere == RetentionTypeOK /\ Kept("snapshots") # {} => Latest # {}
  <1> SUFFICES ASSUME RetentionTypeOK, Kept("snapshots") # {} PROVE Latest # {}
    OBVIOUS
  <1> DEFINE snapshots == Kept("snapshots")
             above(r) == {s \in snapshots : Outranks(s, r)}
             aboves == {above(r) : r \in snapshots}
  <1>1. snapshots \subseteq Rows
    BY DEF Kept, RowsOf
  <1>2. IsWellFoundedOn(StrictSubsetOrdering(Rows), SUBSET Rows)
    BY RetentionAssumption, FS_FiniteSubsetsOfFinite, FS_StrictSubsetOrderingWellFounded
  <1>3. aboves \subseteq SUBSET Rows /\ aboves # {}
    BY <1>1
  <1>4. \E T \in aboves : \A U \in aboves : ~(<<U, T>> \in StrictSubsetOrdering(Rows))
    <2> HIDE DEF aboves
    <2> QED BY <1>2, <1>3, WFMin
  <1>5. PICK r \in snapshots :
          \A s \in snapshots : ~(<<above(s), above(r)>> \in StrictSubsetOrdering(Rows))
    BY <1>4
  <1>6. ASSUME NEW s \in snapshots, Outranks(s, r) PROVE FALSE
    <2>1. above(s) \subseteq above(r) /\ s \in above(r) /\ s \notin above(s)
      BY <1>1, <1>6, OutranksIsAnOrder
    <2>2. above(s) \in SUBSET Rows /\ above(r) \in SUBSET Rows
      BY <1>1
    <2>3. <<above(s), above(r)>> \in StrictSubsetOrdering(Rows)
      <3> HIDE DEF above
      <3> QED BY <2>1, <2>2 DEF StrictSubsetOrdering
    <2> QED BY <1>5, <2>3
  <1>7. r \in Latest
    BY <1>1, <1>6, OutranksIsAnOrder, LatestIsNewest
  <1> QED BY <1>7

-----------------------------------------------------------------------------
(* The counts of a run stay numbers. *)
LEMMA PurgedRunTypes ==
  ASSUME NEW r \in Runs, NEW chosen \in SUBSET Rows
  PROVE  WithPurged(r, chosen) \in Runs
  <1>0. \A S \in SUBSET Rows : Cardinality(S) \in Nat
    BY RetentionAssumption, FS_Subset, FS_CardinalityType
  <1> DEFINE all == Cardinality(chosen)
             kept == Cardinality(chosen \cap Kept(Targets[r.target]))
  <1>1. all \in Nat /\ kept \in Nat
    BY <1>0
  <1>2. WithPurged(r, chosen) = IF Targets[r.target] = "messages"
                                  THEN [r EXCEPT !.count.compacted = @ + all]
                                  ELSE [r EXCEPT !.count.deleted = @ + kept]
    BY DEF WithPurged
  <1> HIDE DEF all, kept
  <1>3. [r EXCEPT !.count.compacted = @ + all] \in Runs
    BY <1>1 DEF Runs, Counts
  <1>4. [r EXCEPT !.count.deleted = @ + kept] \in Runs
    BY <1>1 DEF Runs, Counts
  <1> QED BY <1>2, <1>3, <1>4

(* The target of a run stays one of the four, and a new one has no choice yet. *)
LEMMA RunTypes ==
  ASSUME NEW r \in Runs, NEW chosen \in SUBSET Rows
  PROVE  NextTarget(r) \in Runs /\ NextTarget(WithPurged(r, chosen)) \in Runs
                               /\ NextTarget(r).chosen = {}
                               /\ NextTarget(WithPurged(r, chosen)).chosen = {}
  <1>1. ASSUME NEW q \in Runs PROVE NextTarget(q) \in Runs /\ NextTarget(q).chosen = {}
    <2> DEFINE last == q.target = 4
    <2>1. /\ (IF last THEN "audit" ELSE "choose") \in {"idle", "choose", "purge", "audit"}
          /\ (IF last THEN 4 ELSE q.target + 1) \in 1 .. 4
          /\ {} \in SUBSET Rows
      BY DEF Runs
    <2> QED BY <2>1 DEF NextTarget, Runs
  <1>2. WithPurged(r, chosen) \in Runs
    BY PurgedRunTypes
  <1> QED BY <1>1, <1>2

(* A worker at rest is typed and has chosen nothing. *)
LEMMA RestingTypes == Resting \in Runs /\ Resting.chosen = {}
  BY RetentionAssumption DEF Resting, Runs, Counts, NoCounts

(* Purging other rows leaves the latest snapshot what it is. *)
LEMMA PurgeKeepsLatest ==
  ASSUME RetentionTypeOK, RetentionTypeOK', NEW chosen \in SUBSET Rows, chosen \cap Latest = {},
         Purge(chosen), UNCHANGED <<at, backend>>
  PROVE  Latest' = Latest /\ \A r \in Rows : rows[r] # "absent" => rows'[r] # "absent"
  <1>1. Kept("snapshots")' = Kept("snapshots") \ chosen
    BY DEF Purge, Kept, RowsOf, RetentionTypeOK
  <1>2. Latest' = {r \in Kept("snapshots")' : \A s \in Kept("snapshots")' \ {r} : Outranks(r, s)}
    BY DEF Latest, Outranks, Before
  <1>3. Kept("snapshots") \subseteq Rows
    BY DEF Kept, RowsOf
  <1>4. Latest \subseteq Latest'
    BY <1>1, <1>2, LatestIsNewest
  <1>5. ASSUME NEW r \in Latest' PROVE r \in Latest
    <2>1. PICK l \in Latest : TRUE
      BY <1>1, <1>2, LatestIsThere
    <2>2. CASE r # l
      <3>1. r \in Rows /\ l \in Rows /\ Outranks(r, l) /\ Outranks(l, r)
        BY <1>1, <1>2, <1>3, <1>5, <2>1, <2>2, LatestIsNewest
      <3> QED BY <3>1, OutranksIsAnOrder
    <2> QED BY <2>1, <2>2
  <1>6. \A r \in Rows : rows[r] # "absent" => rows'[r] # "absent"
    BY DEF Purge
  <1> QED BY <1>4, <1>5, <1>6

(* No statement chooses the latest snapshot. *)
LEMMA CandidatesAreOld ==
  ASSUME RetentionTypeOK, NEW w \in Purgers
  PROVE  LET chosen == Candidates(Targets[run[w].target], run[w].started)
         IN  /\ chosen \in SUBSET Rows /\ chosen \cap Latest = {}
             /\ \A r \in chosen : rows[r] # "absent"
  <1> DEFINE target == Targets[run[w].target]
             expired == Expired(target, run[w].started)
  <1>1. Candidates(target, run[w].started) \subseteq expired
    BY DEF Candidates
  <1>2. expired \subseteq Kept(target) /\ (target = "snapshots" => expired \cap Latest = {})
    BY DEF Expired
  <1>3. target # "snapshots" => Kept(target) \cap Latest = {}
    BY DEF Kept, RowsOf, Latest
  <1>4. Kept(target) \subseteq Rows /\ \A r \in Kept(target) : rows[r] # "absent"
    BY DEF Kept, RowsOf
  <1> HIDE DEF target, expired
  <1>5. Candidates(target, run[w].started) \cap Latest = {}
    BY <1>1, <1>2, <1>3
  <1> QED BY <1>1, <1>2, <1>4, <1>5 DEF target

-----------------------------------------------------------------------------
(* Nothing has been chosen at the start. *)
LEMMA RetentionInvInit == RetentionInit => RetentionInv
  <1> SUFFICES ASSUME RetentionInit PROVE RetentionInv
    OBVIOUS
  <1>1. RetentionTypeOK
    <2>1. clock \in 0 .. MaxClock /\ at \in [Rows -> 0 .. MaxClock]
      BY RetentionAssumption DEF RetentionInit
    <2>2. audited \in Counts
      BY DEF RetentionInit, Counts, NoCounts
    <2>3. /\ backend \in {"postgres", "memory"} /\ failed \in BOOLEAN
          /\ rows \in [Rows -> {"absent", "kept", "purged"}]
      BY DEF RetentionInit
    <2>4. run \in [Purgers -> Runs]
      BY RestingTypes DEF RetentionInit
    <2> QED BY <2>1, <2>2, <2>3, <2>4 DEF RetentionTypeOK
  <1>2. ChosenAreOld
    BY RestingTypes DEF RetentionInit, ChosenAreOld
  <1> QED BY <1>1, <1>2 DEF RetentionInv

(* A step that changes no row and of the runs at most what one has chosen. *)
LEMMA RunStep ==
  ASSUME RetentionInv, NEW w \in Purgers, NEW new \in Runs, run' = [run EXCEPT ![w] = new],
         UNCHANGED <<clock, backend, rows, at>>, audited' \in Counts, failed' \in BOOLEAN,
         new.chosen \cap Latest = {}, \A r \in new.chosen : rows[r] # "absent"
  PROVE  RetentionInv' /\ Latest' = Latest
  <1>1. RetentionTypeOK'
    BY DEF RetentionInv, RetentionTypeOK
  <1>2. Latest' = Latest
    BY DEF Latest, Kept, Before
  <1>3. \A v \in Purgers : run'[v] = IF v = w THEN new ELSE run[v]
    BY DEF RetentionInv, RetentionTypeOK
  <1>4. ChosenAreOld'
    BY <1>2, <1>3 DEF RetentionInv, ChosenAreOld
  <1> QED BY <1>1, <1>2, <1>4 DEF RetentionInv

(* A step that purges what a worker has chosen, and ends that choice. *)
LEMMA PurgeStep ==
  ASSUME RetentionInv, NEW w \in Purgers, NEW new \in Runs, run' = [run EXCEPT ![w] = new],
         NEW chosen \in SUBSET Rows, chosen \cap Latest = {}, Purge(chosen),
         UNCHANGED <<clock, backend, at>>, audited' \in Counts, failed' \in BOOLEAN,
         new.chosen = {}
  PROVE  RetentionInv' /\ Latest' = Latest
  <1>1. RetentionTypeOK'
    BY DEF RetentionInv, RetentionTypeOK, Purge
  <1>2. Latest' = Latest /\ \A r \in Rows : rows[r] # "absent" => rows'[r] # "absent"
    BY <1>1, PurgeKeepsLatest DEF RetentionInv
  <1>3. \A v \in Purgers : /\ run'[v] = IF v = w THEN new ELSE run[v]
                           /\ run[v].chosen \subseteq Rows
    BY DEF RetentionInv, RetentionTypeOK, Runs
  <1>4. ChosenAreOld'
    BY <1>2, <1>3 DEF RetentionInv, ChosenAreOld
  <1> QED BY <1>1, <1>2, <1>4 DEF RetentionInv

(* No step of a worker changes which snapshot is the latest. *)
LEMMA WorkerStep ==
  ASSUME RetentionInv, NEW w \in Purgers,
         \/ \E dry \in BOOLEAN : StartRun(w, dry)
         \/ CountCandidates(w) \/ Choose(w) \/ PurgeChosen(w)
         \/ PurgeInMemory(w) \/ AuditRun(w) \/ FailRun(w)
  PROVE  RetentionInv' /\ Latest' = Latest /\ at' = at
  <1>0. RetentionTypeOK /\ ChosenAreOld /\ run[w] \in Runs /\ audited \in Counts /\ failed \in BOOLEAN
    BY DEF RetentionInv, RetentionTypeOK
  <1>1. ASSUME NEW dry \in BOOLEAN, StartRun(w, dry) PROVE RetentionInv' /\ Latest' = Latest /\ at' = at
    <2> DEFINE new == [Resting EXCEPT !.pc = "choose", !.dry = dry, !.started = clock]
    <2>1. new \in Runs /\ new.chosen = {}
      BY <1>0, RestingTypes DEF Runs, RetentionTypeOK
    <2>2. run' = [run EXCEPT ![w] = new] /\ UNCHANGED <<clock, backend, rows, at, audited, failed>>
      BY <1>1 DEF StartRun
    <2> HIDE DEF new
    <2> QED BY <1>0, <2>1, <2>2, RunStep
  <1>2. CASE CountCandidates(w)
    <2>1. NextTarget(run[w]) \in Runs /\ NextTarget(run[w]).chosen = {}
      BY <1>0, RunTypes
    <2> QED BY <1>0, <1>2, <2>1, RunStep DEF CountCandidates
  <1>3. CASE Choose(w)
    <2> DEFINE chosen == Candidates(Targets[run[w].target], run[w].started)
               new == [run[w] EXCEPT !.pc = "purge", !.chosen = chosen]
    <2>1. chosen \in SUBSET Rows /\ chosen \cap Latest = {} /\ \A r \in chosen : rows[r] # "absent"
      BY <1>0, CandidatesAreOld
    <2>2. run' = [run EXCEPT ![w].pc = "purge", ![w].chosen = chosen]
          /\ UNCHANGED <<clock, backend, rows, at, audited, failed>>
      BY <1>3 DEF Choose
    <2> HIDE DEF chosen
    <2>3. new \in Runs /\ new.chosen = chosen
      BY <1>0, <2>1 DEF Runs
    <2>4. run' = [run EXCEPT ![w] = new]
      BY <1>0, <2>2 DEF RetentionTypeOK, Runs
    <2> HIDE DEF new
    <2> QED BY <1>0, <2>1, <2>2, <2>3, <2>4, RunStep
  <1>4. CASE PurgeChosen(w)
    <2> DEFINE chosen == run[w].chosen
               new == NextTarget(WithPurged(run[w], run[w].chosen))
    <2>1. chosen \in SUBSET Rows /\ chosen \cap Latest = {}
      BY <1>0 DEF Runs, ChosenAreOld
    <2>2. new \in Runs /\ new.chosen = {}
      BY <1>0, <2>1, RunTypes
    <2>3. run' = [run EXCEPT ![w] = new] /\ Purge(chosen) /\ UNCHANGED <<clock, backend, at, audited, failed>>
      BY <1>4 DEF PurgeChosen
    <2> HIDE DEF new, chosen
    <2> QED BY <1>0, <2>1, <2>2, <2>3, PurgeStep
  <1>5. CASE PurgeInMemory(w)
    <2> DEFINE chosen == Candidates(Targets[run[w].target], run[w].started)
               new == NextTarget(WithPurged(run[w], chosen))
    <2>1. chosen \in SUBSET Rows /\ chosen \cap Latest = {}
      BY <1>0, CandidatesAreOld
    <2>2. run' = [run EXCEPT ![w] = new] /\ Purge(chosen) /\ UNCHANGED <<clock, backend, at, audited, failed>>
      BY <1>5 DEF PurgeInMemory
    <2> HIDE DEF chosen
    <2>3. new \in Runs /\ new.chosen = {}
      BY <1>0, <2>1, RunTypes
    <2> HIDE DEF new
    <2> QED BY <1>0, <2>1, <2>2, <2>3, PurgeStep
  <1>6. CASE AuditRun(w)
    <2>1. audited' \in Counts
      BY <1>0, <1>6 DEF AuditRun, Counts, Runs
    <2> QED BY <1>0, <1>6, <2>1, RestingTypes, RunStep DEF AuditRun
  <1>7. CASE FailRun(w)
    <2>1. /\ run' = [run EXCEPT ![w] = Resting]
          /\ UNCHANGED <<clock, backend, at, audited>> /\ failed' \in BOOLEAN
          /\ rows' = rows \/ Purge(run[w].chosen)
      BY <1>0, <1>7 DEF FailRun
    <2>2. run[w].chosen \in SUBSET Rows /\ run[w].chosen \cap Latest = {}
      BY <1>0 DEF Runs, ChosenAreOld
    <2>3. CASE rows' = rows
      BY <1>0, <2>1, <2>3, RestingTypes, RunStep
    <2>4. CASE Purge(run[w].chosen)
      BY <1>0, <2>1, <2>2, <2>4, RestingTypes, PurgeStep
    <2> QED BY <2>1, <2>3, <2>4
  <1> QED BY <1>1, <1>2, <1>3, <1>4, <1>5, <1>6, <1>7

(* A row that comes, however old, takes the place of the latest snapshot or *)
(* leaves it where it is.                                                   *)
LEMMA ArriveStep ==
  ASSUME RetentionInv, NEW r \in Rows, NEW time \in 0 .. MaxClock, Arrive(r, time)
  PROVE  /\ RetentionInv'
         /\ Latest \subseteq Kept("snapshots")' /\ \A l \in Latest : at'[l] = at[l]
  <1>0. RetentionTypeOK /\ ChosenAreOld
    BY DEF RetentionInv
  <1>1. /\ rows[r] = "absent" /\ rows' = [rows EXCEPT ![r] = "kept"] /\ at' = [at EXCEPT ![r] = time]
        /\ UNCHANGED <<clock, backend, run, audited, failed>>
    BY DEF Arrive
  <1>2. RetentionTypeOK'
    BY <1>0, <1>1 DEF RetentionTypeOK
  <1>3. /\ Kept("snapshots") \subseteq Kept("snapshots")' /\ r \notin Kept("snapshots")
        /\ Kept("snapshots") \subseteq Rows
        /\ \A s \in Rows \ {r} : at'[s] = at[s] /\ rows'[s] = rows[s]
        /\ Kept("snapshots")' \subseteq Kept("snapshots") \cup {r}
    BY <1>0, <1>1 DEF Kept, RowsOf, RetentionTypeOK
  <1>4. Latest' \subseteq Latest \cup {r}
    <2> SUFFICES ASSUME NEW x \in Latest', x # r PROVE x \in Latest
      OBVIOUS
    <2>1. x \in Kept("snapshots") /\ \A s \in Kept("snapshots")' \ {x} : Outranks(x, s)'
      BY <1>3 DEF Latest, Outranks, Before
    <2>2. \A s \in Kept("snapshots") \ {x} : Outranks(x, s)
      BY <1>1, <1>3, <2>1 DEF Outranks
    <2> QED BY <1>0, <2>1, <2>2, LatestIsNewest
  <1>5. ChosenAreOld'
    <2>1. \A w \in Purgers : \A c \in run[w].chosen : c # r /\ c \in Rows
      BY <1>0, <1>1 DEF ChosenAreOld, RetentionTypeOK, Runs
    <2> QED BY <1>0, <1>1, <1>3, <1>4, <2>1 DEF ChosenAreOld
  <1>6. Latest \subseteq Kept("snapshots")
    BY DEF Latest
  <1> QED BY <1>2, <1>3, <1>5, <1>6 DEF RetentionInv

(* What a step does to the latest snapshot. *)
LEMMA RetentionStep ==
  ASSUME RetentionInv, [RetentionNext]_retentionVars
  PROVE  /\ RetentionInv'
         /\ Latest \subseteq Kept("snapshots")' /\ \A l \in Latest : at'[l] = at[l]
  <1>0. Latest' \subseteq Kept("snapshots")'
    BY DEF Latest
  <1>1. ASSUME NEW w \in Purgers,
               \/ \E dry \in BOOLEAN : StartRun(w, dry)
               \/ CountCandidates(w) \/ Choose(w) \/ PurgeChosen(w)
               \/ PurgeInMemory(w) \/ AuditRun(w) \/ FailRun(w)
        PROVE  /\ RetentionInv'
               /\ Latest \subseteq Kept("snapshots")' /\ \A l \in Latest : at'[l] = at[l]
    BY <1>0, <1>1, WorkerStep
  <1>2. ASSUME NEW r \in Rows, NEW time \in 0 .. MaxClock, Arrive(r, time)
        PROVE  /\ RetentionInv'
               /\ Latest \subseteq Kept("snapshots")' /\ \A l \in Latest : at'[l] = at[l]
    BY <1>2, ArriveStep
  <1>3. CASE Pass \/ UNCHANGED retentionVars
    <2>1. /\ UNCHANGED <<backend, rows, at, run, audited, failed>>
          /\ clock' \in 0 .. MaxClock
      BY <1>3, RetentionAssumption DEF Pass, retentionVars, RetentionInv, RetentionTypeOK
    <2>2. Latest' = Latest
      BY <2>1 DEF Latest, Kept, Before
    <2>3. RetentionTypeOK' /\ ChosenAreOld'
      BY <2>1, <2>2 DEF RetentionInv, RetentionTypeOK, ChosenAreOld
    <2> QED BY <1>0, <2>1, <2>2, <2>3 DEF RetentionInv
  <1> QED BY <1>1, <1>2, <1>3 DEF RetentionNext

(* The runs, their counts and the rows keep their types. *)
THEOREM RetentionTypesHold == RetentionSpec => []RetentionTypeOK
  <1>1. RetentionInv /\ [RetentionNext]_retentionVars => RetentionInv'
    BY RetentionStep
  <1>2. RetentionInv => RetentionTypeOK
    BY DEF RetentionInv
  <1> QED BY <1>1, <1>2, RetentionInvInit, PTL DEF RetentionSpec

(* The infra status is never lost and never goes back, although a statement *)
(* chooses its rows some time before it deletes them, other workers delete  *)
(* in between and late snapshots arrive.                                    *)
THEOREM LatestStatusIsKept == RetentionSpec => LatestStatusNeverGoesBack
  <1>1. RetentionInv /\ [RetentionNext]_retentionVars => RetentionInv'
    BY RetentionStep
  <1>2. (RetentionTypeOK /\ Kept("snapshots") # {} => Latest # {})'
    BY LatestIsThere, PTL
  <1>3. RetentionInv /\ [RetentionNext]_retentionVars
          => [\A r \in Latest : \E s \in Latest' : at'[s] >= at[r]]_retentionVars
    <2> SUFFICES ASSUME RetentionInv, [RetentionNext]_retentionVars, NEW r \in Latest
                 PROVE  \E s \in Latest' : at'[s] >= at[r]
      OBVIOUS
    <2>1. RetentionTypeOK' /\ r \in Kept("snapshots")' /\ at'[r] = at[r]
      BY RetentionStep DEF RetentionInv
    <2>2. PICK s \in Latest' : TRUE
      BY <1>2, <2>1
    <2>3. s = r \/ at'[r] <= at'[s]
      BY <2>1, <2>2 DEF Latest, Before, RetentionTypeOK, Kept, RowsOf
    <2>4. at'[r] \in Int
      BY <2>1 DEF RetentionTypeOK, Kept, RowsOf
    <2> QED BY <2>1, <2>2, <2>3, <2>4
  <1> QED BY <1>1, <1>3, RetentionInvInit, PTL DEF RetentionSpec, LatestStatusNeverGoesBack

-----------------------------------------------------------------------------
(* g[s] is the sum of f over s, for every s within S: what the fold of the  *)
(* community modules computes, one element after the other.                 *)
AddsUp(g, f, S) ==
  \A s \in SUBSET S :
    g[s] = IF s = {} THEN 0 ELSE LET x == CHOOSE x \in s : TRUE IN f[x] + g[s \ {x}]

IsSum(g, f, S) == f \in [S -> Nat] /\ g \in [SUBSET S -> Nat] /\ AddsUp(g, f, S)
TakesOut(g, f, S) == \A s \in SUBSET S : \A y \in s : g[s] = f[y] + g[s \ {y}]

(* Where a statement about subsets of a finite set fails, it fails for one  *)
(* of them and holds for all those within it.                               *)
LEMMA SmallestSubset ==
  ASSUME NEW S, IsFiniteSet(S), NEW T \in SUBSET (SUBSET S), T # {}
  PROVE  \E s \in T : \A u \in SUBSET s : u # s => u \notin T
  <1>1. IsWellFoundedOn(StrictSubsetOrdering(S), SUBSET S)
    BY FS_FiniteSubsetsOfFinite, FS_StrictSubsetOrderingWellFounded
  <1>2. PICK s \in T : \A u \in T : ~(<<u, s>> \in StrictSubsetOrdering(S))
    BY <1>1, WFMin
  <1>3. ASSUME NEW u \in SUBSET s, u # s PROVE u \notin T
    BY <1>2, <1>3 DEF StrictSubsetOrdering
  <1> QED BY <1>2, <1>3

(* There is such a g: one that is right for all sets with fewer elements is *)
(* made right for those with one more.                                      *)
LEMMA SumIsThere ==
  ASSUME NEW S, IsFiniteSet(S), NEW f \in [S -> Nat]
  PROVE  \E g \in [SUBSET S -> Nat] : AddsUp(g, f, S)
  <1> DEFINE pick(s) == CHOOSE x \in s : TRUE
             next(g, s) == IF s = {} THEN 0 ELSE f[pick(s)] + g[s \ {pick(s)}]
             right(g, n) == \A s \in SUBSET S : Cardinality(s) <= n => g[s] = next(g, s)
             wrong == {s \in SUBSET S : ~\E g \in [SUBSET S -> Nat] : right(g, Cardinality(s))}
  <1>1. \A s \in SUBSET S : IsFiniteSet(s) /\ Cardinality(s) \in Nat
    BY FS_Subset, FS_CardinalityType
  <1>2. \A s \in SUBSET S : s # {} => /\ pick(s) \in s /\ s \ {pick(s)} \in SUBSET S
                                      /\ Cardinality(s \ {pick(s)}) = Cardinality(s) - 1
    BY <1>1, FS_RemoveElement
  <1> HIDE DEF pick
  <1>3. ASSUME wrong # {} PROVE FALSE
    <2>1. PICK s \in wrong : \A u \in SUBSET s : u # s => u \notin wrong
      <3>1. wrong \in SUBSET (SUBSET S)
        OBVIOUS
      <3> HIDE DEF wrong
      <3> QED BY <1>3, <3>1, SmallestSubset
    <2>2. CASE s = {}
      <3> DEFINE zero == [u \in SUBSET S |-> 0]
      <3>1. \A u \in SUBSET S : Cardinality(u) <= 0 => u = {}
        BY <1>1, FS_EmptySet
      <3>2. Cardinality(s) = 0
        BY <2>2, FS_EmptySet
      <3>3. zero \in [SUBSET S -> Nat] /\ right(zero, 0)
        BY <3>1
      <3> QED BY <2>1, <3>2, <3>3
    <2>3. CASE s # {}
      <3> DEFINE n == Cardinality(s)
      <3>1. n \in Nat /\ n - 1 \in Nat
        <4>1. n \in Nat /\ Cardinality(s \ {pick(s)}) \in Nat /\ Cardinality(s \ {pick(s)}) = n - 1
          BY <1>1, <1>2, <2>3
        <4> QED BY <4>1
      <3>2. PICK g \in [SUBSET S -> Nat] : right(g, n - 1)
        <4>1. s \ {pick(s)} \in SUBSET S /\ s \ {pick(s)} \notin wrong
          BY <1>2, <2>1, <2>3
        <4> QED BY <1>2, <2>3, <4>1
      <3> DEFINE h == [u \in SUBSET S |-> IF Cardinality(u) < n THEN g[u] ELSE next(g, u)]
      <3>3. \A u \in SUBSET S : next(g, u) \in Nat
        BY <1>2
      <3>4. h \in [SUBSET S -> Nat]
        BY <3>3
      <3>5. right(h, n)
        <4> SUFFICES ASSUME NEW u \in SUBSET S, Cardinality(u) <= n PROVE h[u] = next(h, u)
          OBVIOUS
        <4>1. h[u] = next(g, u)
          BY <1>1, <3>1, <3>2
        <4>2. u # {} => h[u \ {pick(u)}] = g[u \ {pick(u)}]
          BY <1>1, <1>2, <3>1
        <4> QED BY <4>1, <4>2
      <3> QED BY <2>1, <3>4, <3>5
    <2> QED BY <2>2, <2>3
  <1>4. PICK g \in [SUBSET S -> Nat] : right(g, Cardinality(S))
    BY <1>3
  <1>5. \A s \in SUBSET S : Cardinality(s) <= Cardinality(S)
    BY FS_Subset
  <1> QED BY <1>4, <1>5 DEF AddsUp, pick

(* Any element may be taken out first. *)
LEMMA SumTakesOut ==
  ASSUME NEW S, IsFiniteSet(S), NEW f, NEW g, IsSum(g, f, S)
  PROVE  TakesOut(g, f, S)
  <1> DEFINE wrong == {s \in SUBSET S : \E y \in s : g[s] # f[y] + g[s \ {y}]}
  <1> SUFFICES ASSUME wrong # {} PROVE FALSE
    BY DEF TakesOut
  <1>0. f \in [S -> Nat] /\ g \in [SUBSET S -> Nat] /\ AddsUp(g, f, S)
    BY DEF IsSum
  <1>1. PICK s \in wrong : \A u \in SUBSET s : u # s => u \notin wrong
    <2>1. wrong \in SUBSET (SUBSET S)
      OBVIOUS
    <2> HIDE DEF wrong
    <2> QED BY <2>1, SmallestSubset
  <1>2. PICK y \in s : g[s] # f[y] + g[s \ {y}]
    BY <1>1
  <1> DEFINE x == CHOOSE x \in s : TRUE
  <1>3. s \in SUBSET S /\ x \in s /\ g[s] = f[x] + g[s \ {x}]
    BY <1>0, <1>1, <1>2 DEF AddsUp
  <1> HIDE DEF x
  <1>4. x # y
    BY <1>2, <1>3
  <1>5. g[s \ {x}] = f[y] + g[(s \ {x}) \ {y}]
    <2>1. s \ {x} \in SUBSET s /\ s \ {x} # s /\ s \ {x} \in SUBSET S /\ y \in s \ {x}
      BY <1>2, <1>3, <1>4
    <2> QED BY <1>1, <2>1
  <1>6. g[s \ {y}] = f[x] + g[(s \ {y}) \ {x}]
    <2>1. s \ {y} \in SUBSET s /\ s \ {y} # s /\ s \ {y} \in SUBSET S /\ x \in s \ {y}
      BY <1>2, <1>3, <1>4
    <2> QED BY <1>1, <2>1
  <1>7. (s \ {x}) \ {y} = (s \ {y}) \ {x}
    OBVIOUS
  <1> DEFINE rest == (s \ {y}) \ {x}
  <1>8. f[x] \in Nat /\ f[y] \in Nat /\ g[rest] \in Nat
    BY <1>0, <1>2, <1>3
  <1> HIDE DEF rest
  <1>9. g[s] = f[x] + (f[y] + g[rest]) /\ g[s \ {y}] = f[x] + g[rest]
    BY <1>3, <1>5, <1>6, <1>7 DEF rest
  <1>10. g[s] = f[y] + g[s \ {y}]
    BY <1>8, <1>9
  <1> QED BY <1>2, <1>10

(* A sum depends on nothing but what it adds up. *)
LEMMA SumDependsOnTerms ==
  ASSUME NEW S, IsFiniteSet(S), NEW f, NEW e, NEW g, NEW h,
         AddsUp(g, f, S), AddsUp(h, e, S), NEW s \in SUBSET S, \A x \in s : f[x] = e[x]
  PROVE  g[s] = h[s]
  <1> DEFINE wrong == {u \in SUBSET s : g[u] # h[u]}
  <1> SUFFICES ASSUME wrong # {} PROVE FALSE
    OBVIOUS
  <1>1. PICK u \in wrong : \A v \in SUBSET u : v # u => v \notin wrong
    <2>1. wrong \in SUBSET (SUBSET S)
      OBVIOUS
    <2> HIDE DEF wrong
    <2> QED BY <2>1, SmallestSubset
  <1> DEFINE x == CHOOSE x \in u : TRUE
  <1>2. CASE u = {}
    BY <1>1, <1>2 DEF AddsUp
  <1>3. CASE u # {}
    <2>1. u \in SUBSET S /\ x \in s /\ x \in u /\ u \ {x} \in SUBSET u /\ u \ {x} # u
      BY <1>1, <1>3
    <2>2. g[u] = f[x] + g[u \ {x}] /\ h[u] = e[x] + h[u \ {x}]
      BY <1>3, <2>1 DEF AddsUp
    <2> HIDE DEF x
    <2>3. g[u \ {x}] = h[u \ {x}]
      BY <1>1, <2>1
    <2> QED BY <1>1, <2>1, <2>2, <2>3
  <1> QED BY <1>2, <1>3

(* What the runs under way have counted. *)
CountOf(field) == [w \in Purgers |-> run[w].count[field]]

(* The reports are such a sum. *)
LEMMA ReportsAddUp ==
  RetentionTypeOK =>
    \A field \in {"compacted", "deleted"} :
      \E g \in [SUBSET Purgers -> Nat] : /\ AddsUp(g, CountOf(field), Purgers)
                                         /\ Reported(field) = audited[field] + g[Purgers]
  <1> SUFFICES ASSUME RetentionTypeOK, NEW field \in {"compacted", "deleted"}
               PROVE  \E g \in [SUBSET Purgers -> Nat] :
                        /\ AddsUp(g, CountOf(field), Purgers)
                        /\ Reported(field) = audited[field] + g[Purgers]
    OBVIOUS
  <1> DEFINE sum(g) == [s \in SUBSET Purgers |->
                          IF s = {} THEN 0
                          ELSE LET x == CHOOSE x \in s : TRUE
                               IN  run[x].count[field] + g[s \ {x}]]
             total == CHOOSE g : g = sum(g)
  <1>1. Reported(field) = audited[field] + total[Purgers]
    BY DEF Reported, MapThenSumSet, MapThenFoldSet
  <1>2. CountOf(field) \in [Purgers -> Nat]
    BY DEF CountOf, RetentionTypeOK, Runs, Counts
  <1>3. PICK g \in [SUBSET Purgers -> Nat] : AddsUp(g, CountOf(field), Purgers)
    BY <1>2, RetentionAssumption, SumIsThere
  <1>4. ASSUME NEW s \in SUBSET Purgers PROVE g[s] = sum(g)[s]
    BY <1>3, <1>4 DEF AddsUp, CountOf
  <1>5. g = sum(g)
    BY <1>4
  <1>6. total = sum(total)
    BY <1>5
  <1>7. AddsUp(total, CountOf(field), Purgers)
    BY <1>6 DEF AddsUp, CountOf
  <1>8. total[Purgers] = g[Purgers]
    BY <1>3, <1>7, RetentionAssumption, SumDependsOnTerms
  <1> QED BY <1>1, <1>3, <1>8

(* When the count of one worker changes, the reports change by it alone. *)
LEMMA ReportsChange ==
  ASSUME RetentionTypeOK, RetentionTypeOK', NEW w \in Purgers, NEW new \in Runs,
         run' = [run EXCEPT ![w] = new]
  PROVE  \A field \in {"compacted", "deleted"} : \E others \in Nat :
           /\ Reported(field) = audited[field] + (run[w].count[field] + others)
           /\ Reported(field)' = audited'[field] + (new.count[field] + others)
  <1>1. (RetentionTypeOK =>
           \A field \in {"compacted", "deleted"} :
             \E g \in [SUBSET Purgers -> Nat] : /\ AddsUp(g, CountOf(field), Purgers)
                                                /\ Reported(field) = audited[field] + g[Purgers])'
    BY ReportsAddUp, PTL
  <1> SUFFICES ASSUME NEW field \in {"compacted", "deleted"}
               PROVE  \E others \in Nat :
                        /\ Reported(field) = audited[field] + (run[w].count[field] + others)
                        /\ Reported(field)' = audited'[field] + (new.count[field] + others)
    OBVIOUS
  <1>2. PICK g \in [SUBSET Purgers -> Nat] : /\ AddsUp(g, CountOf(field), Purgers)
                                             /\ Reported(field) = audited[field] + g[Purgers]
    BY ReportsAddUp
  <1>3. PICK h \in [SUBSET Purgers -> Nat] : /\ AddsUp(h, CountOf(field)', Purgers)
                                             /\ Reported(field)' = audited'[field] + h[Purgers]
    BY <1>1 DEF AddsUp
  <1>4. /\ CountOf(field) \in [Purgers -> Nat] /\ CountOf(field)' \in [Purgers -> Nat]
        /\ CountOf(field)[w] = run[w].count[field] /\ CountOf(field)'[w] = new.count[field]
        /\ \A v \in Purgers \ {w} : CountOf(field)[v] = CountOf(field)'[v]
    BY DEF CountOf, RetentionTypeOK, Runs, Counts
  <1>5. IsFiniteSet(Purgers) /\ Purgers \in SUBSET Purgers
    BY RetentionAssumption
  <1>6. g[Purgers] = run[w].count[field] + g[Purgers \ {w}]
    <2> DEFINE counts == CountOf(field)
    <2>1. IsSum(g, counts, Purgers) /\ counts[w] = run[w].count[field]
      BY <1>2, <1>4 DEF IsSum
    <2> HIDE DEF counts
    <2>2. TakesOut(g, counts, Purgers)
      BY <1>5, <2>1, SumTakesOut
    <2> QED BY <1>5, <2>1, <2>2 DEF TakesOut
  <1>7. h[Purgers] = new.count[field] + h[Purgers \ {w}]
    <2> DEFINE counts == CountOf(field)'
    <2>1. IsSum(h, counts, Purgers) /\ counts[w] = new.count[field]
      BY <1>3, <1>4 DEF IsSum
    <2> HIDE DEF counts
    <2>2. TakesOut(h, counts, Purgers)
      BY <1>5, <2>1, SumTakesOut
    <2> QED BY <1>5, <2>1, <2>2 DEF TakesOut
  <1>8. g[Purgers \ {w}] = h[Purgers \ {w}]
    <2> DEFINE counts == CountOf(field)'
    <2>1. AddsUp(h, counts, Purgers) /\ \A v \in Purgers \ {w} : CountOf(field)[v] = counts[v]
      BY <1>3, <1>4
    <2>2. Purgers \ {w} \in SUBSET Purgers
      OBVIOUS
    <2> HIDE DEF counts
    <2> QED BY <1>2, <1>5, <2>1, <2>2, SumDependsOnTerms
  <1>9. g[Purgers \ {w}] \in Nat
    OBVIOUS
  <1> QED BY <1>2, <1>3, <1>6, <1>7, <1>8, <1>9

-----------------------------------------------------------------------------
(* A worker at rest has nothing to report, and one that is about to purge   *)
(* has chosen rows of one table, the one that its count is kept for; only    *)
(* Postgres lets others act in between.                                     *)
CountsBelong ==
  \A w \in Purgers :
    /\ run[w].pc = "idle" => run[w].count = NoCounts
    /\ run[w].pc = "purge" => /\ run[w].chosen \subseteq RowsOf(Targets[run[w].target])
                              /\ backend = "postgres"

CountsInv == CountsBelong /\ PurgesAreAudited

(* What is gone is counted apart for messages and for the other tables. *)
GoneMessages == Gone \cap RowsOf("messages")
GoneOthers == Gone \ GoneMessages

(* The numbers in question are numbers. *)
LEMMA CountsAreNumbers ==
  ASSUME RetentionTypeOK
  PROVE  /\ audited.compacted \in Nat /\ audited.deleted \in Nat
         /\ \A w \in Purgers : run[w].count.compacted \in Nat /\ run[w].count.deleted \in Nat
         /\ IsFiniteSet(GoneMessages) /\ Cardinality(GoneMessages) \in Nat
         /\ IsFiniteSet(GoneOthers) /\ Cardinality(GoneOthers) \in Nat
  <1>1. GoneMessages \subseteq Rows /\ GoneOthers \subseteq Rows
    BY DEF GoneMessages, GoneOthers, Gone
  <1>2. \A S \in SUBSET Rows : IsFiniteSet(S) /\ Cardinality(S) \in Nat
    BY RetentionAssumption, FS_Subset, FS_CardinalityType
  <1> QED BY <1>1, <1>2 DEF RetentionTypeOK, Runs, Counts

(* A step that deletes nothing and moves counts at most into the audit row. *)
LEMMA CountsMove ==
  ASSUME RetentionTypeOK, RetentionTypeOK', PurgesAreAudited, rows' = rows,
         NEW w \in Purgers, NEW new \in Runs, run' = [run EXCEPT ![w] = new],
         backend' = backend, failed' = FALSE => failed = FALSE,
         failed' = FALSE =>
           \A field \in {"compacted", "deleted"} :
             audited'[field] + new.count[field] = audited[field] + run[w].count[field]
  PROVE  PurgesAreAudited'
  <1> SUFFICES ASSUME ~failed'
               PROVE  /\ Reported("deleted")' = Cardinality(GoneOthers)'
                      /\ Reported("compacted")' >= Cardinality(GoneMessages)'
                      /\ backend = "memory" => Reported("compacted")' = Cardinality(GoneMessages)'
    BY DEF PurgesAreAudited, GoneMessages, GoneOthers
  <1>1. failed' = FALSE /\ failed = FALSE
    BY DEF RetentionTypeOK
  <1>2. /\ Reported("deleted") = Cardinality(GoneOthers)
        /\ Reported("compacted") >= Cardinality(GoneMessages)
        /\ backend = "memory" => Reported("compacted") = Cardinality(GoneMessages)
    BY <1>1 DEF PurgesAreAudited, GoneMessages, GoneOthers
  <1>3. /\ audited'.compacted + new.count.compacted = audited.compacted + run[w].count.compacted
        /\ audited'.deleted + new.count.deleted = audited.deleted + run[w].count.deleted
    BY <1>1
  <1>4. /\ new.count.compacted \in Nat /\ new.count.deleted \in Nat
        /\ audited'.compacted \in Nat /\ audited'.deleted \in Nat
    BY DEF Runs, Counts, RetentionTypeOK
  <1>5. Reported("deleted")' = Reported("deleted")
    <2>1. PICK others \in Nat :
            /\ Reported("deleted") = audited.deleted + (run[w].count.deleted + others)
            /\ Reported("deleted")' = audited'.deleted + (new.count.deleted + others)
      BY ReportsChange
    <2>2. audited.deleted \in Nat /\ run[w].count.deleted \in Nat
      BY CountsAreNumbers
    <2> QED BY <1>3, <1>4, <2>1, <2>2
  <1>6. Reported("compacted")' = Reported("compacted")
    <2>1. PICK others \in Nat :
            /\ Reported("compacted") = audited.compacted + (run[w].count.compacted + others)
            /\ Reported("compacted")' = audited'.compacted + (new.count.compacted + others)
      BY ReportsChange
    <2>2. audited.compacted \in Nat /\ run[w].count.compacted \in Nat
      BY CountsAreNumbers
    <2> QED BY <1>3, <1>4, <2>1, <2>2
  <1>7. GoneOthers' = GoneOthers /\ GoneMessages' = GoneMessages
    BY DEF GoneOthers, GoneMessages, Gone, RowsOf
  <1> QED BY <1>2, <1>5, <1>6, <1>7

(* Rows that are counted apart add up. *)
LEMMA DisjointUnion ==
  ASSUME NEW S, NEW T, IsFiniteSet(S), IsFiniteSet(T), S \cap T = {}
  PROVE  Cardinality(S \cup T) = Cardinality(S) + Cardinality(T)
  <1>1. Cardinality(S) \in Nat /\ Cardinality(T) \in Nat
    BY FS_CardinalityType
  <1>2. Cardinality(S \cup T) = Cardinality(S) + Cardinality(T) - Cardinality(S \cap T)
    BY FS_Union
  <1>3. Cardinality(S \cap T) = 0
    <2>1. Cardinality({}) = 0
      BY FS_EmptySet
    <2> QED BY <2>1, Zenon
  <1> QED BY <1>1, <1>2, <1>3

(* A statement deletes those of the chosen rows that are still kept. *)
LEMMA PurgedAreGone ==
  ASSUME RetentionTypeOK, NEW target, NEW chosen \in SUBSET RowsOf(target), Purge(chosen)
  PROVE  /\ Gone' = Gone \cup (chosen \cap Kept(target))
         /\ Gone \cap (chosen \cap Kept(target)) = {}
  BY DEF Gone, Kept, RowsOf, Purge, RetentionTypeOK

(* What it counts, in each of the two columns. *)
LEMMA PurgeCounts ==
  ASSUME NEW r \in Runs, NEW chosen \in SUBSET Rows
  PROVE  LET new == NextTarget(WithPurged(r, chosen))
         IN  IF Targets[r.target] = "messages"
               THEN /\ new.count.compacted = r.count.compacted + Cardinality(chosen)
                    /\ new.count.deleted = r.count.deleted
               ELSE /\ new.count.compacted = r.count.compacted
                    /\ new.count.deleted = r.count.deleted
                                             + Cardinality(chosen \cap Kept(Targets[r.target]))
  <1> DEFINE all == Cardinality(chosen)
             kept == Cardinality(chosen \cap Kept(Targets[r.target]))
             message == Targets[r.target] = "messages"
  <1>1. WithPurged(r, chosen) = IF message THEN [r EXCEPT !.count.compacted = @ + all]
                                           ELSE [r EXCEPT !.count.deleted = @ + kept]
    BY DEF WithPurged
  <1>2. NextTarget(WithPurged(r, chosen)).count = WithPurged(r, chosen).count
    <2>1. \A q \in Runs : NextTarget(q).count = q.count
      BY DEF NextTarget, Runs
    <2> QED BY <2>1, PurgedRunTypes
  <1> HIDE DEF all, kept, message
  <1>3. message => /\ WithPurged(r, chosen).count.compacted = r.count.compacted + all
                   /\ WithPurged(r, chosen).count.deleted = r.count.deleted
    BY <1>1 DEF Runs, Counts
  <1>4. ~message => /\ WithPurged(r, chosen).count.compacted = r.count.compacted
                    /\ WithPurged(r, chosen).count.deleted = r.count.deleted + kept
    BY <1>1 DEF Runs, Counts
  <1> QED BY <1>2, <1>3, <1>4 DEF all, kept, message

(* What a statement deletes and what its worker counts agree. *)
LEMMA PurgeIsCounted ==
  ASSUME RetentionTypeOK, RetentionTypeOK', PurgesAreAudited, NEW w \in Purgers,
         NEW chosen \in SUBSET RowsOf(Targets[run[w].target]), Purge(chosen),
         run' = [run EXCEPT ![w] = NextTarget(WithPurged(run[w], chosen))],
         UNCHANGED <<backend, audited, failed>>,
         backend = "memory" => chosen \subseteq Kept(Targets[run[w].target])
  PROVE  PurgesAreAudited'
  <1> DEFINE target == Targets[run[w].target]
             purged == chosen \cap Kept(target)
             new == NextTarget(WithPurged(run[w], chosen))
  <1> SUFFICES ASSUME ~failed
               PROVE  /\ Reported("deleted")' = Cardinality(GoneOthers)'
                      /\ Reported("compacted")' >= Cardinality(GoneMessages)'
                      /\ backend = "memory" => Reported("compacted")' = Cardinality(GoneMessages)'
    BY DEF PurgesAreAudited, GoneMessages, GoneOthers
  <1>1. /\ Reported("deleted") = Cardinality(GoneOthers)
        /\ Reported("compacted") >= Cardinality(GoneMessages)
        /\ backend = "memory" => Reported("compacted") = Cardinality(GoneMessages)
    BY DEF PurgesAreAudited, GoneMessages, GoneOthers
  <1>2. chosen \in SUBSET Rows /\ run[w] \in Runs
    BY DEF RowsOf, RetentionTypeOK
  <1>3. new \in Runs
    BY <1>2, RunTypes
  <1>4. /\ IsFiniteSet(chosen) /\ Cardinality(chosen) \in Nat
        /\ IsFiniteSet(purged) /\ Cardinality(purged) \in Nat
        /\ Cardinality(purged) <= Cardinality(chosen)
    <2>1. IsFiniteSet(chosen)
      BY <1>2, RetentionAssumption, FS_Subset
    <2> QED BY <2>1, FS_Subset, FS_CardinalityType
  <1>5. Gone' = Gone \cup purged /\ Gone \cap purged = {} /\ purged \subseteq RowsOf(target)
    BY PurgedAreGone
  <1>6. IF target = "messages"
          THEN /\ new.count.compacted = run[w].count.compacted + Cardinality(chosen)
               /\ new.count.deleted = run[w].count.deleted
          ELSE /\ new.count.compacted = run[w].count.compacted
               /\ new.count.deleted = run[w].count.deleted + Cardinality(purged)
    BY <1>2, PurgeCounts
  <1>7. run' = [run EXCEPT ![w] = new]
    OBVIOUS
  <1> HIDE DEF new, purged
  <1>8. PICK deleted \in Nat :
          /\ Reported("deleted") = audited.deleted + (run[w].count.deleted + deleted)
          /\ Reported("deleted")' = audited'.deleted + (new.count.deleted + deleted)
    BY <1>3, <1>7, ReportsChange
  <1>9. PICK compacted \in Nat :
          /\ Reported("compacted") = audited.compacted + (run[w].count.compacted + compacted)
          /\ Reported("compacted")' = audited'.compacted + (new.count.compacted + compacted)
    BY <1>3, <1>7, ReportsChange
  <1>10. CASE target = "messages"
    <2>1. GoneMessages' = GoneMessages \cup purged /\ GoneOthers' = GoneOthers
      BY <1>5, <1>10 DEF GoneMessages, GoneOthers, RowsOf
    <2>2. Cardinality(GoneMessages \cup purged) <= Cardinality(GoneMessages) + Cardinality(purged)
      <3>1. /\ IsFiniteSet(GoneMessages \cap purged)
            /\ Cardinality(GoneMessages \cap purged) \in Nat
        BY <1>4, FS_Subset, FS_CardinalityType
      <3>2. Cardinality(GoneMessages \cup purged) = Cardinality(GoneMessages) + Cardinality(purged)
                                                      - Cardinality(GoneMessages \cap purged)
        BY <1>4, CountsAreNumbers, FS_Union
      <3> QED BY <1>4, <3>1, <3>2, CountsAreNumbers
    <2>3. Reported("deleted")' = Reported("deleted")
      BY <1>6, <1>8, <1>10
    <2>4. Reported("compacted")' = Reported("compacted") + Cardinality(chosen)
      BY <1>2, <1>4, <1>6, <1>9, <1>10, CountsAreNumbers
    <2>5. Reported("compacted") \in Nat
      BY <1>9, CountsAreNumbers
    <2>6. Cardinality(GoneMessages \cup purged) \in Nat
      BY <1>4, CountsAreNumbers, FS_Union, FS_CardinalityType
    <2>7. Reported("compacted") + Cardinality(chosen) >= Cardinality(GoneMessages \cup purged)
      BY <1>1, <1>4, <2>2, <2>5, <2>6, CountsAreNumbers
    <2>8. CASE backend = "memory"
      <3>1. purged = chosen
        BY <2>8 DEF purged
      <3>2. GoneMessages \cap purged = {}
        BY <1>5 DEF GoneMessages
      <3>3. Cardinality(GoneMessages \cup purged) = Cardinality(GoneMessages) + Cardinality(purged)
        BY <1>4, <3>2, CountsAreNumbers, DisjointUnion
      <3> QED BY <1>1, <2>1, <2>3, <2>4, <2>7, <2>8, <3>1, <3>3
    <2>9. CASE backend # "memory"
      BY <1>1, <2>1, <2>3, <2>4, <2>7, <2>9
    <2> QED BY <2>8, <2>9
  <1>11. CASE target # "messages"
    <2>1. /\ GoneMessages' = GoneMessages /\ GoneOthers' = GoneOthers \cup purged
          /\ GoneOthers \cap purged = {}
      BY <1>5, <1>11 DEF GoneMessages, GoneOthers, RowsOf
    <2>2. Cardinality(GoneOthers \cup purged) = Cardinality(GoneOthers) + Cardinality(purged)
      BY <1>4, <2>1, CountsAreNumbers, DisjointUnion
    <2>3. Reported("compacted")' = Reported("compacted")
      BY <1>6, <1>9, <1>11
    <2>4. Reported("deleted")' = Reported("deleted") + Cardinality(purged)
      BY <1>2, <1>4, <1>6, <1>8, <1>11, CountsAreNumbers
    <2> QED BY <1>1, <2>1, <2>2, <2>3, <2>4
  <1> QED BY <1>10, <1>11

(* Every step keeps the reports complete. *)
LEMMA WorkerKeepsCounts ==
  ASSUME RetentionInv, RetentionInv', CountsInv, NEW w \in Purgers,
         \/ \E dry \in BOOLEAN : StartRun(w, dry)
         \/ CountCandidates(w) \/ Choose(w) \/ PurgeChosen(w)
         \/ PurgeInMemory(w) \/ AuditRun(w) \/ FailRun(w)
  PROVE  CountsInv'
  <1>0. /\ RetentionTypeOK /\ RetentionTypeOK' /\ PurgesAreAudited /\ CountsBelong
        /\ run[w] \in Runs /\ audited \in Counts /\ failed \in BOOLEAN
        /\ run \in [Purgers -> Runs]
    BY DEF RetentionInv, RetentionTypeOK, CountsInv
  <1>1. ASSUME NEW new \in Runs, run' = [run EXCEPT ![w] = new],
               new.pc = "idle" => new.count = NoCounts,
               new.pc = "purge" => /\ new.chosen \subseteq RowsOf(Targets[new.target])
                                   /\ backend = "postgres",
               backend' = backend
        PROVE  CountsBelong'
    <2>1. \A v \in Purgers : run'[v] = IF v = w THEN new ELSE run[v]
      BY <1>0, <1>1
    <2> QED BY <1>0, <1>1, <2>1 DEF CountsBelong, RowsOf
  <1>2. /\ \A q \in Runs : /\ NextTarget(q).pc \in {"audit", "choose"}
                           /\ NextTarget(q).count = q.count
        /\ Resting.pc = "idle" /\ Resting.count = NoCounts
        /\ NoCounts.compacted = 0 /\ NoCounts.deleted = 0
    BY DEF NextTarget, Runs, Resting, NoCounts
  <1>3. ASSUME NEW dry \in BOOLEAN, StartRun(w, dry) PROVE CountsInv'
    <2> DEFINE new == [Resting EXCEPT !.pc = "choose", !.dry = dry, !.started = clock]
    <2>1. /\ run[w].pc = "idle" /\ run' = [run EXCEPT ![w] = new]
          /\ UNCHANGED <<backend, rows, audited, failed>>
      BY <1>3 DEF StartRun
    <2>2. new \in Runs /\ new.pc = "choose" /\ new.count = NoCounts
      BY <1>0, RestingTypes DEF Resting, Runs, RetentionTypeOK
    <2> HIDE DEF new
    <2>3. run[w].count = NoCounts
      BY <1>0, <2>1 DEF CountsBelong
    <2>4. PurgesAreAudited'
      BY <1>0, <2>1, <2>2, <2>3, CountsMove
    <2> QED BY <1>1, <2>1, <2>2, <2>4 DEF CountsInv
  <1>4. CASE CountCandidates(w)
    <2> DEFINE new == NextTarget(run[w])
    <2>1. run' = [run EXCEPT ![w] = new] /\ UNCHANGED <<backend, rows, audited, failed>>
      BY <1>4 DEF CountCandidates
    <2>2. new \in Runs /\ new.pc \in {"audit", "choose"} /\ new.count = run[w].count
      BY <1>0, <1>2, RunTypes
    <2> HIDE DEF new
    <2>3. PurgesAreAudited'
      BY <1>0, <2>1, <2>2, CountsMove
    <2> QED BY <1>1, <2>1, <2>2, <2>3 DEF CountsInv
  <1>5. CASE Choose(w)
    <2> DEFINE chosen == Candidates(Targets[run[w].target], run[w].started)
               new == [run[w] EXCEPT !.pc = "purge", !.chosen = chosen]
    <2>1. chosen \in SUBSET Rows /\ chosen \subseteq RowsOf(Targets[run[w].target])
      BY <1>0, CandidatesAreOld DEF Candidates, Expired, Kept
    <2>2. run' = [run EXCEPT ![w].pc = "purge", ![w].chosen = chosen]
          /\ backend = "postgres" /\ UNCHANGED <<backend, rows, audited, failed>>
      BY <1>5 DEF Choose
    <2> HIDE DEF chosen
    <2>3. /\ new \in Runs /\ new.pc = "purge" /\ new.chosen = chosen
          /\ new.target = run[w].target /\ new.count = run[w].count
      BY <1>0, <2>1 DEF Runs
    <2>4. run' = [run EXCEPT ![w] = new]
      BY <1>0, <2>2 DEF Runs
    <2> HIDE DEF new
    <2>5. PurgesAreAudited'
      BY <1>0, <2>2, <2>3, <2>4, CountsMove
    <2> QED BY <1>1, <2>1, <2>2, <2>3, <2>4, <2>5 DEF CountsInv
  <1>6. ASSUME NEW chosen \in SUBSET RowsOf(Targets[run[w].target]), Purge(chosen),
               run' = [run EXCEPT ![w] = NextTarget(WithPurged(run[w], chosen))],
               UNCHANGED <<backend, audited, failed>>,
               backend = "memory" => chosen \subseteq Kept(Targets[run[w].target])
        PROVE  CountsInv'
    <2>1. PurgesAreAudited'
      BY <1>0, <1>6, PurgeIsCounted
    <2> DEFINE new == NextTarget(WithPurged(run[w], chosen))
    <2>2. new \in Runs /\ new.pc \in {"audit", "choose"}
      <3>1. chosen \in SUBSET Rows
        BY DEF RowsOf
      <3>2. new \in Runs
        BY <1>0, <3>1, RunTypes
      <3>3. WithPurged(run[w], chosen) \in Runs
        BY <1>0, <3>1, PurgedRunTypes
      <3> QED BY <1>2, <3>2, <3>3
    <2> HIDE DEF new
    <2> QED BY <1>1, <1>6, <2>1, <2>2 DEF CountsInv, new
  <1>7. CASE PurgeChosen(w)
    <2>1. run[w].chosen \in SUBSET RowsOf(Targets[run[w].target]) /\ backend = "postgres"
      BY <1>0, <1>7 DEF PurgeChosen, CountsBelong
    <2> QED BY <1>6, <1>7, <2>1 DEF PurgeChosen
  <1>8. CASE PurgeInMemory(w)
    <2> DEFINE chosen == Candidates(Targets[run[w].target], run[w].started)
    <2>1. chosen \subseteq Kept(Targets[run[w].target])
          /\ chosen \in SUBSET RowsOf(Targets[run[w].target])
      BY DEF Candidates, Expired, Kept
    <2>2. /\ Purge(chosen) /\ UNCHANGED <<backend, audited, failed>>
          /\ run' = [run EXCEPT ![w] = NextTarget(WithPurged(run[w], chosen))]
      BY <1>8 DEF PurgeInMemory
    <2> HIDE DEF chosen
    <2> QED BY <1>6, <2>1, <2>2
  <1>9. CASE AuditRun(w)
    <2>1. /\ run' = [run EXCEPT ![w] = Resting] /\ UNCHANGED <<backend, rows, failed>>
          /\ audited' = [compacted |-> audited.compacted + run[w].count.compacted,
                         deleted |-> audited.deleted + run[w].count.deleted]
      BY <1>9 DEF AuditRun
    <2>2. run[w].count \in Counts
      BY <1>0 DEF Runs
    <2>3. /\ audited'.compacted + 0 = audited.compacted + run[w].count.compacted
          /\ audited'.deleted + 0 = audited.deleted + run[w].count.deleted
      BY <1>0, <2>1, <2>2 DEF Counts
    <2>4. \A field \in {"compacted", "deleted"} :
             audited'[field] + Resting.count[field] = audited[field] + run[w].count[field]
      BY <1>2, <2>3
    <2>5. PurgesAreAudited'
      BY <1>0, <2>1, <2>4, RestingTypes, CountsMove
    <2> QED BY <1>1, <1>2, <2>1, <2>5, RestingTypes DEF CountsInv
  <1>10. CASE FailRun(w)
    <2>1. /\ run' = [run EXCEPT ![w] = Resting] /\ UNCHANGED <<backend, audited>>
          /\ \/ rows' = rows /\ failed' = (failed \/ run[w].count # NoCounts)
             \/ failed' = TRUE
      BY <1>10 DEF FailRun
    <2>2. CASE failed' = TRUE
      BY <1>1, <1>2, <2>1, <2>2, RestingTypes DEF CountsInv, PurgesAreAudited
    <2>3. CASE failed' # TRUE
      <3>1. rows' = rows /\ failed = FALSE /\ run[w].count = NoCounts
        BY <1>0, <2>1, <2>3
      <3>2. PurgesAreAudited'
        BY <1>0, <1>2, <2>1, <3>1, RestingTypes, CountsMove
      <3> QED BY <1>1, <1>2, <2>1, <3>2, RestingTypes DEF CountsInv
    <2> QED BY <2>2, <2>3
  <1> QED BY <1>3, <1>4, <1>5, <1>7, <1>8, <1>9, <1>10

(* Nothing is gone and nothing is reported at the start. *)
LEMMA CountsInvInit == RetentionInit => CountsInv
  <1> SUFFICES ASSUME RetentionInit PROVE CountsInv
    OBVIOUS
  <1>1. CountsBelong
    BY DEF RetentionInit, CountsBelong, Resting
  <1>2. RetentionTypeOK
    BY RetentionInvInit DEF RetentionInv
  <1>3. PurgesAreAudited
    <2>1. Gone = {} /\ Cardinality({}) = 0
      BY FS_EmptySet DEF Gone, RetentionInit
    <2>2. ASSUME NEW field \in {"compacted", "deleted"} PROVE Reported(field) = 0
      <3>1. PICK g \in [SUBSET Purgers -> Nat] : /\ AddsUp(g, CountOf(field), Purgers)
                                                 /\ Reported(field) = audited[field] + g[Purgers]
        BY <1>2, ReportsAddUp
      <3> DEFINE zero == [s \in SUBSET Purgers |-> 0]
      <3>2. CountOf(field) = [w \in Purgers |-> 0]
        BY DEF CountOf, RetentionInit, Resting, NoCounts
      <3>3. AddsUp(zero, CountOf(field), Purgers)
        BY <3>2 DEF AddsUp
      <3>4. g[Purgers] = 0
        <4>1. zero[Purgers] = 0
          OBVIOUS
        <4> HIDE DEF zero
        <4> QED BY <3>1, <3>3, <4>1, RetentionAssumption, SumDependsOnTerms
      <3>5. audited[field] = 0
        BY DEF RetentionInit, NoCounts
      <3> QED BY <3>1, <3>4, <3>5
    <2>3. Reported("deleted") = 0 /\ Reported("compacted") = 0
      BY <2>2
    <2>4. Gone \cap RowsOf("messages") = {} /\ Gone \ (Gone \cap RowsOf("messages")) = {}
      BY <2>1
    <2> QED BY <2>1, <2>3, <2>4 DEF PurgesAreAudited
  <1> QED BY <1>1, <1>3 DEF CountsInv

(* A step of anything else deletes nothing and reports nothing. *)
LEMMA CountsStep ==
  ASSUME RetentionInv, RetentionInv', CountsInv, [RetentionNext]_retentionVars
  PROVE  CountsInv'
  <1>1. ASSUME NEW w \in Purgers,
               \/ \E dry \in BOOLEAN : StartRun(w, dry)
               \/ CountCandidates(w) \/ Choose(w) \/ PurgeChosen(w)
               \/ PurgeInMemory(w) \/ AuditRun(w) \/ FailRun(w)
        PROVE  CountsInv'
    BY <1>1, WorkerKeepsCounts
  <1>2. ASSUME UNCHANGED <<backend, run, audited, failed>>, Gone' = Gone PROVE CountsInv'
    <2>1. \A field \in {"compacted", "deleted"} : Reported(field)' = Reported(field)
      BY <1>2 DEF Reported, MapThenSumSet, MapThenFoldSet
    <2>2. PurgesAreAudited'
      BY <1>2, <2>1 DEF CountsInv, PurgesAreAudited, RowsOf
    <2> QED BY <1>2, <2>2 DEF CountsInv, CountsBelong, RowsOf
  <1>3. ASSUME NEW r \in Rows, NEW time \in 0 .. MaxClock, Arrive(r, time) PROVE CountsInv'
    <2>1. rows[r] = "absent" /\ rows' = [rows EXCEPT ![r] = "kept"]
          /\ UNCHANGED <<backend, run, audited, failed>>
      BY <1>3 DEF Arrive
    <2>2. Gone' = Gone
      BY <2>1 DEF Gone, RetentionInv, RetentionTypeOK
    <2> QED BY <1>2, <2>1, <2>2
  <1>4. CASE Pass \/ UNCHANGED retentionVars
    BY <1>2, <1>4 DEF Pass, retentionVars, Gone
  <1> QED BY <1>1, <1>3, <1>4 DEF RetentionNext

(* Unless a run failed, every row that is gone has been reported or is about *)
(* to be, for any number of workers that delete at the same time.           *)
THEOREM PurgesAreReported == RetentionSpec => []PurgesAreAudited
  <1>1. RetentionInv /\ [RetentionNext]_retentionVars => RetentionInv'
    BY RetentionStep
  <1>2. RetentionInv /\ RetentionInv' /\ CountsInv /\ [RetentionNext]_retentionVars => CountsInv'
    BY CountsStep
  <1>3. CountsInv => PurgesAreAudited
    BY DEF CountsInv
  <1> QED BY <1>1, <1>2, <1>3, RetentionInvInit, CountsInvInit, PTL DEF RetentionSpec
=============================================================================
