--------------------------- MODULE SecurityFindings ---------------------------
(***************************************************************************)
(* Security analyses on the Postgres store, the operators who triage their *)
(* findings, and a client that reads the list page by page.                *)
(*                                                                         *)
(* An analysis writes its findings one statement at a time in one          *)
(* transaction.  A statement waits for the lock of its row and then sees   *)
(* the row that was committed last; the lock is held until the transaction *)
(* ends.  Its time is taken before the transaction begins.                 *)
(***************************************************************************)
EXTENDS SecurityRules, FiniteSets

CONSTANTS
  Analysts,   \* requests that analyse
  Inputs,     \* the tfvars they send
  Absent,     \* no row
  Reads,      \* the order and the statuses that lists are asked for
  PageSize,   \* the page size of the reader
  MaxMinute   \* the bound on the clock

VARIABLES
  minute,    \* the clock
  findings,  \* the committed row of each finding, or Absent
  analysis,  \* the transaction of each analyst
  reader,    \* the client that reads the list, with what it has seen
  serial     \* the ids that the rows will have: a row keeps its own for ever

findingVars == <<minute, findings, analysis, reader, serial>>

Minutes == 0 .. MaxMinute
AllFindings == UNION {Matches(tfvars) : tfvars \in Inputs}
Ids == 1 .. Cardinality(AllFindings)

Statuses == {"open", "acknowledged", "resolved"}
FindingRows == [status : Statuses, last : Minutes]

ASSUME MinuteAssumption == MaxMinute \in Nat
ASSUME AbsentAssumption == Absent \notin FindingRows

Analyses ==
  [pc : {"idle", "write"}, started : Minutes, todo : SUBSET AllFindings,
   written : [AllFindings -> FindingRows \cup {Absent}]]
NothingWritten == [f \in AllFindings |-> Absent]
NoAnalysis == [pc |-> "idle", started |-> 0, todo |-> {}, written |-> NothingWritten]

Orders == {"desc", "asc"}
Readers ==
  [pc : {"idle", "reading", "done"}, order : Orders, filter : SUBSET Statuses, page : Nat,
   seen : SUBSET AllFindings, untouched : SUBSET AllFindings,
   changed : BOOLEAN, rewound : BOOLEAN]
ASSUME PageSizeAssumption == PageSize \in Nat \ {0}
ASSUME ReadsAssumption == Reads \subseteq [order : Orders, filter : SUBSET Statuses]

NoReader ==
  [pc |-> "idle", order |-> "desc", filter |-> Statuses, page |-> 1, seen |-> {},
   untouched |-> {}, changed |-> FALSE, rewound |-> FALSE]

FindingsInit ==
  /\ minute = 0
  /\ findings = [f \in AllFindings |-> Absent]
  /\ analysis = [a \in Analysts |-> NoAnalysis]
  /\ reader = NoReader
  /\ serial \in {ids \in [AllFindings -> Ids] :
                  \A f, g \in AllFindings : ids[f] = ids[g] => f = g}

-----------------------------------------------------------------------------
(* Mutant: no row is locked. *)
LockersNone(f) == {}

Lockers(f) == {a \in Analysts : analysis[a].written[f] # Absent}

(* Mutant: the status is taken from the row that was to be inserted, which    *)
(* has none.                                                                 *)
UpsertedExcluded(row, time) ==
  IF row = Absent THEN [status |-> "open", last |-> time]
  ELSE [row EXCEPT !.status = IF @ = "resolved" THEN "" ELSE @, !.last = time]

(* INSERT ... ON CONFLICT DO UPDATE *)
Upserted(row, time) ==
  IF row = Absent THEN [status |-> "open", last |-> time]
  ELSE [row EXCEPT !.status = IF @ = "resolved" THEN "open" ELSE @, !.last = time]

(* The list that is read: its rows and their order. *)
Listed == {f \in AllFindings : findings[f] # Absent /\ findings[f].status \in reader.filter}

Newer(f, g) ==
  \/ findings[f].last > findings[g].last
  \/ findings[f].last = findings[g].last /\ serial[f] > serial[g]

(* The rows that the list has before f. *)
ListedBefore(f) ==
  {g \in Listed \ {f} : IF reader.order = "desc" THEN Newer(g, f) ELSE Newer(f, g)}

Offset == (reader.page - 1) * PageSize

(* The rows that the next page is read behind. *)
Passed == {f \in Listed : Cardinality(ListedBefore(f)) < Offset}

(* What a change of the committed rows means for the list being read: which  *)
(* rows were left alone, and whether the change reached those that the offset *)
(* of the next page passes over, or set a time back.                          *)
Noticed(new) ==
  LET touched == {f \in AllFindings : new[f] # findings[f]}
  IN  IF reader.pc # "reading" THEN reader
      ELSE [reader EXCEPT
              !.untouched = @ \ touched,
              !.changed = @ \/ touched \cap Passed # {},
              !.rewound = @ \/ \E f \in touched \ {g \in AllFindings : findings[g] = Absent} :
                                 new[f].last < findings[f].last]

Analyze(a, tfvars) ==
  /\ analysis[a].pc = "idle"
  /\ analysis' = [analysis EXCEPT ![a] =
       [NoAnalysis EXCEPT !.pc = "write", !.started = minute, !.todo = Matches(tfvars)]]
  /\ UNCHANGED <<minute, findings, reader, serial>>

(* Mutant: the findings are not sorted. *)
NextFindingUnsorted(a) == analysis[a].todo

NextFinding(a) ==
  {f \in analysis[a].todo : \A g \in analysis[a].todo \ {f} : Precedes(f, g)}

UpsertFinding(a) ==
  \E f \in NextFinding(a) :
    /\ Lockers(f) \ {a} = {}
    /\ analysis' = [analysis EXCEPT ![a] =
         [analysis[a] EXCEPT
            !.todo = @ \ {f},
            !.written = [analysis[a].written EXCEPT
                           ![f] = Upserted(findings[f], analysis[a].started)]]]
    /\ UNCHANGED <<minute, findings, reader, serial>>

CommitAnalysis(a) ==
  LET new == [f \in AllFindings |-> IF analysis[a].written[f] = Absent THEN findings[f]
                                    ELSE analysis[a].written[f]]
  IN  /\ analysis[a].pc = "write" /\ analysis[a].todo = {}
      /\ findings' = new
      /\ reader' = Noticed(new)
      /\ analysis' = [analysis EXCEPT ![a] = NoAnalysis]
      /\ UNCHANGED <<minute, serial>>

(* A statement fails, the client leaves or the process ends. *)
RollbackAnalysis(a) ==
  /\ analysis[a].pc = "write"
  /\ analysis' = [analysis EXCEPT ![a] = NoAnalysis]
  /\ UNCHANGED <<minute, findings, reader, serial>>

(* No endpoint does it yet: an operator updates the row. *)
TriageFinding(f, status) ==
  LET new == [findings EXCEPT ![f].status = status]
  IN  /\ findings[f] # Absent /\ findings[f].status # status
      /\ Lockers(f) = {}
      /\ findings' = new
      /\ reader' = Noticed(new)
      /\ UNCHANGED <<minute, analysis, serial>>

-----------------------------------------------------------------------------
(* Mutant: pages are counted from zero. *)
PageFromZero ==
  LET offset == reader.page * PageSize
  IN  {f \in Listed : Cardinality(ListedBefore(f)) \in offset .. offset + PageSize - 1}

(* LIMIT and OFFSET *)
Page ==
  {f \in Listed : Cardinality(ListedBefore(f)) \in Offset .. Offset + PageSize - 1}

ReadFirst(order, filter) ==
  /\ reader.pc = "idle"
  /\ reader' = [NoReader EXCEPT !.pc = "reading", !.order = order, !.filter = filter,
                  !.untouched = {f \in AllFindings : findings[f] # Absent
                                                       /\ findings[f].status \in filter}]
  /\ UNCHANGED <<minute, findings, analysis, serial>>

ReadPage ==
  /\ reader.pc = "reading"
  /\ reader' = [reader EXCEPT !.seen = @ \cup Page, !.page = @ + 1,
                  !.pc = IF Cardinality(Page) < PageSize THEN "done" ELSE "reading"]
  /\ UNCHANGED <<minute, findings, analysis, serial>>

EndRead ==
  /\ reader.pc = "done"
  /\ reader' = NoReader
  /\ UNCHANGED <<minute, findings, analysis, serial>>

PassMinute ==
  /\ minute < MaxMinute
  /\ minute' = minute + 1
  /\ UNCHANGED <<findings, analysis, reader, serial>>

FindingsNext ==
  \/ \E a \in Analysts, tfvars \in Inputs : Analyze(a, tfvars)
  \/ \E a \in Analysts : UpsertFinding(a) \/ CommitAnalysis(a) \/ RollbackAnalysis(a)
  \/ \E f \in AllFindings, status \in Statuses \ {"open"} : TriageFinding(f, status)
  \/ \E read \in Reads : ReadFirst(read.order, read.filter)
  \/ ReadPage \/ EndRead
  \/ PassMinute

FindingsSpec == FindingsInit /\ [][FindingsNext]_findingVars

-----------------------------------------------------------------------------
FindingsTypeOK ==
  /\ minute \in Minutes
  /\ findings \in [AllFindings -> FindingRows \cup {Absent}]
  /\ analysis \in [Analysts -> Analyses]
  /\ reader \in Readers
  /\ serial \in [AllFindings -> Ids]

(* Overlapping analyses and triage have the effect of one after the other,   *)
(* each at its commit: no status that an operator has set is lost, and no    *)
(* analysis applies in part.                                                 *)
Store == INSTANCE FindingStore
           WITH Findings <- AllFindings, Times <- Minutes,
                table <- findings
ImplementsFindingStore == Store!StoreSpec

(* Some analysis can go on: they wait for each other's rows in one direction *)
(* only, because all write in the order of Precedes.                         *)
Waiting(a) == \E f \in NextFinding(a) : Lockers(f) \ {a} # {}
SomeAnalysisGoesOn ==
  (\A a \in Analysts : analysis[a].pc = "write") => \E a \in Analysts : ~Waiting(a)

(* A client that reads the list to its end misses a finding that was there   *)
(* all the time and did not change only if a row that the offset passed over *)
(* changed, which may be one the client never saw; without a filter and with *)
(* the newest first, only if an analysis that had started earlier committed  *)
(* later and set a detection time back.                                      *)
MissedFindingHasACause ==
  /\ reader.pc = "done"
  /\ \/ ~reader.changed
     \/ reader.order = "desc" /\ reader.filter = Statuses /\ ~reader.rewound
  => reader.untouched \subseteq reader.seen
=============================================================================
