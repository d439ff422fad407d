---------------------------- MODULE IngestPipeline ----------------------------
(***************************************************************************)
(* The ingest pipeline of the Ops API: the HTTP handlers and retry workers *)
(* that run ingest.Service, and the Postgres tables they share.            *)
(*                                                                         *)
(* Every database call is one step, because every one is one statement or  *)
(* one transaction, and the steps of different actors interleave freely.   *)
(* The row of an event in ingest_events is split into the functions        *)
(* status, attempts, lastError and ripe; persisted stands for the entity   *)
(* tables; pc, item, failure and batch are the local state of the actors.  *)
(* Time is the boolean ripe: a row's next_retry_at has come, or its        *)
(* last_attempt_at is older than ProcessingLeaseTimeout.                   *)
(***************************************************************************)
EXTENDS Naturals, FiniteSets

CONSTANTS
    Events,            \* keys (event_type, source, event_id)
    NoEvent,           \* the event of an actor at rest
    Handlers,          \* HTTP request goroutines, over all API instances
    Workers,           \* retry workers, one per API instance
    MaxAttempts,       \* Config.RetryMaxAttempts
    BatchLimit,        \* the LIMIT of a lease
    MaxFaults,         \* bound: database faults and crashes in a behaviour
    SlowActors,        \* TRUE: an attempt may outlive the processing lease
    RetentionEnabled   \* TRUE: old settled rows are deleted

Actors == Handlers \cup Workers

ASSUME ActorsAssumption == Handlers \cap Workers = {}
ASSUME EventsAssumption == NoEvent \notin Events
ASSUME BoundsAssumption ==
    /\ MaxAttempts \in Nat \ {0}
    /\ BatchLimit \in Nat \ {0}
    /\ MaxFaults \in Nat
ASSUME SwitchesAssumption == SlowActors \in BOOLEAN /\ RetentionEnabled \in BOOLEAN

VARIABLES
    status,     \* event -> ingest_events.status, "absent" if there is no row
    attempts,   \* event -> ingest_events.attempt_count
    lastError,  \* event -> which kind of message is in ingest_events.last_error
    ripe,       \* event -> the row is due for a lease
    persisted,  \* events whose entity transaction has been committed
    pc,         \* actor -> the call it makes next
    item,       \* actor -> the event it works on and the attempt it was given
    failure,    \* actor -> the error it is about to record
    batch,      \* worker -> leased items it has not come to yet
    expired,    \* events whose rows a running retention DELETE has chosen
    received,   \* history: events some producer has delivered
    answers,    \* history: event -> outcomes producers were given
    faults      \* number of faults so far, at most MaxFaults

ledger == <<status, attempts, lastError, ripe>>
history == <<received, answers>>
vars == <<status, attempts, lastError, ripe, persisted, pc, item, failure,
          batch, expired, received, answers, faults>>

-----------------------------------------------------------------------------
Pending == {"processing", "retry_scheduled"}
Terminal == {"completed", "dead_letter"}
Outcomes == {"accepted", "duplicate", "retry_scheduled", "dead_letter"}

(* What a failing call can look like: an error wrapDBError marks transient, *)
(* a statement the server refused, or a lost connection (a network error or *)
(* driver.ErrBadConn), which isTransientDBError does not recognise. A       *)
(* cancelled context also fails every later call: see Abandon.              *)
ErrorClasses == {"transient", "rejected", "disconnected"}

IsTransientDBError(class) == class = "transient"

(* A call whose connection was lost or timed out may have been applied. *)
MayBeApplied(class) == class # "rejected"

Stages == {"persist", "completion"}
Failures == [stage : Stages \cup {"none"}, class : ErrorClasses \cup {"none"}]
NoFailure == [stage |-> "none", class |-> "none"]

Items == [event : Events \cup {NoEvent}, attempt : Nat]
NoItem == [event |-> NoEvent, attempt |-> 0]
LeasedItems == [event : Events, attempt : Nat, completion : BOOLEAN]

Working == {"persist", "complete", "record"}

(* The actors that have an attempt at event e in hand or in their batch. *)
Holders(e) ==
    {a \in Actors : pc[a] \in Working /\ item[a].event = e}
      \cup {w \in Workers : \E i \in batch[w] : i.event = e}

Init ==
    /\ status = [e \in Events |-> "absent"]
    /\ attempts = [e \in Events |-> 0]
    /\ lastError = [e \in Events |-> "none"]
    /\ ripe = [e \in Events |-> FALSE]
    /\ persisted = {}
    /\ pc = [a \in Actors |-> "idle"]
    /\ item = [a \in Actors |-> NoItem]
    /\ failure = [a \in Actors |-> NoFailure]
    /\ batch = [w \in Workers |-> {}]
    /\ expired = {}
    /\ received = {}
    /\ answers = [e \in Events |-> {}]
    /\ faults = 0

-----------------------------------------------------------------------------
(* The statements on ingest_events. *)

InsertRow(e) ==
    /\ status' = [status EXCEPT ![e] = "processing"]
    /\ attempts' = [attempts EXCEPT ![e] = 1]
    /\ lastError' = [lastError EXCEPT ![e] = "none"]
    /\ ripe' = [ripe EXCEPT ![e] = FALSE]

(* The UPDATE has no condition on status or attempt_count, and no row is    *)
(* no error.                                                                *)
MarkEventCompleted(e) ==
    IF status[e] = "absent"
      THEN UNCHANGED ledger
      ELSE /\ status' = [status EXCEPT ![e] = "completed"]
           /\ lastError' = [lastError EXCEPT ![e] = "none"]
           /\ ripe' = [ripe EXCEPT ![e] = FALSE]
           /\ UNCHANGED attempts

(* Mutant: one attempt too many is scheduled. *)
FailureStatusOffByOne(e, f) ==
    IF ~IsTransientDBError(f.class) \/ attempts[e] > MaxAttempts
      THEN "dead_letter"
      ELSE "retry_scheduled"

(* The status RecordEventFailure gives a row: no retry time (the error was  *)
(* not transient) or no attempt left means dead_letter.                     *)
FailureStatus(e, f) ==
    IF ~IsTransientDBError(f.class) \/ attempts[e] >= MaxAttempts
      THEN "dead_letter"
      ELSE "retry_scheduled"

(* Mutant: the row keeps "mark event completed" from whatever call failed. *)
RecordEventFailureAsCompletion(e, f) ==
    /\ status[e] # "absent"
    /\ status' = [status EXCEPT ![e] = FailureStatus(e, f)]
    /\ lastError' = [lastError EXCEPT ![e] = "completion"]
    /\ ripe' = [ripe EXCEPT ![e] = FALSE]
    /\ UNCHANGED attempts

RecordEventFailure(e, f) ==
    /\ status[e] # "absent"
    /\ status' = [status EXCEPT ![e] = FailureStatus(e, f)]
    /\ lastError' = [lastError EXCEPT ![e] = f.stage]
    /\ ripe' = [ripe EXCEPT ![e] = FALSE]
    /\ UNCHANGED attempts

(* Mutants: a running attempt can be leased at any time; a processing row   *)
(* is never reclaimed.                                                      *)
DueWithoutLease ==
    {e \in Events : status[e] = "processing" \/ (status[e] = "retry_scheduled" /\ ripe[e])}

DueScheduledOnly == {e \in Events : status[e] = "retry_scheduled" /\ ripe[e]}

Due == {e \in Events : status[e] \in Pending /\ ripe[e]}

(* Mutant: the lease does not count the attempt. *)
LeaseRowsUncounted(S) ==
    /\ S # {} /\ S \subseteq Due
    /\ Cardinality(S) <= BatchLimit
    /\ status' = [e \in Events |-> IF e \in S THEN "processing" ELSE status[e]]
    /\ ripe' = [e \in Events |-> ripe[e] /\ e \notin S]
    /\ UNCHANGED <<attempts, lastError>>

(* One UPDATE over at most BatchLimit due rows that no other lease has      *)
(* locked (SKIP LOCKED): which rows those are is left open.                 *)
LeaseRows(S) ==
    /\ S # {} /\ S \subseteq Due
    /\ Cardinality(S) <= BatchLimit
    /\ status' = [e \in Events |-> IF e \in S THEN "processing" ELSE status[e]]
    /\ attempts' = [e \in Events |-> IF e \in S THEN attempts[e] + 1 ELSE attempts[e]]
    /\ ripe' = [e \in Events |-> ripe[e] /\ e \notin S]
    /\ UNCHANGED lastError

(* Mutants: an event in processing counts as stored; the status is handed   *)
(* out in place of the outcome.                                             *)
ExistingResultEager(e) ==
    CASE status[e] \in {"completed", "processing"} -> "duplicate"
      [] status[e] = "retry_scheduled" -> "retry_scheduled"
      [] status[e] = "dead_letter" -> "dead_letter"

ExistingResultRaw(e) == status[e]

(* existingResult: the answer to a producer that finds a row. *)
ExistingResult(e) ==
    CASE status[e] = "completed" -> "duplicate"
      [] status[e] \in Pending -> "retry_scheduled"
      [] status[e] = "dead_letter" -> "dead_letter"

-----------------------------------------------------------------------------
(* Local steps of an actor. *)

Goto(a, label) == pc' = [pc EXCEPT ![a] = label]

GoIdle(a) ==
    /\ Goto(a, "idle")
    /\ item' = [item EXCEPT ![a] = NoItem]
    /\ failure' = [failure EXCEPT ![a] = NoFailure]

GoRecord(a, stage, class) ==
    /\ Goto(a, "record")
    /\ failure' = [failure EXCEPT ![a] = [stage |-> stage, class |-> class]]
    /\ UNCHANGED item

(* Only a request has a producer waiting for the outcome. *)
Answer(a, outcome) ==
    answers' = IF a \in Handlers
                 THEN [answers EXCEPT ![item[a].event] = @ \cup {outcome}]
                 ELSE answers

Fault ==
    /\ faults < MaxFaults
    /\ faults' = faults + 1

-----------------------------------------------------------------------------
(* ingest: a producer delivers e and the handler claims it. A new row makes *)
(* the handler its first holder; on a conflict the row is read in a second  *)
(* statement.                                                               *)
Claim(h, e) ==
    /\ pc[h] = "idle"
    /\ received' = received \cup {e}
    /\ \/ /\ status[e] = "absent"
          /\ InsertRow(e)
          /\ Goto(h, "persist")
          /\ item' = [item EXCEPT ![h] = [event |-> e, attempt |-> 1]]
       \/ /\ status[e] # "absent"
          /\ Goto(h, "lookup")
          /\ item' = [item EXCEPT ![h] = [event |-> e, attempt |-> 0]]
          /\ UNCHANGED ledger
    /\ UNCHANGED <<persisted, failure, batch, answers, faults, expired>>

(* The insert took effect but the handler saw an error, so the request ends *)
(* with a 500 and the row has no holder.                                    *)
ClaimFails(h, e) ==
    /\ pc[h] = "idle"
    /\ status[e] = "absent"
    /\ InsertRow(e)
    /\ received' = received \cup {e}
    /\ Fault
    /\ UNCHANGED <<persisted, pc, item, failure, batch, answers, expired>>

(* The second statement of ClaimEvent; the row may be gone by then, which   *)
(* is an error without an outcome.                                          *)
Lookup(h) ==
    /\ pc[h] = "lookup"
    /\ \/ /\ status[item[h].event] # "absent"
          /\ Answer(h, ExistingResult(item[h].event))
       \/ /\ status[item[h].event] = "absent"
          /\ UNCHANGED answers
    /\ GoIdle(h)
    /\ UNCHANGED <<status, attempts, lastError, ripe, persisted, batch,
                   received, faults, expired>>

(* PersistConversationEvent, PersistInfraSnapshot, PersistRequestAttempt:   *)
(* one transaction of upserts.                                              *)
Persist(a) ==
    /\ pc[a] = "persist"
    /\ persisted' = persisted \cup {item[a].event}
    /\ Goto(a, "complete")
    /\ UNCHANGED <<status, attempts, lastError, ripe, item, failure, batch,
                   received, answers, faults, expired>>

PersistFails(a, class) ==
    /\ pc[a] = "persist"
    /\ \/ UNCHANGED persisted
       \/ MayBeApplied(class) /\ persisted' = persisted \cup {item[a].event}
    /\ GoRecord(a, "persist", class)
    /\ Fault
    /\ UNCHANGED <<status, attempts, lastError, ripe, batch, received,
                   answers, expired>>

Complete(a) ==
    /\ pc[a] = "complete"
    /\ MarkEventCompleted(item[a].event)
    /\ Answer(a, "accepted")
    /\ GoIdle(a)
    /\ UNCHANGED <<persisted, batch, received, faults, expired>>

CompleteFails(a, class) ==
    /\ pc[a] = "complete"
    /\ \/ UNCHANGED ledger
       \/ MayBeApplied(class) /\ MarkEventCompleted(item[a].event)
    /\ GoRecord(a, "completion", class)
    /\ Fault
    /\ UNCHANGED <<persisted, batch, received, answers, expired>>

(* handleFailure and handleCompletionFailure; without a row the UPDATE      *)
(* returns sql.ErrNoRows and the attempt ends without an outcome.           *)
Record(a) ==
    /\ pc[a] = "record"
    /\ \/ /\ RecordEventFailure(item[a].event, failure[a])
          /\ Answer(a, FailureStatus(item[a].event, failure[a]))
       \/ /\ status[item[a].event] = "absent"
          /\ UNCHANGED <<status, attempts, lastError, ripe, answers>>
    /\ GoIdle(a)
    /\ UNCHANGED <<persisted, batch, received, faults, expired>>

RecordFails(a) ==
    /\ pc[a] = "record"
    /\ \/ UNCHANGED ledger
       \/ RecordEventFailure(item[a].event, failure[a])
    /\ GoIdle(a)
    /\ Fault
    /\ UNCHANGED <<persisted, batch, received, answers, expired>>

-----------------------------------------------------------------------------
(* Mutant: any earlier error makes the retry a completion retry. *)
LeaseAfterAnyError(w) ==
    /\ pc[w] = "idle" /\ batch[w] = {}
    /\ \E S \in SUBSET Due :
         /\ LeaseRows(S)
         /\ batch' = [batch EXCEPT ![w] =
                        {[event |-> e, attempt |-> attempts[e] + 1,
                          completion |-> lastError[e] # "none"] : e \in S}]
    /\ UNCHANGED <<persisted, pc, item, failure, received, answers, faults,
                   expired>>

(* ProcessDueRetries: a worker leases a batch and then goes through it.     *)
Lease(w) ==
    /\ pc[w] = "idle" /\ batch[w] = {}
    /\ \E S \in SUBSET Due :
         /\ LeaseRows(S)
         /\ batch' = [batch EXCEPT ![w] =
                        {[event |-> e, attempt |-> attempts[e] + 1,
                          completion |-> lastError[e] = "completion"] : e \in S}]
    /\ UNCHANGED <<persisted, pc, item, failure, received, answers, faults,
                   expired>>

(* The lease was committed but the worker saw an error: rows in processing  *)
(* that nobody holds.                                                       *)
LeaseFails(w) ==
    /\ pc[w] = "idle" /\ batch[w] = {}
    /\ \E S \in SUBSET Due : LeaseRows(S)
    /\ Fault
    /\ UNCHANGED <<persisted, pc, item, failure, batch, received, answers,
                   expired>>

(* processLeasedEvent: the last error decides whether the payload is        *)
(* persisted again or only the completion is retried.                       *)
TakeItem(w) ==
    /\ pc[w] = "idle"
    /\ \E i \in batch[w] :
         /\ batch' = [batch EXCEPT ![w] = @ \ {i}]
         /\ item' = [item EXCEPT ![w] = [event |-> i.event, attempt |-> i.attempt]]
         /\ Goto(w, IF i.completion THEN "complete" ELSE "persist")
    /\ UNCHANGED <<status, attempts, lastError, ripe, persisted, failure,
                   received, answers, faults, expired>>

(* An instance crashes or shuts down, or a request's context is cancelled:  *)
(* none of the calls that were to follow has an effect.                     *)
Abandon(a) ==
    /\ pc[a] # "idle" \/ (a \in Workers /\ batch[a] # {})
    /\ GoIdle(a)
    /\ batch' = [w \in Workers |-> IF w = a THEN {} ELSE batch[w]]
    /\ Fault
    /\ UNCHANGED <<status, attempts, lastError, ripe, persisted, received,
                   answers, expired>>

(* Time passes: a scheduled retry is due, or a lease has run out. *)
Elapse(e) ==
    /\ status[e] \in Pending /\ ~ripe[e]
    /\ status[e] = "retry_scheduled" \/ SlowActors \/ Holders(e) = {}
    /\ ripe' = [ripe EXCEPT ![e] = TRUE]
    /\ UNCHANGED <<status, attempts, lastError, persisted, pc, item, failure,
                   batch, received, answers, faults, expired>>

(* Mutant: rows are chosen by age alone. *)
ChooseExpiredAnyStatus(e) ==
    /\ RetentionEnabled
    /\ status[e] # "absent"
    /\ expired' = expired \cup {e}
    /\ UNCHANGED <<status, attempts, lastError, ripe, persisted, pc, item, failure,
                   batch, received, answers, faults>>

(* DeleteExpiredIngestEvents: its candidates are settled rows of its        *)
(* snapshot, and which of those are old enough is left open.                *)
ChooseExpired(e) ==
    /\ RetentionEnabled
    /\ status[e] \in Terminal
    /\ expired' = expired \cup {e}
    /\ UNCHANGED <<status, attempts, lastError, ripe, persisted, pc, item, failure,
                   batch, received, answers, faults>>

(* The candidates are deleted by key: one that a late attempt has changed   *)
(* in the meantime still has its key, so it is deleted in any status.       *)
DeleteExpired(S) ==
    /\ S # {} /\ S \subseteq expired
    /\ status' = [e \in Events |-> IF e \in S THEN "absent" ELSE status[e]]
    /\ attempts' = [e \in Events |-> IF e \in S THEN 0 ELSE attempts[e]]
    /\ lastError' = [e \in Events |-> IF e \in S THEN "none" ELSE lastError[e]]
    /\ ripe' = [e \in Events |-> ripe[e] /\ e \notin S]
    /\ expired' = expired \ S
    /\ UNCHANGED <<persisted, pc, item, failure, batch, received, answers, faults>>

-----------------------------------------------------------------------------
ActorNext(a) ==
    \/ Persist(a)
    \/ Complete(a)
    \/ Record(a)
    \/ RecordFails(a)
    \/ Abandon(a)
    \/ \E class \in ErrorClasses : PersistFails(a, class)
    \/ \E class \in ErrorClasses : CompleteFails(a, class)

HandlerNext(h) ==
    \/ \E e \in Events : Claim(h, e)
    \/ \E e \in Events : ClaimFails(h, e)
    \/ Lookup(h)

WorkerNext(w) ==
    \/ Lease(w)
    \/ LeaseFails(w)
    \/ TakeItem(w)

Next ==
    \/ \E a \in Actors : ActorNext(a)
    \/ \E h \in Handlers : HandlerNext(h)
    \/ \E w \in Workers : WorkerNext(w)
    \/ \E e \in Events : Elapse(e)
    \/ \E e \in Events : ChooseExpired(e)
    \/ \E S \in SUBSET Events : DeleteExpired(S)

Spec == Init /\ [][Next]_vars

(* A goroutine that can make its next call eventually does, a worker's      *)
(* ticker keeps firing and clocks advance; producers need not deliver,      *)
(* nothing has to fail, and retention need not run.                         *)
Fairness ==
    /\ \A h \in Handlers : WF_vars(Lookup(h))
    /\ \A a \in Actors : WF_vars(Persist(a)) /\ WF_vars(Complete(a)) /\ WF_vars(Record(a))
    /\ \A w \in Workers : WF_vars(Lease(w)) /\ WF_vars(TakeItem(w))
    /\ \A e \in Events : WF_vars(Elapse(e))

FairSpec == Spec /\ Fairness
-----------------------------------------------------------------------------
(* The variables range over the rows, actors and outcomes described above. *)
TypeOK ==
    /\ status \in [Events -> Pending \cup Terminal \cup {"absent"}]
    /\ attempts \in [Events -> Nat]
    /\ lastError \in [Events -> Stages \cup {"none"}]
    /\ ripe \in [Events -> BOOLEAN]
    /\ persisted \subseteq Events
    /\ pc \in [Actors -> Working \cup {"idle", "lookup"}]
    /\ item \in [Actors -> Items]
    /\ failure \in [Actors -> Failures]
    /\ batch \in [Workers -> SUBSET LeasedItems]
    /\ expired \subseteq Events
    /\ received \subseteq Events
    /\ answers \in [Events -> SUBSET Outcomes]
    /\ faults \in Nat

(* A row is completed only if the event's data is in the entity tables,     *)
(* although a completion retry skips the persist call, MarkEventCompleted   *)
(* checks nothing, and rows are re-leased, dead-lettered and deleted under  *)
(* the actors that work on them.                                            *)
CompletedIsPersisted ==
    \A e \in Events : status[e] = "completed" => e \in persisted

(* A producer that was told accepted (201) or duplicate (200) need not send *)
(* again: the data was committed, whichever attempt of whichever actor did  *)
(* it.                                                                      *)
AcknowledgedIsPersisted ==
    \A e \in Events : answers[e] \cap {"accepted", "duplicate"} # {} => e \in persisted

(* isCompletionRetry trusts the text of last_error, which any actor may     *)
(* have written: whenever it makes a worker skip the persist call, the data *)
(* is there already.                                                        *)
CompletionRetryIsPersisted ==
    /\ \A e \in Events : lastError[e] = "completion" => e \in persisted
    /\ \A w \in Workers : \A i \in batch[w] : i.completion => i.event \in persisted

(* No two actors are ever given the same attempt at the same event, neither *)
(* by concurrent leases nor by a lease and a claim, so every attempt_count  *)
(* a producer or an operator sees stands for one execution. (It takes a     *)
(* ledger whose rows are not deleted: a new row counts from 1 again.)       *)
AttemptHasOneHolder ==
    /\ \A a, b \in Actors :
         /\ pc[a] \in Working /\ pc[b] \in Working
         /\ item[a] = item[b]
         => a = b
    /\ \A w, v \in Workers : \A i \in batch[w], j \in batch[v] :
         i.event = j.event /\ i.attempt = j.attempt => w = v /\ i = j
    /\ \A a \in Actors : \A w \in Workers : \A i \in batch[w] :
         pc[a] \in Working => item[a] # [event |-> i.event, attempt |-> i.attempt]

(* When no attempt outlives its lease, an accepted event stays completed:   *)
(* nothing that happens after the 201 touches its row.                      *)
AcceptedStaysCompleted ==
    \A e \in Events : "accepted" \in answers[e] => status[e] = "completed"

(* When no attempt outlives its lease, every attempt after the first has a  *)
(* fault of its own behind it: nothing is executed again for no reason, and *)
(* an event's attempt_count is at most one more than the faults it met.     *)
EveryRetryHasACause ==
    \A e \in Events : attempts[e] <= faults + 1

(* An event waits for another attempt only if it has one left, although the *)
(* actor that records a failure may be a late one and the count it is held  *)
(* against is that of a later attempt.                                      *)
ScheduledHasBudget ==
    \A e \in Events : status[e] = "retry_scheduled" => attempts[e] < MaxAttempts

(* Every event that reaches the ledger is settled for good in the end, as   *)
(* faults are finitely many: late attempts may reopen a settled row, but    *)
(* not for ever, and no row stays in processing without a holder.           *)
SettlesForGood ==
    \A e \in Events : (status[e] # "absent") ~> [](status[e] \in Terminal)

-----------------------------------------------------------------------------
(* What the pipeline promises its producers, see IngestContract: a handler  *)
(* or worker step is a step of the contract or leaves it unchanged.         *)
RowView(st) ==
    CASE st = "absent" -> "absent"
      [] st \in Pending -> "pending"
      [] st = "completed" -> "done"
      [] st = "dead_letter" -> "failed"

LedgerView == [e \in Events |-> RowView(status[e])]

Acknowledged == {e \in Events : answers[e] \cap {"accepted", "duplicate"} # {}}

Contract == INSTANCE IngestContract
              WITH row <- LedgerView, applied <- persisted, acked <- Acknowledged

(* The pipeline implements the producer's contract, faults included. *)
ImplementsContract == Contract!Spec

(* With fair scheduling it keeps the contract's liveness too, also when     *)
(* retention deletes rows and producers deliver the same events again.      *)
PendingIsSettled == Contract!EventuallySettled

-----------------------------------------------------------------------------
(* What the documents say and the code does not do; see the README. *)

(* "retry transient ingest persistence failures using bounded retry         *)
(* attempts": no event is attempted more than MaxAttempts times.            *)
AttemptsWithinBudget ==
    \A e \in Events : attempts[e] <= MaxAttempts

(* "the duplicate request is treated as already processed": once a producer *)
(* was told accepted, every later delivery of the event is a duplicate.     *)
AcceptedThenDuplicate ==
    [][\A e \in Events : "accepted" \in answers[e] =>
         answers'[e] \subseteq answers[e] \cup {"duplicate"}]_vars

(* "Temporary database outage ... the event is scheduled for retry": a lost *)
(* connection does not dead-letter an event that has attempts left.         *)
OutageIsRetried ==
    [][\A a \in Actors, e \in Events :
         /\ pc[a] = "record" /\ pc'[a] = "idle"
         /\ item[a].event = e /\ failure[a].class = "disconnected"
         /\ status[e] = "processing" /\ attempts[e] < MaxAttempts
         => status'[e] # "dead_letter"]_vars
=============================================================================
