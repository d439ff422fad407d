---------------------------- MODULE AttemptProofs ----------------------------
(***************************************************************************)
(* Who may hold an attempt at an event, and how long the next one waits.   *)
(* Rows that are deleted start to count again, so the theorems about who   *)
(* holds an attempt are about a pipeline without retention; two of them    *)
(* are about one in which no attempt outlives its lease, too.              *)
(***************************************************************************)
EXTENDS IngestPipelineProofs, IngestRetries, WellFoundedInduction

Busy(a) == pc[a] \in Working

(* Every attempt in a hand or in a batch has been counted in its row. *)
HeldIsCounted ==
    /\ \A a \in Actors : Busy(a) =>
         /\ item[a].event \in Events /\ status[item[a].event] # "absent"
         /\ item[a].attempt <= attempts[item[a].event]
    /\ \A w \in Workers : \A i \in batch[w] :
         status[i.event] # "absent" /\ i.attempt <= attempts[i.event]

(* The inductive invariant: a new attempt gets a number above all others. *)
HoldersInv == expired = {} /\ HeldIsCounted /\ AttemptHasOneHolder

(* The steps in which no actor takes up an attempt: hands and batches only  *)
(* become fewer, and counts only grow.                                      *)
NoneTakesUp ==
    /\ \A a \in Actors : pc'[a] \in Working => Busy(a) /\ item'[a] = item[a]
    /\ \A w \in Workers : batch'[w] \subseteq batch[w]
    /\ \A e \in Events :
         status[e] # "absent" => status'[e] # "absent" /\ attempts[e] <= attempts'[e]
    /\ expired' = {}

-----------------------------------------------------------------------------
(* Which steps these are. *)
LEMMA StepsThatTakeUp ==
  ASSUME ~RetentionEnabled, DurableInv, HoldersInv, [Next]_vars
  PROVE  \/ NoneTakesUp
         \/ \E h \in Handlers, e \in Events : Claim(h, e) /\ status[e] = "absent"
         \/ \E w \in Workers : Lease(w) \/ TakeItem(w)
  <1>0. TypeOK /\ expired = {}
    BY DEF DurableInv, HoldersInv
  <1> USE <1>0 DEF NoneTakesUp, Busy
  <1>1. ASSUME NEW h \in Handlers, NEW e \in Events, Claim(h, e), status[e] # "absent" PROVE NoneTakesUp
    BY <1>1 DEF Claim, TypeOK, Goto, Working, ledger, Actors
  <1>2. ASSUME NEW h \in Handlers, NEW e \in Events, ClaimFails(h, e) PROVE NoneTakesUp
    BY <1>2 DEF ClaimFails, InsertRow, TypeOK
  <1>3. ASSUME NEW h \in Handlers, Lookup(h) PROVE NoneTakesUp
    BY <1>3 DEF Lookup, GoIdle, Goto, TypeOK, Working, Actors
  <1>4. ASSUME NEW a \in Actors, ActorNext(a) PROVE NoneTakesUp
    <2>1. /\ \A b \in Actors : pc'[b] \in Working => pc[b] \in Working /\ item'[b] = item[b]
          /\ \A w \in Workers : batch'[w] \subseteq batch[w]
          /\ expired' = {}
      BY <1>4 DEF ActorNext, Persist, PersistFails, Complete, CompleteFails, Record, RecordFails,
         Abandon, GoIdle, GoRecord, Goto, TypeOK, Working
    <2>2. \/ UNCHANGED ledger
          \/ MarkEventCompleted(item[a].event)
          \/ RecordEventFailure(item[a].event, failure[a])
      BY <1>4 DEF ActorNext, Persist, PersistFails, Complete, CompleteFails, Record, RecordFails,
         Abandon, ledger
    <2>3. \A e \in Events :
            status[e] # "absent" => status'[e] # "absent" /\ attempts[e] <= attempts'[e]
      <3>1. CASE UNCHANGED ledger
        BY <3>1 DEF ledger, TypeOK
      <3>2. CASE MarkEventCompleted(item[a].event)
        BY <3>2 DEF MarkEventCompleted, ledger, TypeOK
      <3>3. CASE RecordEventFailure(item[a].event, failure[a])
        <4> DEFINE settled == FailureStatus(item[a].event, failure[a])
        <4>1. settled # "absent"
          BY DEF FailureStatus
        <4>2. attempts' = attempts /\ status' = [status EXCEPT ![item[a].event] = settled]
          BY <3>3 DEF RecordEventFailure
        <4> HIDE DEF settled
        <4> QED BY <4>1, <4>2 DEF TypeOK
      <3> QED BY <2>2, <3>1, <3>2, <3>3
    <2> QED BY <2>1, <2>3
  <1>5. ASSUME NEW w \in Workers, LeaseFails(w) PROVE NoneTakesUp
    BY <1>5 DEF LeaseFails, LeaseRows, TypeOK
  <1>6. ASSUME NEW e \in Events, Elapse(e) PROVE NoneTakesUp
    BY <1>6 DEF Elapse, TypeOK
  <1>7. ASSUME NEW S \in SUBSET Events, DeleteExpired(S) PROVE FALSE
    BY <1>7 DEF DeleteExpired
  <1>8. ASSUME NEW e \in Events, ChooseExpired(e) PROVE FALSE
    BY <1>8 DEF ChooseExpired
  <1>9. CASE UNCHANGED vars
    BY <1>9 DEF vars, TypeOK
  <1> QED BY <1>1, <1>2, <1>3, <1>4, <1>5, <1>6, <1>7, <1>8, <1>9
          DEF Next, HandlerNext, WorkerNext

(* A hand or a batch that had an attempt of its own still has it. *)
LEMMA HoldersStep ==
  ASSUME ~RetentionEnabled, DurableInv, HoldersInv, [Next]_vars
  PROVE  HoldersInv'
  <1>0. TypeOK /\ HeldIsCounted /\ AttemptHasOneHolder /\ expired = {}
    BY DEF DurableInv, HoldersInv
  <1>a. \A w \in Workers : \A i \in batch[w] :
          i.event \in Events /\ i.attempt \in Nat /\ i.completion \in BOOLEAN
    BY <1>0 DEF TypeOK, LeasedItems
  <1>b. \A a \in Actors : item[a].attempt \in Nat
    BY <1>0 DEF TypeOK, Items
  <1>c. \A e \in Events : attempts[e] \in Nat /\ attempts'[e] \in Nat
    BY <1>0, TypeStep DEF TypeOK
  <1>1. CASE NoneTakesUp
    <2>1. \A a \in Actors : Busy(a)' =>
            /\ item'[a].event \in Events /\ status'[item'[a].event] # "absent"
            /\ item'[a].attempt <= attempts'[item'[a].event]
      BY <1>0, <1>1, <1>b, <1>c DEF HeldIsCounted, NoneTakesUp, Busy
    <2>2. \A w \in Workers : \A i \in batch'[w] :
            status'[i.event] # "absent" /\ i.attempt <= attempts'[i.event]
      BY <1>0, <1>1, <1>a, <1>c DEF HeldIsCounted, NoneTakesUp
    <2>3. HeldIsCounted'
      BY <2>1, <2>2 DEF HeldIsCounted
    <2>4. AttemptHasOneHolder'
      BY <1>0, <1>1 DEF AttemptHasOneHolder, NoneTakesUp, Busy
    <2> QED BY <1>1, <2>3, <2>4 DEF HoldersInv, NoneTakesUp
  <1>2. ASSUME NEW h \in Handlers, NEW e \in Events, Claim(h, e), status[e] = "absent"
        PROVE  HoldersInv'
    <2>1. /\ h \in Actors
          /\ item' = [item EXCEPT ![h] = [event |-> e, attempt |-> 1]]
          /\ pc' = [pc EXCEPT ![h] = "persist"]
          /\ InsertRow(e) /\ batch' = batch /\ expired' = expired
      BY <1>2 DEF Claim, Goto, Actors
    <2>2. HeldIsCounted'
      BY <1>0, <1>a, <1>b, <1>2, <2>1 DEF HeldIsCounted, Busy, InsertRow, TypeOK
    <2>3. /\ \A a \in Actors : pc[a] \in Working => item[a].event # e
          /\ \A w \in Workers : \A i \in batch[w] : i.event # e
      BY <1>0, <1>2 DEF HeldIsCounted, Busy
    <2>4. AttemptHasOneHolder'
      BY <1>0, <2>1, <2>3 DEF AttemptHasOneHolder, TypeOK
    <2> QED BY <1>0, <2>1, <2>2, <2>4 DEF HoldersInv
  <1>3. ASSUME NEW w \in Workers, Lease(w) PROVE HoldersInv'
    <2> DEFINE leased(S) == {[event |-> e, attempt |-> attempts[e] + 1,
                              completion |-> lastError[e] = "completion"] : e \in S}
    <2>1. PICK S \in SUBSET Due : LeaseRows(S) /\ batch' = [batch EXCEPT ![w] = leased(S)]
      BY <1>3 DEF Lease
    <2>2. UNCHANGED <<pc, item, expired>> /\ batch[w] = {}
      BY <1>3 DEF Lease
    <2>3. \A e \in S : e \in Events /\ attempts[e] \in Nat
      BY <1>0 DEF TypeOK, Due
    <2>4. \A i \in leased(S) : i.event \in S /\ i.attempt = attempts[i.event] + 1
      OBVIOUS
    <2>5. \A i, j \in leased(S) : i.event = j.event => i = j
      OBVIOUS
    <2>6. batch'[w] = leased(S) /\ \A v \in Workers \ {w} : batch'[v] = batch[v]
      BY <1>0, <2>1 DEF TypeOK
    <2> HIDE DEF leased
    <2>7. HeldIsCounted'
      <3>1. \A e \in Events : /\ status[e] # "absent" => status'[e] # "absent"
                              /\ attempts[e] <= attempts'[e]
                              /\ e \in S => status'[e] = "processing" /\ attempts'[e] = attempts[e] + 1
        BY <1>0, <2>1 DEF LeaseRows, TypeOK
      <3>2. \A a \in Actors : Busy(a)' =>
              /\ item'[a].event \in Events /\ status'[item'[a].event] # "absent"
              /\ item'[a].attempt <= attempts'[item'[a].event]
        <4>1. \A e \in Events : attempts[e] \in Nat /\ attempts'[e] \in Nat
          BY <1>0, <2>1 DEF LeaseRows, TypeOK
        <4> QED BY <1>0, <1>b, <2>2, <3>1, <4>1 DEF HeldIsCounted, Busy
      <3>3. \A v \in Workers : \A i \in batch'[v] :
              status'[i.event] # "absent" /\ i.attempt <= attempts'[i.event]
        <4>1. \A e \in Events : attempts[e] \in Nat /\ attempts'[e] \in Nat
          BY <1>0, <2>1 DEF LeaseRows, TypeOK
        <4>2. \A i \in leased(S) : status'[i.event] # "absent" /\ i.attempt <= attempts'[i.event]
          BY <2>3, <2>4, <3>1, <4>1
        <4>3. \A v \in Workers \ {w} : \A i \in batch[v] :
                status'[i.event] # "absent" /\ i.attempt <= attempts'[i.event]
          BY <1>0, <1>a, <3>1, <4>1 DEF HeldIsCounted
        <4> QED BY <2>6, <4>2, <4>3
      <3> QED BY <3>2, <3>3 DEF HeldIsCounted
    <2>8. AttemptHasOneHolder'
      <3>1. \A i \in leased(S) : i.attempt > attempts[i.event]
        BY <2>3, <2>4
      <3>2. \A v \in Workers \ {w} : \A j \in batch[v], i \in leased(S) :
              ~(i.event = j.event /\ i.attempt = j.attempt)
        BY <1>0, <1>a, <2>3, <2>4 DEF HeldIsCounted
      <3>3. \A a \in Actors : \A i \in leased(S) :
              pc[a] \in Working => item[a] # [event |-> i.event, attempt |-> i.attempt]
        BY <1>0, <1>b, <2>3, <2>4 DEF HeldIsCounted, Busy
      <3>4. \A u, v \in Workers : \A i \in batch'[u], j \in batch'[v] :
              i.event = j.event /\ i.attempt = j.attempt => u = v /\ i = j
        BY <1>0, <2>5, <2>6, <3>2 DEF AttemptHasOneHolder
      <3>5. \A a \in Actors : \A v \in Workers : \A i \in batch'[v] :
              pc'[a] \in Working => item'[a] # [event |-> i.event, attempt |-> i.attempt]
        BY <1>0, <2>2, <2>6, <3>3 DEF AttemptHasOneHolder
      <3> QED BY <1>0, <2>2, <3>4, <3>5 DEF AttemptHasOneHolder
    <2> QED BY <1>0, <2>2, <2>7, <2>8 DEF HoldersInv
  <1>4. ASSUME NEW w \in Workers, TakeItem(w) PROVE HoldersInv'
    <2>1. PICK i \in batch[w] :
            /\ batch' = [batch EXCEPT ![w] = @ \ {i}]
            /\ item' = [item EXCEPT ![w] = [event |-> i.event, attempt |-> i.attempt]]
            /\ pc' = [pc EXCEPT ![w] = IF i.completion THEN "complete" ELSE "persist"]
      BY <1>4 DEF TakeItem, Goto
    <2>2. w \in Actors /\ UNCHANGED <<status, attempts, expired>>
      BY <1>4 DEF TakeItem, Actors
    <2>3. /\ \A v \in Workers : batch'[v] \subseteq batch[v]
          /\ batch'[w] = batch[w] \ {i}
          /\ item'[w] = [event |-> i.event, attempt |-> i.attempt]
          /\ \A a \in Actors \ {w} : item'[a] = item[a] /\ pc'[a] = pc[a]
      BY <1>0, <2>1, <2>2 DEF TypeOK
    <2>4. HeldIsCounted'
      BY <1>0, <1>a, <2>1, <2>2, <2>3 DEF HeldIsCounted, Busy
    <2>5. \A a \in Actors \ {w} : pc[a] \in Working => item[a] # item'[w]
      BY <1>0, <2>1, <2>3 DEF AttemptHasOneHolder
    <2>6. \A v \in Workers : \A j \in batch'[v] :
            ~(j.event = i.event /\ j.attempt = i.attempt)
      BY <1>0, <2>1, <2>3 DEF AttemptHasOneHolder
    <2>7. AttemptHasOneHolder'
      BY <1>0, <2>3, <2>5, <2>6 DEF AttemptHasOneHolder
    <2> QED BY <1>0, <2>2, <2>4, <2>7 DEF HoldersInv
  <1> QED BY <1>1, <1>2, <1>3, <1>4, StepsThatTakeUp

(* No two actors are ever given the same attempt at an event, for any       *)
(* number of them and any batches, while no row is deleted: attempt_count   *)
(* numbers the executions, also those of late actors.                       *)
THEOREM AttemptsHaveOneHolder ==
  ASSUME ~RetentionEnabled
  PROVE  Spec => []AttemptHasOneHolder
  <1>1. Init => HoldersInv
    BY DEF Init, HoldersInv, HeldIsCounted, Busy, AttemptHasOneHolder, Working
  <1>2. DurableInv /\ HoldersInv /\ [Next]_vars => HoldersInv'
    BY HoldersStep
  <1>3. HoldersInv => AttemptHasOneHolder
    BY DEF HoldersInv
  <1> QED BY <1>1, <1>2, <1>3, Durable, PTL DEF Spec

-----------------------------------------------------------------------------
(* From here on no attempt outlives its lease. *)

Unheld(e) ==
    /\ \A a \in Actors : Busy(a) => item[a].event # e
    /\ \A w \in Workers : \A i \in batch[w] : i.event # e

(* An event is in one hand, or in one batch, at a time. *)
OneHolder ==
    /\ \A a, b \in Actors : Busy(a) /\ Busy(b) /\ item[a].event = item[b].event => a = b
    /\ \A w, v \in Workers : \A i \in batch[w], j \in batch[v] : i.event = j.event => w = v /\ i = j
    /\ \A a \in Actors : \A w \in Workers : \A i \in batch[w] : Busy(a) => item[a].event # i.event

(* Nobody can lease the row of an event that is held, and only its holder   *)
(* has changed it: a completion whose answer was lost is still to come.     *)
HeldRowIsProcessing ==
    /\ \A a \in Actors : Busy(a) =>
         /\ item[a].event \in Events /\ ~ripe[item[a].event]
         /\ "accepted" \notin answers[item[a].event]
         /\ \/ status[item[a].event] = "processing"
            \/ pc[a] = "record" /\ status[item[a].event] = "completed"
    /\ \A w \in Workers : \A i \in batch[w] : status[i.event] = "processing" /\ ~ripe[i.event]

(* A row that waits for another attempt, or lost its holder, or is about to *)
(* be given up by it, has a fault for each attempt so far.                  *)
FaultsAreCounted ==
    /\ \A e \in Events :
         /\ attempts[e] <= faults + 1
         /\ status[e] = "retry_scheduled" => attempts[e] <= faults
         /\ status[e] = "processing" /\ (ripe[e] \/ Unheld(e)) => attempts[e] <= faults
    /\ \A a \in Actors : pc[a] = "record" => attempts[item[a].event] <= faults

PromptInv ==
    /\ expired = {}
    /\ OneHolder
    /\ HeldRowIsProcessing
    /\ FaultsAreCounted
    /\ AcceptedStaysCompleted

(* Giving an attempt up keeps the others apart. *)
LEMMA HoldersBecomeFewer ==
  ASSUME OneHolder,
         \A a \in Actors : pc'[a] \in Working => Busy(a) /\ item'[a] = item[a],
         \A w \in Workers : batch'[w] \subseteq batch[w]
  PROVE  OneHolder'
  BY DEF OneHolder, Busy

(* The steps of an actor that works on an attempt. *)
LEMMA PromptActor ==
  ASSUME ~SlowActors, ~RetentionEnabled, DurableInv, PromptInv, TypeOK',
         NEW a \in Actors, ActorNext(a)
  PROVE  PromptInv'
  <1> DEFINE e == item[a].event
  <1>0. /\ TypeOK /\ expired = {} /\ OneHolder /\ HeldRowIsProcessing
        /\ FaultsAreCounted /\ AcceptedStaysCompleted
    BY DEF DurableInv, PromptInv
  <1>a. /\ \A d \in Events : attempts[d] \in Nat /\ attempts'[d] \in Nat
        /\ faults \in Nat /\ faults' \in Nat
    BY <1>0 DEF TypeOK
  <1>b. \A w \in Workers : \A i \in batch[w] : i.event \in Events
    BY <1>0 DEF TypeOK, LeasedItems
  <1>c. /\ \A b \in Actors \ {a} : pc'[b] = pc[b] /\ item'[b] = item[b]
        /\ pc'[a] \in Working => Busy(a) /\ item'[a] = item[a]
        /\ \A w \in Workers : batch'[w] \subseteq batch[w] /\ (w # a => batch'[w] = batch[w])
        /\ expired' = {}
    BY <1>0 DEF ActorNext, Persist, PersistFails, Complete, CompleteFails, Record, RecordFails,
       Abandon, GoIdle, GoRecord, Goto, TypeOK, Working, Busy
  <1>d. OneHolder'
    <2>1. \A b \in Actors : pc'[b] \in Working => Busy(b) /\ item'[b] = item[b]
      BY <1>c DEF Busy
    <2> QED BY <1>0, <1>c, <2>1, HoldersBecomeFewer
  <1>e. Busy(a) => /\ e \in Events
                   /\ \A b \in Actors \ {a} : Busy(b) => item[b].event # e
                   /\ \A w \in Workers : \A i \in batch[w] : i.event # e
    BY <1>0 DEF OneHolder, HeldRowIsProcessing
  <1>1. CASE Persist(a)
    <2>1. /\ Busy(a) /\ pc'[a] = "complete" /\ pc[a] = "persist" /\ item' = item /\ batch' = batch
          /\ UNCHANGED <<status, attempts, ripe, answers, faults>>
      BY <1>0, <1>1 DEF Persist, Goto, TypeOK, Busy, Working
    <2>2. HeldRowIsProcessing'
      BY <1>0, <1>c, <2>1 DEF HeldRowIsProcessing, Busy
    <2>3. FaultsAreCounted'
      <3>1. \A d \in Events : Unheld(d)' => Unheld(d)
        BY <1>c, <2>1 DEF Unheld, Busy, Working
      <3> QED BY <1>0, <1>c, <2>1, <3>1 DEF FaultsAreCounted
    <2>4. AcceptedStaysCompleted'
      BY <1>0, <2>1 DEF AcceptedStaysCompleted
    <2> QED BY <1>c, <1>d, <2>2, <2>3, <2>4 DEF PromptInv
  <1>2. ASSUME NEW class \in ErrorClasses, PersistFails(a, class) \/ CompleteFails(a, class)
        PROVE  PromptInv'
    <2>1. /\ Busy(a) /\ pc[a] \in {"persist", "complete"} /\ pc'[a] = "record"
          /\ item' = item /\ batch' = batch /\ answers' = answers /\ faults' = faults + 1
      BY <1>0, <1>2 DEF PersistFails, CompleteFails, GoRecord, Goto, Fault, TypeOK, Busy, Working
    <2>2. /\ status[e] = "processing" /\ ~ripe[e] /\ "accepted" \notin answers[e]
      BY <1>0, <2>1 DEF HeldRowIsProcessing
    <2>3. /\ UNCHANGED <<status, ripe, attempts>> \/ MarkEventCompleted(e)
      BY <1>2 DEF PersistFails, CompleteFails, ledger
    <2>4. /\ \A d \in Events \ {e} : status'[d] = status[d] /\ ripe'[d] = ripe[d]
          /\ status'[e] \in {"processing", "completed"} /\ ~ripe'[e]
          /\ attempts' = attempts
      BY <1>0, <1>e, <2>1, <2>2, <2>3 DEF MarkEventCompleted, TypeOK
    <2>5. HeldRowIsProcessing'
      BY <1>0, <1>b, <1>c, <1>e, <2>1, <2>2, <2>4 DEF HeldRowIsProcessing, Busy
    <2>6. FaultsAreCounted'
      <3>1. \A d \in Events : attempts'[d] <= faults'
        BY <1>0, <1>a, <2>1, <2>4 DEF FaultsAreCounted
      <3>2. \A b \in Actors : pc'[b] = "record" => item'[b].event \in Events
        BY <2>5 DEF HeldRowIsProcessing, Busy, Working
      <3> QED BY <1>a, <3>1, <3>2 DEF FaultsAreCounted
    <2>7. AcceptedStaysCompleted'
      BY <1>0, <1>e, <2>1, <2>2, <2>4 DEF AcceptedStaysCompleted
    <2> QED BY <1>c, <1>d, <2>5, <2>6, <2>7 DEF PromptInv
  <1>3. CASE Complete(a)
    <2>1. /\ Busy(a) /\ pc[a] = "complete" /\ pc'[a] = "idle" /\ batch' = batch /\ faults' = faults
          /\ MarkEventCompleted(e)
          /\ \A d \in Events \ {e} : answers'[d] = answers[d]
      BY <1>0, <1>3 DEF Complete, GoIdle, Goto, Answer, TypeOK, Busy, Working
    <2>2. status[e] = "processing"
      BY <1>0, <2>1 DEF HeldRowIsProcessing
    <2>3. /\ \A d \in Events \ {e} : status'[d] = status[d] /\ ripe'[d] = ripe[d]
          /\ status'[e] = "completed"
          /\ attempts' = attempts
      BY <1>0, <1>e, <2>1, <2>2 DEF MarkEventCompleted, TypeOK
    <2>4. HeldRowIsProcessing'
      BY <1>0, <1>b, <1>c, <1>e, <2>1, <2>3 DEF HeldRowIsProcessing, Busy, Working
    <2>5. FaultsAreCounted'
      <3>1. \A d \in Events \ {e} : Unheld(d)' => Unheld(d)
        BY <1>c, <2>1 DEF Unheld, Busy, Working
      <3>2. \A b \in Actors : pc'[b] = "record" => pc[b] = "record" /\ item'[b] = item[b]
        BY <1>c, <2>1
      <3> QED BY <1>0, <1>a, <2>1, <2>3, <3>1, <3>2 DEF FaultsAreCounted
    <2>6. AcceptedStaysCompleted'
      BY <1>0, <2>1, <2>3 DEF AcceptedStaysCompleted
    <2> QED BY <1>c, <1>d, <2>4, <2>5, <2>6 DEF PromptInv
  <1>4. CASE Record(a) \/ RecordFails(a) \/ Abandon(a)
    <2> DEFINE settled == FailureStatus(e, failure[a])
    <2>1. /\ pc'[a] = "idle"
          /\ Abandon(a) \/ RecordFails(a) => faults' = faults + 1
          /\ Record(a) => faults' = faults
          /\ Record(a) \/ RecordFails(a) => Busy(a) /\ pc[a] = "record" /\ batch' = batch
          /\ RecordFails(a) \/ Abandon(a) => answers' = answers
      BY <1>0, <1>4 DEF Record, RecordFails, Abandon, GoIdle, Goto, Fault, TypeOK, Busy, Working
    <2>2. settled \in {"retry_scheduled", "dead_letter"}
      BY DEF FailureStatus
    <2>3. \/ Abandon(a) /\ UNCHANGED <<status, ripe, attempts>>
          \/ RecordFails(a) /\ UNCHANGED <<status, ripe, attempts>>
          \/ /\ Busy(a) /\ pc[a] = "record" /\ attempts' = attempts
             /\ status' = [status EXCEPT ![e] = settled]
             /\ ripe' = [ripe EXCEPT ![e] = FALSE]
             /\ Record(a) \/ RecordFails(a)
      <3>1. Busy(a) => status[e] # "absent"
        BY <1>0 DEF HeldRowIsProcessing
      <3> QED BY <1>4, <2>1, <3>1 DEF Record, RecordFails, Abandon, RecordEventFailure, ledger
    <2>4. /\ \A d \in Events : d # e => answers'[d] = answers[d]
          /\ Busy(a) => "accepted" \notin answers'[e]
      <3>1. Busy(a) => "accepted" \notin answers[e] /\ status[e] # "absent"
        BY <1>0 DEF HeldRowIsProcessing
      <3>2. CASE Record(a)
        <4>1. Answer(a, settled)
          BY <2>1, <3>1, <3>2 DEF Record
        <4> HIDE DEF settled
        <4> QED BY <1>0, <1>e, <2>1, <2>2, <3>1, <3>2, <4>1 DEF Answer, TypeOK
      <3> QED BY <1>4, <2>1, <3>1, <3>2
    <2> HIDE DEF settled
    <2>5. /\ \A d \in Events : d # e => status'[d] = status[d] /\ ripe'[d] = ripe[d]
          /\ attempts' = attempts
          /\ ~Busy(a) => status'= status /\ ripe' = ripe
      BY <1>0, <2>3 DEF TypeOK
    <2>6. HeldRowIsProcessing'
      <3>1. \A b \in Actors : pc'[b] \in Working => b # a
        BY <2>1 DEF Working
      <3>2. \A b \in Actors : Busy(b)' =>
              /\ Busy(b) /\ pc'[b] = pc[b] /\ item'[b] = item[b] /\ item[b].event \in Events
              /\ Busy(a) => item[b].event # e
        BY <1>0, <1>c, <1>e, <3>1 DEF Busy, HeldRowIsProcessing
      <3>3. \A b \in Actors : Busy(b)' =>
              /\ status'[item[b].event] = status[item[b].event]
              /\ ripe'[item[b].event] = ripe[item[b].event]
              /\ "accepted" \in answers'[item[b].event] => "accepted" \in answers[item[b].event]
        BY <2>1, <2>3, <2>4, <2>5, <3>2
      <3>4. \A w \in Workers : \A i \in batch[w] :
              status'[i.event] = status[i.event] /\ ripe'[i.event] = ripe[i.event]
        BY <1>b, <1>e, <2>5
      <3> QED BY <1>0, <1>c, <3>2, <3>3, <3>4 DEF HeldRowIsProcessing
    <2>7. FaultsAreCounted'
      <3>1. \A b \in Actors : pc'[b] = "record" =>
              pc[b] = "record" /\ item'[b] = item[b] /\ item[b].event \in Events
        BY <1>0, <1>c, <2>1 DEF HeldRowIsProcessing, Busy, Working
      <3>2. CASE faults' = faults + 1
        <4>1. \A d \in Events : attempts'[d] <= faults'
          BY <1>0, <1>a, <2>5, <3>2 DEF FaultsAreCounted
        <4> QED BY <1>a, <3>1, <4>1 DEF FaultsAreCounted
      <3>3. CASE Record(a) /\ faults' = faults
        <4>1. Busy(a) /\ e \in Events /\ attempts[e] <= faults
          BY <1>0, <1>e, <2>1, <3>3 DEF FaultsAreCounted
        <4>2. \A d \in Events \ {e} : Unheld(d)' => Unheld(d)
          BY <1>c, <2>1, <3>3 DEF Unheld, Busy, Working
        <4> QED BY <1>0, <1>a, <2>5, <3>1, <3>3, <4>1, <4>2 DEF FaultsAreCounted
      <3> QED BY <1>4, <2>1, <3>2, <3>3
    <2>8. AcceptedStaysCompleted'
      BY <1>0, <1>e, <2>4, <2>5, <2>3, <2>1 DEF AcceptedStaysCompleted
    <2> QED BY <1>c, <1>d, <2>6, <2>7, <2>8 DEF PromptInv
  <1> QED BY <1>1, <1>2, <1>3, <1>4 DEF ActorNext

(* A producer's delivery, and the answer it gets if there is a row already. *)
LEMMA PromptHandler ==
  ASSUME DurableInv, PromptInv, TypeOK', NEW h \in Handlers, HandlerNext(h)
  PROVE  PromptInv'
  <1>0. /\ TypeOK /\ expired = {} /\ OneHolder /\ HeldRowIsProcessing
        /\ FaultsAreCounted /\ AcceptedStaysCompleted /\ h \in Actors
    BY DEF DurableInv, PromptInv, Actors
  <1>a. /\ \A d \in Events : attempts[d] \in Nat /\ attempts'[d] \in Nat
        /\ faults \in Nat /\ faults' \in Nat
    BY <1>0 DEF TypeOK
  <1>b. \A w \in Workers : \A i \in batch[w] : i.event \in Events
    BY <1>0 DEF TypeOK, LeasedItems
  <1>1. ASSUME NEW e \in Events, Claim(h, e), status[e] = "absent" PROVE PromptInv'
    <2>1. /\ status' = [status EXCEPT ![e] = "processing"]
          /\ attempts' = [attempts EXCEPT ![e] = 1]
          /\ ripe' = [ripe EXCEPT ![e] = FALSE]
          /\ pc' = [pc EXCEPT ![h] = "persist"]
          /\ item' = [item EXCEPT ![h] = [event |-> e, attempt |-> 1]]
          /\ UNCHANGED <<batch, answers, faults, expired>>
      BY <1>1 DEF Claim, InsertRow, Goto
    <2>2. /\ \A a \in Actors : Busy(a) => item[a].event # e
          /\ \A w \in Workers : \A i \in batch[w] : i.event # e
          /\ "accepted" \notin answers[e]
      BY <1>0, <1>1 DEF HeldRowIsProcessing, AcceptedStaysCompleted
    <2>3. /\ \A a \in Actors \ {h} : pc'[a] = pc[a] /\ item'[a] = item[a]
          /\ pc'[h] = "persist" /\ item'[h].event = e
          /\ \A d \in Events \ {e} : /\ status'[d] = status[d] /\ ripe'[d] = ripe[d]
                                     /\ attempts'[d] = attempts[d]
          /\ status'[e] = "processing" /\ ~ripe'[e] /\ attempts'[e] = 1
      BY <1>0, <2>1 DEF TypeOK
    <2>4. OneHolder'
      BY <1>0, <2>1, <2>2, <2>3 DEF OneHolder, Busy
    <2>5. HeldRowIsProcessing'
      BY <1>0, <1>b, <2>1, <2>2, <2>3 DEF HeldRowIsProcessing, Busy
    <2>6. FaultsAreCounted'
      <3>1. \A d \in Events \ {e} : Unheld(d)' => Unheld(d)
        <4>1. ~Busy(h)
          BY <1>1 DEF Claim, Busy, Working
        <4> QED BY <2>1, <2>3, <4>1 DEF Unheld, Busy
      <3>2. ~Unheld(e)'
        BY <1>0, <2>3 DEF Unheld, Busy, Working
      <3>3. \A a \in Actors : pc'[a] = "record" =>
              pc[a] = "record" /\ item'[a] = item[a] /\ item[a].event \in Events \ {e}
        BY <1>0, <2>2, <2>3 DEF HeldRowIsProcessing, Busy, Working
      <3> QED BY <1>0, <1>a, <2>1, <2>3, <3>1, <3>2, <3>3 DEF FaultsAreCounted
    <2>7. AcceptedStaysCompleted'
      BY <1>0, <2>1, <2>2, <2>3 DEF AcceptedStaysCompleted
    <2> QED BY <1>0, <2>1, <2>4, <2>5, <2>6, <2>7 DEF PromptInv
  <1>2. ASSUME NEW e \in Events, ClaimFails(h, e) PROVE PromptInv'
    <2>1. /\ status[e] = "absent"
          /\ status' = [status EXCEPT ![e] = "processing"]
          /\ attempts' = [attempts EXCEPT ![e] = 1]
          /\ ripe' = [ripe EXCEPT ![e] = FALSE]
          /\ faults' = faults + 1
          /\ UNCHANGED <<pc, item, batch, answers, expired>>
      BY <1>2 DEF ClaimFails, InsertRow, Fault
    <2>2. /\ \A a \in Actors : Busy(a) => item[a].event # e
          /\ \A w \in Workers : \A i \in batch[w] : i.event # e
          /\ "accepted" \notin answers[e]
      BY <1>0, <2>1 DEF HeldRowIsProcessing, AcceptedStaysCompleted
    <2>3. /\ \A d \in Events \ {e} : /\ status'[d] = status[d] /\ ripe'[d] = ripe[d]
                                     /\ attempts'[d] = attempts[d]
          /\ status'[e] = "processing" /\ ~ripe'[e] /\ attempts'[e] = 1
      BY <1>0, <2>1 DEF TypeOK
    <2>4. OneHolder'
      BY <1>0, <2>1 DEF OneHolder, Busy
    <2>5. HeldRowIsProcessing'
      BY <1>0, <1>b, <2>1, <2>2, <2>3 DEF HeldRowIsProcessing, Busy
    <2>6. FaultsAreCounted'
      <3>1. \A d \in Events : attempts'[d] <= faults'
        BY <1>0, <1>a, <2>1, <2>3 DEF FaultsAreCounted
      <3>2. \A a \in Actors : pc'[a] = "record" => item'[a].event \in Events
        BY <2>5 DEF HeldRowIsProcessing, Busy, Working
      <3> QED BY <1>a, <3>1, <3>2 DEF FaultsAreCounted
    <2>7. AcceptedStaysCompleted'
      BY <1>0, <2>1, <2>2, <2>3 DEF AcceptedStaysCompleted
    <2> QED BY <1>0, <2>1, <2>4, <2>5, <2>6, <2>7 DEF PromptInv
  <1>3. ASSUME Lookup(h) \/ \E e \in Events : Claim(h, e) /\ status[e] # "absent"
        PROVE  PromptInv'
    <2>1. /\ UNCHANGED <<status, attempts, ripe, batch, faults, expired>>
          /\ ~Busy(h) /\ pc'[h] \notin Working
          /\ \A a \in Actors \ {h} : pc'[a] = pc[a] /\ item'[a] = item[a]
      BY <1>0, <1>3 DEF Lookup, Claim, GoIdle, Goto, ledger, Busy, Working, TypeOK
    <2>2. \A e \in Events : "accepted" \in answers'[e] => "accepted" \in answers[e]
      <3>1. CASE UNCHANGED answers
        BY <3>1
      <3>2. CASE Lookup(h) /\ status[item[h].event] # "absent"
        <4> DEFINE outcome == ExistingResult(item[h].event)
        <4>1. CASE item[h].event \in Events
          <5>1. outcome # "accepted"
            BY <1>0, <3>2, <4>1 DEF ExistingResult, TypeOK, Pending, Terminal
          <5>2. answers' = [answers EXCEPT ![item[h].event] = @ \cup {outcome}]
            BY <3>2 DEF Lookup, Answer
          <5> HIDE DEF outcome
          <5> QED BY <1>0, <5>1, <5>2 DEF TypeOK
        <4>2. CASE item[h].event \notin Events
          BY <1>0, <3>2, <4>2 DEF Lookup, Answer, TypeOK
        <4> QED BY <4>1, <4>2
      <3> QED BY <1>3, <3>1, <3>2 DEF Lookup, Claim
    <2>3. OneHolder'
      <3>1. \A a \in Actors : pc'[a] \in Working => Busy(a) /\ item'[a] = item[a]
        BY <2>1 DEF Busy
      <3> QED BY <1>0, <2>1, <3>1, HoldersBecomeFewer
    <2>4. HeldRowIsProcessing'
      BY <1>0, <2>1, <2>2 DEF HeldRowIsProcessing, Busy
    <2>5. FaultsAreCounted'
      <3>1. \A e \in Events : Unheld(e)' => Unheld(e)
        BY <2>1 DEF Unheld, Busy
      <3>2. \A a \in Actors : pc'[a] = "record" => pc[a] = "record" /\ item'[a] = item[a]
        BY <2>1 DEF Working
      <3> QED BY <1>0, <2>1, <3>1, <3>2 DEF FaultsAreCounted
    <2>6. AcceptedStaysCompleted'
      BY <1>0, <2>1, <2>2 DEF AcceptedStaysCompleted
    <2> QED BY <1>0, <2>1, <2>3, <2>4, <2>5, <2>6 DEF PromptInv
  <1> QED BY <1>1, <1>2, <1>3 DEF HandlerNext

(* A lease takes rows that nobody holds. *)
LEMMA PromptWorker ==
  ASSUME DurableInv, PromptInv, TypeOK', NEW w \in Workers, WorkerNext(w)
  PROVE  PromptInv'
  <1>0. /\ TypeOK /\ expired = {} /\ OneHolder /\ HeldRowIsProcessing
        /\ FaultsAreCounted /\ AcceptedStaysCompleted /\ w \in Actors
    BY DEF DurableInv, PromptInv, Actors
  <1>a. /\ \A d \in Events : attempts[d] \in Nat /\ attempts'[d] \in Nat
        /\ faults \in Nat /\ faults' \in Nat
    BY <1>0 DEF TypeOK
  <1>b. \A v \in Workers : \A i \in batch[v] : i.event \in Events
    BY <1>0 DEF TypeOK, LeasedItems
  <1>c. \A S \in SUBSET Due : LeaseRows(S) =>
          /\ S \subseteq Events
          /\ \A d \in Events : d \notin S =>
               status'[d] = status[d] /\ attempts'[d] = attempts[d] /\ ripe'[d] = ripe[d]
          /\ \A d \in S : /\ status'[d] = "processing" /\ ~ripe'[d]
                          /\ attempts'[d] = attempts[d] + 1
                          /\ attempts[d] <= faults
                          /\ Unheld(d) /\ "accepted" \notin answers[d]
    <2> SUFFICES ASSUME NEW S \in SUBSET Due, LeaseRows(S)
                 PROVE  /\ S \subseteq Events
                        /\ \A d \in Events : d \notin S =>
                             status'[d] = status[d] /\ attempts'[d] = attempts[d] /\ ripe'[d] = ripe[d]
                        /\ \A d \in S : /\ status'[d] = "processing" /\ ~ripe'[d]
                                        /\ attempts'[d] = attempts[d] + 1
                                        /\ attempts[d] <= faults
                                        /\ Unheld(d) /\ "accepted" \notin answers[d]
      OBVIOUS
    <2>1. \A d \in S : d \in Events /\ status[d] \in {"processing", "retry_scheduled"} /\ ripe[d]
      BY DEF Due, Pending
    <2>2. \A d \in Events : /\ status'[d] = IF d \in S THEN "processing" ELSE status[d]
                            /\ attempts'[d] = IF d \in S THEN attempts[d] + 1 ELSE attempts[d]
                            /\ ripe'[d] = (ripe[d] /\ d \notin S)
      BY DEF LeaseRows
    <2>3. \A d \in S : attempts[d] <= faults
      BY <1>0, <2>1 DEF FaultsAreCounted
    <2>4. \A d \in S : Unheld(d)
      BY <1>0, <2>1 DEF Unheld, HeldRowIsProcessing
    <2>5. \A d \in S : "accepted" \notin answers[d]
      BY <1>0, <2>1 DEF AcceptedStaysCompleted
    <2>6. \A d \in Events : ripe'[d] = ripe[d] \/ d \in S
      BY <1>0, <2>2 DEF TypeOK
    <2> QED BY <2>1, <2>2, <2>3, <2>4, <2>5, <2>6
  <1>1. CASE Lease(w)
    <2> DEFINE leased(S) == {[event |-> e, attempt |-> attempts[e] + 1,
                              completion |-> lastError[e] = "completion"] : e \in S}
    <2>1. PICK S \in SUBSET Due : LeaseRows(S) /\ batch' = [batch EXCEPT ![w] = leased(S)]
      BY <1>1 DEF Lease
    <2>2. UNCHANGED <<pc, item, answers, faults, expired>> /\ batch[w] = {}
      BY <1>1 DEF Lease
    <2>3. /\ \A i \in leased(S) : i.event \in S
          /\ \A i, j \in leased(S) : i.event = j.event => i = j
          /\ \A e \in S : \E i \in leased(S) : i.event = e
      <3>1. \A i \in leased(S) : i.event \in S
        OBVIOUS
      <3>2. \A i, j \in leased(S) : i.event = j.event => i = j
        OBVIOUS
      <3>3. ASSUME NEW e \in S PROVE \E i \in leased(S) : i.event = e
        <4> DEFINE i == [event |-> e, attempt |-> attempts[e] + 1,
                         completion |-> lastError[e] = "completion"]
        <4>1. i \in leased(S) /\ i.event = e
          OBVIOUS
        <4> QED BY <4>1
      <3> QED BY <3>1, <3>2, <3>3
    <2>4. batch'[w] = leased(S) /\ \A v \in Workers \ {w} : batch'[v] = batch[v]
      BY <1>0, <2>1 DEF TypeOK
    <2> HIDE DEF leased
    <2>5. \A e \in S : Unheld(e) /\ e \in Events
      BY <1>c, <2>1
    <2>6. OneHolder'
      <3>1. \A u, v \in Workers : \A i \in batch'[u], j \in batch'[v] :
              i.event = j.event => u = v /\ i = j
        BY <1>0, <2>3, <2>4, <2>5 DEF OneHolder, Unheld
      <3>2. \A a \in Actors : \A v \in Workers : \A i \in batch'[v] :
              Busy(a) => item[a].event # i.event
        BY <1>0, <2>3, <2>4, <2>5 DEF OneHolder, Unheld
      <3> QED BY <1>0, <2>2, <3>1, <3>2 DEF OneHolder, Busy
    <2>7. HeldRowIsProcessing'
      <3>1. \A a \in Actors : Busy(a) => item[a].event \in Events /\ item[a].event \notin S
        BY <1>0, <2>5 DEF Unheld, HeldRowIsProcessing
      <3>2. \A v \in Workers : \A i \in batch'[v] : status'[i.event] = "processing" /\ ~ripe'[i.event]
        BY <1>0, <1>b, <1>c, <2>1, <2>3, <2>4 DEF HeldRowIsProcessing
      <3> QED BY <1>0, <1>c, <2>1, <2>2, <3>1, <3>2 DEF HeldRowIsProcessing, Busy
    <2>8. FaultsAreCounted'
      <3>1. \A e \in S : ~Unheld(e)'
        BY <2>3, <2>4 DEF Unheld
      <3>2. \A e \in Events : Unheld(e)' => Unheld(e)
        BY <2>2, <2>4 DEF Unheld, Busy
      <3>3. \A a \in Actors : pc[a] = "record" => item[a].event \in Events /\ item[a].event \notin S
        BY <1>0, <2>5 DEF Unheld, HeldRowIsProcessing, Busy, Working
      <3>4. \A e \in Events \ S : /\ attempts'[e] <= faults + 1
                                  /\ status'[e] = "retry_scheduled" => attempts'[e] <= faults
                                  /\ status'[e] = "processing" /\ (ripe'[e] \/ Unheld(e)') => attempts'[e] <= faults
        BY <1>0, <1>c, <2>1, <3>2 DEF FaultsAreCounted
      <3>5. \A e \in S : /\ attempts'[e] <= faults + 1 /\ status'[e] = "processing"
                         /\ ~ripe'[e]
        BY <1>a, <1>c, <2>1
      <3>6. \A a \in Actors : pc[a] = "record" => attempts'[item[a].event] <= faults
        BY <1>0, <1>c, <2>1, <3>3 DEF FaultsAreCounted
      <3> QED BY <2>2, <3>1, <3>4, <3>5, <3>6 DEF FaultsAreCounted
    <2>9. AcceptedStaysCompleted'
      BY <1>0, <1>c, <2>1, <2>2 DEF AcceptedStaysCompleted
    <2> QED BY <1>0, <2>2, <2>6, <2>7, <2>8, <2>9 DEF PromptInv
  <1>2. CASE LeaseFails(w)
    <2>1. PICK S \in SUBSET Due : LeaseRows(S)
      BY <1>2 DEF LeaseFails
    <2>2. UNCHANGED <<pc, item, batch, answers, expired>> /\ faults' = faults + 1
      BY <1>2 DEF LeaseFails, Fault
    <2>3. OneHolder'
      BY <1>0, <2>2 DEF OneHolder, Busy
    <2>4. HeldRowIsProcessing'
      <3>1. /\ \A a \in Actors : Busy(a) => item[a].event \in Events /\ item[a].event \notin S
            /\ \A v \in Workers : \A i \in batch[v] : i.event \in Events /\ i.event \notin S
        BY <1>0, <1>b, <1>c, <2>1 DEF Unheld, HeldRowIsProcessing
      <3> QED BY <1>0, <1>c, <2>1, <2>2, <3>1 DEF HeldRowIsProcessing, Busy
    <2>5. FaultsAreCounted'
      <3>1. \A d \in Events : attempts'[d] <= faults'
        BY <1>0, <1>a, <1>c, <2>1, <2>2 DEF FaultsAreCounted
      <3>2. \A a \in Actors : pc'[a] = "record" => item'[a].event \in Events
        BY <2>4 DEF HeldRowIsProcessing, Busy, Working
      <3> QED BY <1>a, <3>1, <3>2 DEF FaultsAreCounted
    <2>6. AcceptedStaysCompleted'
      BY <1>0, <1>c, <2>1, <2>2 DEF AcceptedStaysCompleted
    <2> QED BY <1>0, <2>2, <2>3, <2>4, <2>5, <2>6 DEF PromptInv
  <1>3. CASE TakeItem(w)
    <2>1. PICK i \in batch[w] :
            /\ batch' = [batch EXCEPT ![w] = @ \ {i}]
            /\ item' = [item EXCEPT ![w] = [event |-> i.event, attempt |-> i.attempt]]
            /\ pc' = [pc EXCEPT ![w] = IF i.completion THEN "complete" ELSE "persist"]
      BY <1>3 DEF TakeItem, Goto
    <2>2. UNCHANGED <<status, attempts, ripe, answers, faults, expired>> /\ ~Busy(w)
      BY <1>3 DEF TakeItem, Busy, Working
    <2>3. /\ \A v \in Workers \ {w} : batch'[v] = batch[v]
          /\ batch'[w] = batch[w] \ {i}
          /\ item'[w].event = i.event /\ pc'[w] \in {"complete", "persist"}
          /\ \A a \in Actors \ {w} : item'[a] = item[a] /\ pc'[a] = pc[a]
      BY <1>0, <2>1, <2>2 DEF TypeOK
    <2>4. OneHolder'
      <3>1. \A a \in Actors \ {w} : Busy(a)' => Busy(a) /\ item'[a].event # i.event
        BY <1>0, <2>1, <2>3 DEF OneHolder, Busy
      <3>2. \A v \in Workers : \A j \in batch'[v] : j \in batch[v] /\ j.event # i.event
        BY <1>0, <2>1, <2>3 DEF OneHolder
      <3> QED BY <1>0, <2>1, <2>3, <3>1, <3>2 DEF OneHolder, Busy
    <2>5. HeldRowIsProcessing'
      <3>1. /\ i.event \in Events /\ status[i.event] = "processing" /\ ~ripe[i.event]
            /\ "accepted" \notin answers[i.event]
        BY <1>0, <1>b, <2>1 DEF HeldRowIsProcessing, AcceptedStaysCompleted
      <3> QED BY <1>0, <2>1, <2>2, <2>3, <3>1 DEF HeldRowIsProcessing, Busy
    <2>6. FaultsAreCounted'
      <3>1. \A e \in Events : Unheld(e)' => Unheld(e)
        <4> SUFFICES ASSUME NEW e \in Events, Unheld(e)' PROVE Unheld(e)
          OBVIOUS
        <4>1. i.event # e
          BY <1>0, <2>3 DEF Unheld, Busy, Working
        <4>2. \A v \in Workers : \A j \in batch[v] : j.event # e
          BY <2>1, <2>3, <4>1 DEF Unheld
        <4>3. \A a \in Actors : Busy(a) => item[a].event # e
          BY <2>2, <2>3 DEF Unheld, Busy
        <4> QED BY <4>2, <4>3 DEF Unheld
      <3>2. \A a \in Actors : pc'[a] = "record" => pc[a] = "record" /\ item'[a] = item[a]
        BY <2>3
      <3> QED BY <1>0, <2>2, <3>1, <3>2 DEF FaultsAreCounted
    <2>7. AcceptedStaysCompleted'
      BY <1>0, <2>2 DEF AcceptedStaysCompleted
    <2> QED BY <1>0, <2>2, <2>4, <2>5, <2>6, <2>7 DEF PromptInv
  <1> QED BY <1>1, <1>2, <1>3 DEF WorkerNext

(* Time: the lease of a row runs out only when nobody holds it. *)
LEMMA PromptElapse ==
  ASSUME ~SlowActors, DurableInv, PromptInv, NEW e \in Events, Elapse(e)
  PROVE  PromptInv'
  <1>0. /\ TypeOK /\ expired = {} /\ OneHolder /\ HeldRowIsProcessing
        /\ FaultsAreCounted /\ AcceptedStaysCompleted
    BY DEF DurableInv, PromptInv
  <1>1. /\ UNCHANGED <<status, attempts, pc, item, batch, answers, faults, expired>>
        /\ \A d \in Events \ {e} : ripe'[d] = ripe[d]
        /\ status[e] \in {"processing", "retry_scheduled"}
        /\ status[e] = "retry_scheduled" \/ Holders(e) = {}
    BY <1>0 DEF Elapse, TypeOK, Pending
  <1>2. Unheld(e)
    <2>1. CASE status[e] = "retry_scheduled"
      BY <1>0, <2>1 DEF Unheld, HeldRowIsProcessing
    <2>2. CASE Holders(e) = {}
      BY <2>2 DEF Unheld, Holders, Busy
    <2> QED BY <1>1, <2>1, <2>2
  <1>3. OneHolder'
    BY <1>0, <1>1 DEF OneHolder, Busy
  <1>4. HeldRowIsProcessing'
    <2>1. /\ \A a \in Actors : Busy(a) => item[a].event \in Events \ {e}
          /\ \A w \in Workers : \A i \in batch[w] : i.event \in Events \ {e}
      BY <1>0, <1>2 DEF Unheld, HeldRowIsProcessing, TypeOK, LeasedItems
    <2> QED BY <1>0, <1>1, <2>1 DEF HeldRowIsProcessing, Busy
  <1>5. FaultsAreCounted'
    <2>1. \A d \in Events : Unheld(d)' => Unheld(d)
      BY <1>1 DEF Unheld, Busy
    <2>2. attempts[e] <= faults
      BY <1>0, <1>1, <1>2 DEF FaultsAreCounted
    <2> QED BY <1>0, <1>1, <2>1, <2>2 DEF FaultsAreCounted
  <1>6. AcceptedStaysCompleted'
    BY <1>0, <1>1 DEF AcceptedStaysCompleted
  <1> QED BY <1>0, <1>1, <1>3, <1>4, <1>5, <1>6 DEF PromptInv

(* Every step keeps the invariant; without retention no row is deleted. *)
LEMMA PromptStep ==
  ASSUME ~SlowActors, ~RetentionEnabled, DurableInv, PromptInv, [Next]_vars
  PROVE  PromptInv'
  <1>0. TypeOK' /\ expired = {}
    BY TypeStep DEF PromptInv
  <1>1. ASSUME NEW a \in Actors, ActorNext(a) PROVE PromptInv'
    BY <1>0, <1>1, PromptActor
  <1>2. ASSUME NEW h \in Handlers, HandlerNext(h) PROVE PromptInv'
    BY <1>0, <1>2, PromptHandler
  <1>3. ASSUME NEW w \in Workers, WorkerNext(w) PROVE PromptInv'
    BY <1>0, <1>3, PromptWorker
  <1>4. ASSUME NEW e \in Events, Elapse(e) PROVE PromptInv'
    BY <1>4, PromptElapse
  <1>5. ASSUME NEW e \in Events, ChooseExpired(e) PROVE FALSE
    BY <1>5 DEF ChooseExpired
  <1>6. ASSUME NEW S \in SUBSET Events, DeleteExpired(S) PROVE FALSE
    BY <1>0, <1>6 DEF DeleteExpired
  <1>7. CASE UNCHANGED vars
    BY <1>7 DEF vars, PromptInv, OneHolder, HeldRowIsProcessing, FaultsAreCounted,
       AcceptedStaysCompleted, Unheld, Busy
  <1> QED BY <1>1, <1>2, <1>3, <1>4, <1>5, <1>6, <1>7 DEF Next

(* It holds in every state. *)
LEMMA Prompt ==
  ASSUME ~SlowActors, ~RetentionEnabled
  PROVE  Spec => []PromptInv
  <1>1. Init => PromptInv
    BY BoundsAssumption, SMTT(30) DEF Init, PromptInv, OneHolder, HeldRowIsProcessing,
       FaultsAreCounted, AcceptedStaysCompleted, Busy, Working
  <1>2. DurableInv /\ PromptInv /\ [Next]_vars => PromptInv'
    BY PromptStep
  <1> QED BY <1>1, <1>2, Durable, PTL DEF Spec

(* For any number of events, handlers and workers: while every attempt ends *)
(* within its lease, nothing touches the row of an event after its 201.     *)
THEOREM AcceptanceIsFinal ==
  ASSUME ~SlowActors, ~RetentionEnabled
  PROVE  Spec => []AcceptedStaysCompleted
  <1>1. PromptInv => AcceptedStaysCompleted
    BY DEF PromptInv
  <1> QED BY <1>1, Prompt, PTL

(* In the same pipeline no fault makes more than one further attempt.       *)
THEOREM RetriesHaveCauses ==
  ASSUME ~SlowActors, ~RetentionEnabled
  PROVE  Spec => []EveryRetryHasACause
  <1>1. PromptInv => EveryRetryHasACause
    BY DEF PromptInv, FaultsAreCounted, EveryRetryHasACause
  <1> QED BY <1>1, Prompt, PTL

-----------------------------------------------------------------------------
(* The delays up to an attempt, as Backoff computes them. *)
Delays(d, attempt, base, max) ==
    d = [n \in 1 .. attempt |-> IF n = 1 THEN base ELSE NextDelay(n, d[n - 1], max)]

(* Where a statement about numbers fails, it fails for a first one. *)
LEMMA FirstNumber ==
  ASSUME NEW T \in SUBSET Nat, T # {}
  PROVE  \E n \in T : \A m \in Nat : m < n => m \notin T
  <1>1. PICK n \in T : \A m \in T : ~(<<m, n>> \in OpToRel(<, Nat))
    BY NatLessThanWellFounded, WFMin
  <1>2. ASSUME NEW m \in Nat, m < n PROVE m \notin T
    BY <1>1, <1>2 DEF OpToRel
  <1> QED BY <1>2

(* They are there, for any number of attempts: the delay of the last one is *)
(* added to those of the attempts before.                                   *)
LEMMA DelaysAreThere ==
  ASSUME NEW base, NEW max
  PROVE  \A k \in Nat \ {0} : \E d : Delays(d, k, base, max)
  <1> DEFINE wrong == {k \in Nat \ {0} : ~\E d : Delays(d, k, base, max)}
  <1> SUFFICES ASSUME wrong # {} PROVE FALSE
    OBVIOUS
  <1>1. PICK k \in wrong : \A m \in Nat : m < k => m \notin wrong
    <2>1. wrong \in SUBSET Nat
      OBVIOUS
    <2> HIDE DEF wrong
    <2> QED BY <2>1, FirstNumber
  <1>2. k \in Nat \ {0} /\ ~\E d : Delays(d, k, base, max)
    OBVIOUS
  <1>3. CASE k = 1
    <2> DEFINE d == [n \in 1 .. 1 |-> base]
    <2>1. Delays(d, 1, base, max)
      BY DEF Delays
    <2> QED BY <1>2, <1>3, <2>1
  <1>4. CASE k # 1
    <2>1. k - 1 \in Nat \ {0} /\ k - 1 \notin wrong
      BY <1>1, <1>2, <1>4
    <2>2. PICK d : Delays(d, k - 1, base, max)
      BY <2>1
    <2> DEFINE value(n) == IF n = 1 THEN base ELSE NextDelay(n, d[n - 1], max)
               longer == [n \in 1 .. k |-> value(n)]
    <2>3. ASSUME NEW n \in 1 .. k - 1 PROVE d[n] = value(n)
      BY <2>2, <2>3 DEF Delays
    <2>4. ASSUME NEW n \in 1 .. k, n # 1 PROVE longer[n - 1] = d[n - 1]
      <3>1. n - 1 \in 1 .. k - 1 /\ n - 1 \in 1 .. k
        BY <1>2, <2>4
      <3> QED BY <2>3, <3>1
    <2>5. longer = [n \in 1 .. k |-> IF n = 1 THEN base ELSE NextDelay(n, longer[n - 1], max)]
      BY <2>4
    <2>6. Delays(longer, k, base, max)
      BY <2>5 DEF Delays
    <2> QED BY <1>2, <2>6
  <1> QED BY <1>3, <1>4

(* The delay of an attempt is the same however many follow. *)
LEMMA DelaysAgree ==
  ASSUME NEW base, NEW max, NEW k \in Nat, NEW m \in Nat, NEW d, NEW e,
         Delays(d, k, base, max), Delays(e, m, base, max), k <= m
  PROVE  \A n \in 1 .. k : d[n] = e[n]
  <1> DEFINE wrong == {n \in 1 .. k : d[n] # e[n]}
  <1> SUFFICES ASSUME wrong # {} PROVE FALSE
    OBVIOUS
  <1>1. PICK n \in wrong : \A i \in Nat : i < n => i \notin wrong
    <2>1. wrong \in SUBSET Nat
      OBVIOUS
    <2> HIDE DEF wrong
    <2> QED BY <2>1, FirstNumber
  <1>2. n \in 1 .. k /\ n \in 1 .. m /\ d[n] # e[n]
    OBVIOUS
  <1>3. /\ d[n] = IF n = 1 THEN base ELSE NextDelay(n, d[n - 1], max)
        /\ e[n] = IF n = 1 THEN base ELSE NextDelay(n, e[n - 1], max)
    BY <1>2 DEF Delays
  <1>4. n # 1 => d[n - 1] = e[n - 1]
    BY <1>1, <1>2
  <1> QED BY <1>2, <1>3, <1>4

(* So each delay comes from the one of the attempt before. *)
LEMMA BackoffSteps ==
  ASSUME NEW base, NEW max
  PROVE  /\ Backoff(0, base, max) = base /\ Backoff(1, base, max) = base
         /\ \A k \in Nat \ {0} :
              Backoff(k + 1, base, max) = NextDelay(k + 1, Backoff(k, base, max), max)
  <1>1. ASSUME NEW k \in Nat \ {0}
        PROVE  \E d : Delays(d, k, base, max) /\ Backoff(k, base, max) = d[k]
    <2> DEFINE chosen == CHOOSE d : Delays(d, k, base, max)
    <2>1. Delays(chosen, k, base, max)
      BY DelaysAreThere
    <2>2. (IF k < 1 THEN 1 ELSE k) = k
      OBVIOUS
    <2>3. Backoff(k, base, max) = chosen[k]
      BY <2>2 DEF Backoff, Delays
    <2> QED BY <2>1, <2>3
  <1>2. Backoff(1, base, max) = base
    BY <1>1 DEF Delays
  <1>3. Backoff(0, base, max) = Backoff(1, base, max)
    BY DEF Backoff
  <1>4. ASSUME NEW k \in Nat \ {0}
        PROVE  Backoff(k + 1, base, max) = NextDelay(k + 1, Backoff(k, base, max), max)
    <2>1. PICK d : Delays(d, k, base, max) /\ Backoff(k, base, max) = d[k]
      BY <1>1
    <2>2. PICK e : Delays(e, k + 1, base, max) /\ Backoff(k + 1, base, max) = e[k + 1]
      BY <1>1
    <2>3. d[k] = e[k]
      BY <2>1, <2>2, DelaysAgree
    <2>4. e[k + 1] = NextDelay(k + 1, e[k], max)
      BY <2>2 DEF Delays
    <2> QED BY <2>1, <2>2, <2>3, <2>4
  <1> QED BY <1>2, <1>3, <1>4

(* No duration that is doubled is out of range. *)
LEMMA NothingWraps ==
  ASSUME NEW d \in 0 .. Quarter - 1
  PROVE  Wrapped(2 * d) = 2 * d
  <1>1. \A m \in Nat \ {0} : \A x \in 0 .. m - 1 : x % m = x
    OBVIOUS
  <1> DEFINE m == 4 * Quarter
             x == 2 * d + 2 * Quarter
  <1>2. m \in Nat \ {0} /\ x \in 0 .. m - 1
    BY QuarterAssumption
  <1>3. x % m = x
    <2> HIDE DEF m, x
    <2> QED BY <1>1, <1>2
  <1> QED BY <1>3, QuarterAssumption DEF Wrapped

(* Every accepted delay is at least the first and at most the longest, and  *)
(* the next one is twice as long, or the longest.                           *)
LEMMA BackoffDoubles ==
  ASSUME NEW d \in AcceptedDelays
  PROVE  /\ \A n \in Nat : Backoff(n, d.base, d.max) \in d.base .. d.max
         /\ \A n \in Nat \ {0} :
              LET delay == Backoff(n, d.base, d.max)
              IN  Backoff(n + 1, d.base, d.max) = IF 2 * delay >= d.max THEN d.max ELSE 2 * delay
  <1>1. d.base \in 1 .. Quarter - 1 /\ d.max \in 1 .. Quarter - 1 /\ d.base <= d.max
    BY DEF AcceptedDelays
  <1> DEFINE delay(n) == Backoff(n, d.base, d.max)
  <1>0. /\ delay(0) = d.base /\ delay(1) = d.base
        /\ \A k \in Nat \ {0} : delay(k + 1) = NextDelay(k + 1, delay(k), d.max)
    BY BackoffSteps
  <1> HIDE DEF delay
  <1>2. ASSUME NEW n \in Nat \ {0}, NEW last \in d.base .. d.max
        PROVE  /\ NextDelay(n, last, d.max) = IF 2 * last >= d.max THEN d.max ELSE 2 * last
               /\ NextDelay(n, last, d.max) \in d.base .. d.max
    <2>1. last \in 0 .. Quarter - 1
      BY <1>1, QuarterAssumption
    <2>2. Wrapped(2 * last) = 2 * last
      BY <2>1, NothingWraps
    <2> QED BY <1>1, <2>2 DEF NextDelay
  <1>3. \A n \in Nat : delay(n) \in d.base .. d.max
    <2> DEFINE wrong == {n \in Nat : delay(n) \notin d.base .. d.max}
    <2> SUFFICES ASSUME wrong # {} PROVE FALSE
      OBVIOUS
    <2>1. PICK n \in wrong : \A i \in Nat : i < n => i \notin wrong
      <3>1. wrong \in SUBSET Nat
        OBVIOUS
      <3> HIDE DEF wrong
      <3> QED BY <3>1, FirstNumber
    <2>2. n # 0 /\ n # 1
      BY <1>0, <1>1
    <2>3. n - 1 \in Nat \ {0} /\ delay(n - 1) \in d.base .. d.max
      BY <2>1, <2>2
    <2>4. n \in Nat \ {0} /\ n = (n - 1) + 1
      BY <2>2
    <2>5. delay(n) = NextDelay(n, delay(n - 1), d.max)
      BY <1>0, <2>3, <2>4
    <2>6. delay(n) \in d.base .. d.max
      BY <1>2, <2>3, <2>4, <2>5
    <2> QED BY <2>6
  <1>4. ASSUME NEW n \in Nat \ {0}
        PROVE  delay(n + 1) = IF 2 * delay(n) >= d.max THEN d.max ELSE 2 * delay(n)
    <2>1. delay(n) \in d.base .. d.max /\ n + 1 \in Nat \ {0}
      BY <1>3
    <2> QED BY <1>0, <1>2, <2>1
  <1> QED BY <1>3, <1>4 DEF delay

(* Whatever attempt a failure is recorded for, the delay to the next one is *)
(* within the configured ones and not shorter than the one before, with any *)
(* delays that are accepted: no product wraps on the way.                   *)
THEOREM DelaysAreBounded == Spec => []RetryDelayIsBounded
  <1>1. TypeOK => RetryDelayIsBounded
    <2> SUFFICES ASSUME TypeOK, NEW a \in Actors, NEW d \in AcceptedDelays
                 PROVE  LET n == item[a].attempt
                            delay == Backoff(n, d.base, d.max)
                        IN  /\ delay \in d.base .. d.max
                            /\ n > 1 => delay >= Backoff(n - 1, d.base, d.max)
      BY DEF RetryDelayIsBounded
    <2> DEFINE n == item[a].attempt
    <2>1. n \in Nat
      BY DEF TypeOK, Items
    <2> HIDE DEF n
    <2>2. Backoff(n, d.base, d.max) \in d.base .. d.max
      BY <2>1, BackoffDoubles
    <2>3. ASSUME n > 1 PROVE Backoff(n, d.base, d.max) >= Backoff(n - 1, d.base, d.max)
      <3> DEFINE last == Backoff(n - 1, d.base, d.max)
      <3>1. n - 1 \in Nat \ {0} /\ (n - 1) + 1 = n
        BY <2>1, <2>3
      <3>2. last \in d.base .. d.max /\ d.base \in Nat /\ d.max \in Nat
        BY <3>1, BackoffDoubles DEF AcceptedDelays
      <3>3. Backoff((n - 1) + 1, d.base, d.max) = IF 2 * last >= d.max THEN d.max ELSE 2 * last
        BY <3>1, BackoffDoubles
      <3> HIDE DEF last
      <3>4. Backoff(n, d.base, d.max) >= last
        BY <3>1, <3>2, <3>3
      <3> QED BY <3>4 DEF last
    <2> QED BY <2>2, <2>3 DEF n
  <1> QED BY <1>1, TypeCorrect, PTL
=============================================================================
