------------------------- MODULE IngestPipelineProofs -------------------------
(***************************************************************************)
(* Theorems about IngestPipeline, for every set of events, handlers and    *)
(* workers and every value of the bounds and switches.                     *)
(***************************************************************************)
EXTENDS IngestPipeline, TLAPS

(* Whatever an actor has in hand or in its batch, and every row, belongs to *)
(* an event that a producer delivered.                                      *)
WorkIsReceived ==
    /\ \A a \in Actors : pc[a] # "idle" => item[a].event \in received
    /\ \A w \in Workers : \A i \in batch[w] : i.event \in received
    /\ \A e \in Events : status[e] # "absent" => e \in received
    /\ persisted \subseteq received

(* An actor that is about to complete an event, or to record that it could  *)
(* not, works on one whose data is committed.                               *)
CompletingIsPersisted ==
    \A a \in Actors :
      pc[a] = "complete" \/ (pc[a] = "record" /\ failure[a].stage = "completion")
        => item[a].event \in persisted

(* The inductive invariant behind durability. *)
DurableInv ==
    /\ TypeOK
    /\ WorkIsReceived
    /\ CompletingIsPersisted
    /\ CompletedIsPersisted
    /\ AcknowledgedIsPersisted
    /\ CompletionRetryIsPersisted
    /\ ScheduledHasBudget

-----------------------------------------------------------------------------
(* The ledger is empty and every actor at rest, so nothing can be amiss. *)
LEMMA DurableInit == Init => DurableInv
  BY BoundsAssumption, SMTT(30) DEF Init, DurableInv, TypeOK, WorkIsReceived, CompletingIsPersisted,
     CompletedIsPersisted, AcknowledgedIsPersisted, CompletionRetryIsPersisted,
     ScheduledHasBudget, Items, NoItem, Failures, NoFailure, Stages, ErrorClasses,
     Pending, Terminal, Working, Outcomes, Actors

(* What actors are given to hold is well typed. *)
LEMMA RecordTypes ==
    /\ \A e \in Events, n \in Nat : [event |-> e, attempt |-> n] \in Items
    /\ NoItem \in Items
    /\ \A s \in Stages, c \in ErrorClasses : [stage |-> s, class |-> c] \in Failures
    /\ NoFailure \in Failures
    /\ \A e \in Events, n \in Nat, b \in BOOLEAN :
         [event |-> e, attempt |-> n, completion |-> b] \in LeasedItems
    /\ \A i \in LeasedItems : i.event \in Events /\ i.attempt \in Nat
  BY DEF Items, NoItem, Failures, NoFailure, LeasedItems

(* The ledger's part of TypeOK, and the statements that preserve it. *)
LedgerTypeOK ==
    /\ status \in [Events -> Pending \cup Terminal \cup {"absent"}]
    /\ attempts \in [Events -> Nat]
    /\ lastError \in [Events -> Stages \cup {"none"}]
    /\ ripe \in [Events -> BOOLEAN]

(* The statements on ingest_events leave a well-typed row behind. *)
LEMMA LedgerTypes ==
  ASSUME LedgerTypeOK
  PROVE  /\ \A e \in Events : InsertRow(e) => LedgerTypeOK'
         /\ \A e \in Events : MarkEventCompleted(e) => LedgerTypeOK'
         /\ \A e \in Events, f \in Failures : RecordEventFailure(e, f) => LedgerTypeOK'
         /\ \A S \in SUBSET Due : LeaseRows(S) => LedgerTypeOK'
         /\ UNCHANGED ledger => LedgerTypeOK'
  <1> USE DEF LedgerTypeOK, Pending, Terminal
  <1>1. \A e \in Events : InsertRow(e) => LedgerTypeOK'
    BY DEF InsertRow
  <1>2. \A e \in Events : MarkEventCompleted(e) => LedgerTypeOK'
    BY DEF MarkEventCompleted, ledger
  <1>3. \A e \in Events, f \in Failures : RecordEventFailure(e, f) => LedgerTypeOK'
    BY DEF RecordEventFailure, FailureStatus, Failures
  <1>4. \A S \in SUBSET Due : LeaseRows(S) => LedgerTypeOK'
    BY DEF LeaseRows
  <1>5. UNCHANGED ledger => LedgerTypeOK'
    BY DEF ledger
  <1> QED BY <1>1, <1>2, <1>3, <1>4, <1>5

(* A step of any handler, worker, clock or retention run keeps TypeOK. *)
LEMMA TypeStep ==
  ASSUME DurableInv, [Next]_vars
  PROVE  TypeOK'
  <1>0. TypeOK /\ WorkIsReceived /\ LedgerTypeOK
    BY DEF DurableInv, TypeOK, LedgerTypeOK
  <1>1. ASSUME NEW h \in Handlers, NEW e \in Events, Claim(h, e) PROVE TypeOK'
    <2>1. LedgerTypeOK'
      BY <1>0, <1>1, LedgerTypes DEF Claim
    <2>2. item' \in [Actors -> Items] /\ pc' \in [Actors -> Working \cup {"idle", "lookup"}]
      BY <1>0, <1>1, RecordTypes DEF TypeOK, Claim, Goto, Working
    <2> QED BY <1>0, <1>1, <2>1, <2>2 DEF TypeOK, LedgerTypeOK, Claim
  <1>2. ASSUME NEW h \in Handlers, NEW e \in Events, ClaimFails(h, e) PROVE TypeOK'
    BY <1>0, <1>2, RecordTypes DEF TypeOK, ClaimFails, InsertRow, Fault, Pending
  <1>3. ASSUME NEW h \in Handlers, Lookup(h) PROVE TypeOK'
    BY <1>0, <1>3, RecordTypes DEF TypeOK, Lookup, GoIdle, Goto, Answer, ExistingResult,
       Actors, Outcomes, Pending, Terminal
  <1>4. ASSUME NEW a \in Actors, Persist(a) PROVE TypeOK'
    BY <1>0, <1>4 DEF TypeOK, Persist, Goto, WorkIsReceived, Working
  <1>5. ASSUME NEW a \in Actors, NEW c \in ErrorClasses, PersistFails(a, c) PROVE TypeOK'
    BY <1>0, <1>5, RecordTypes DEF TypeOK, PersistFails, GoRecord, Goto, Fault, WorkIsReceived, Working, Stages
  <1>6. ASSUME NEW a \in Actors, Complete(a) PROVE TypeOK'
    BY <1>0, <1>6, RecordTypes DEF TypeOK, Complete, MarkEventCompleted, ledger, GoIdle, Goto, Answer, Outcomes, Terminal
  <1>7. ASSUME NEW a \in Actors, NEW c \in ErrorClasses, CompleteFails(a, c) PROVE TypeOK'
    <2>1. item[a].event \in Events
      BY <1>0, <1>7 DEF TypeOK, WorkIsReceived, CompleteFails
    <2>2. LedgerTypeOK'
      BY <1>0, <1>7, <2>1, LedgerTypes DEF CompleteFails
    <2> QED BY <1>0, <1>7, <2>2, RecordTypes
            DEF TypeOK, LedgerTypeOK, CompleteFails, GoRecord, Goto, Fault, Working, Stages
  <1>8. ASSUME NEW a \in Actors, Record(a) PROVE TypeOK'
    <2>1. item[a].event \in Events /\ failure[a] \in Failures
      BY <1>0, <1>8 DEF TypeOK, WorkIsReceived, Record
    <2>2. LedgerTypeOK'
      BY <1>0, <1>8, <2>1, LedgerTypes DEF Record, ledger
    <2>3. answers' \in [Events -> SUBSET Outcomes]
      BY <1>0, <1>8, <2>1 DEF TypeOK, Record, Answer, FailureStatus, Outcomes
    <2> QED BY <1>0, <1>8, <2>2, <2>3, RecordTypes DEF TypeOK, LedgerTypeOK, Record, GoIdle, Goto
  <1>9. ASSUME NEW a \in Actors, RecordFails(a) PROVE TypeOK'
    <2>1. item[a].event \in Events /\ failure[a] \in Failures
      BY <1>0, <1>9 DEF TypeOK, WorkIsReceived, RecordFails
    <2>2. LedgerTypeOK'
      BY <1>0, <1>9, <2>1, LedgerTypes DEF RecordFails
    <2> QED BY <1>0, <1>9, <2>2, RecordTypes
            DEF TypeOK, LedgerTypeOK, RecordFails, GoIdle, Goto, Fault
  <1>10. ASSUME NEW a \in Actors, Abandon(a) PROVE TypeOK'
    BY <1>0, <1>10, RecordTypes DEF TypeOK, Abandon, GoIdle, Goto, Fault
  <1>11. ASSUME NEW w \in Workers, Lease(w) PROVE TypeOK'
    <2>1. PICK S \in SUBSET Due :
            /\ LeaseRows(S)
            /\ batch' = [batch EXCEPT ![w] =
                           {[event |-> e, attempt |-> attempts[e] + 1,
                             completion |-> lastError[e] = "completion"] : e \in S}]
      BY <1>11 DEF Lease
    <2>2. LedgerTypeOK'
      BY <1>0, <2>1, LedgerTypes
    <2>3. \A e \in S : [event |-> e, attempt |-> attempts[e] + 1,
                        completion |-> lastError[e] = "completion"] \in LeasedItems
      <3>1. ASSUME NEW e \in S PROVE e \in Events /\ attempts[e] + 1 \in Nat
        BY <1>0, <3>1 DEF TypeOK, Due
      <3>2. ASSUME NEW e \in S PROVE (lastError[e] = "completion") \in BOOLEAN
        OBVIOUS
      <3> QED BY <3>1, <3>2, Zenon DEF LeasedItems
    <2>4. batch' \in [Workers -> SUBSET LeasedItems]
      BY <1>0, <2>1, <2>3 DEF TypeOK
    <2>5. UNCHANGED <<persisted, pc, item, failure, received, answers, faults, expired>>
      BY <1>11 DEF Lease
    <2> QED BY <1>0, <2>2, <2>4, <2>5 DEF TypeOK, LedgerTypeOK
  <1>12. ASSUME NEW w \in Workers, LeaseFails(w) PROVE TypeOK'
    <2>1. LedgerTypeOK'
      BY <1>0, <1>12, LedgerTypes DEF LeaseFails
    <2> QED BY <1>0, <1>12, <2>1 DEF TypeOK, LedgerTypeOK, LeaseFails, Fault
  <1>13. ASSUME NEW w \in Workers, TakeItem(w) PROVE TypeOK'
    BY <1>0, <1>13, RecordTypes DEF TypeOK, TakeItem, Goto, Actors, Working
  <1>14. ASSUME NEW e \in Events, Elapse(e) PROVE TypeOK'
    BY <1>0, <1>14 DEF TypeOK, Elapse
  <1>15. ASSUME NEW S \in SUBSET Events, DeleteExpired(S) PROVE TypeOK'
    BY <1>0, <1>15 DEF TypeOK, DeleteExpired
  <1>17. ASSUME NEW e \in Events, ChooseExpired(e) PROVE TypeOK'
    BY <1>0, <1>17 DEF TypeOK, ChooseExpired
  <1>16. CASE UNCHANGED vars
    BY <1>0, <1>16 DEF TypeOK, vars
  <1> QED
    BY <1>1, <1>2, <1>3, <1>4, <1>5, <1>6, <1>7, <1>8, <1>9, <1>10, <1>11, <1>12, <1>13,
       <1>14, <1>15, <1>16, <1>17 DEF Next, ActorNext, HandlerNext, WorkerNext

(* Nothing is ever taken out of the entity tables or the delivery history.  *)
LEMMA Monotone ==
  ASSUME [Next]_vars
  PROVE  persisted \subseteq persisted' /\ received \subseteq received'
  BY DEF Next, vars, ActorNext, HandlerNext, WorkerNext, Claim, ClaimFails, Lookup, Persist,
     PersistFails, Complete, CompleteFails, Record, RecordFails, Abandon, Lease, LeaseFails,
     TakeItem, Elapse, ChooseExpired, DeleteExpired

(* The ways in which a step changes the ledger, and who may take them. *)
LEMMA LedgerSteps ==
  ASSUME [Next]_vars
  PROVE  \/ UNCHANGED ledger
         \/ \E e \in Events : InsertRow(e) /\ status[e] = "absent" /\ e \in received'
         \/ \E a \in Actors : pc[a] = "complete" /\ MarkEventCompleted(item[a].event)
         \/ \E a \in Actors : pc[a] = "record" /\ RecordEventFailure(item[a].event, failure[a])
         \/ \E S \in SUBSET Due : LeaseRows(S)
         \/ \E e \in Events : UNCHANGED <<status, attempts, lastError>> /\ ripe' = [ripe EXCEPT ![e] = TRUE]
         \/ \E S \in SUBSET Events :
              /\ status' = [e \in Events |-> IF e \in S THEN "absent" ELSE status[e]]
              /\ attempts' = [e \in Events |-> IF e \in S THEN 0 ELSE attempts[e]]
              /\ lastError' = [e \in Events |-> IF e \in S THEN "none" ELSE lastError[e]]
              /\ ripe' = [e \in Events |-> ripe[e] /\ e \notin S]
  <1>1. ASSUME NEW h \in Handlers, HandlerNext(h) PROVE
           \/ UNCHANGED ledger
           \/ \E e \in Events : InsertRow(e) /\ status[e] = "absent" /\ e \in received'
    BY <1>1 DEF HandlerNext, Claim, ClaimFails, Lookup, ledger
  <1>2. ASSUME NEW a \in Actors, ActorNext(a) PROVE
           \/ UNCHANGED ledger
           \/ pc[a] = "complete" /\ MarkEventCompleted(item[a].event)
           \/ pc[a] = "record" /\ RecordEventFailure(item[a].event, failure[a])
    BY <1>2 DEF ActorNext, Persist, PersistFails, Complete, CompleteFails, Record, RecordFails, Abandon, ledger
  <1>3. ASSUME NEW w \in Workers, WorkerNext(w) PROVE
           UNCHANGED ledger \/ \E S \in SUBSET Due : LeaseRows(S)
    BY <1>3 DEF WorkerNext, Lease, LeaseFails, TakeItem, ledger
  <1>4. ASSUME NEW e \in Events, Elapse(e) PROVE
           UNCHANGED <<status, attempts, lastError>> /\ ripe' = [ripe EXCEPT ![e] = TRUE]
    BY <1>4 DEF Elapse
  <1>5. CASE UNCHANGED vars
    BY <1>5 DEF vars, ledger
  <1>6. CASE \E S \in SUBSET Events : DeleteExpired(S)
    BY <1>6 DEF DeleteExpired
  <1>7. CASE \E e \in Events : ChooseExpired(e)
    BY <1>7 DEF ChooseExpired, ledger
  <1> QED BY <1>1, <1>2, <1>3, <1>4, <1>5, <1>6, <1>7 DEF Next

(* What is in an actor's hand or batch after a step was there before, or is *)
(* the event it claimed or leased in that step.                             *)
LEMMA WorkStep ==
  ASSUME DurableInv, [Next]_vars
  PROVE  WorkIsReceived'
  <1>0. TypeOK /\ WorkIsReceived /\ received \subseteq received'
    BY Monotone DEF DurableInv
  <1>1. (\A e \in Events : status[e] # "absent" => e \in received)'
    BY <1>0, LedgerSteps DEF TypeOK, WorkIsReceived, ledger, InsertRow, MarkEventCompleted,
       RecordEventFailure, LeaseRows, Due, Terminal, Pending
  <1>2. (persisted \subseteq received)'
    BY <1>0 DEF TypeOK, WorkIsReceived, Next, vars, ActorNext, HandlerNext, WorkerNext, Claim,
       ClaimFails, Lookup, Persist, PersistFails, Complete, CompleteFails, Record, RecordFails,
       Abandon, Lease, LeaseFails, TakeItem, Elapse, ChooseExpired, DeleteExpired
  <1>3. (\A a \in Actors : pc[a] # "idle" => item[a].event \in received)'
    <2>1. ASSUME NEW a \in Actors, pc'[a] # "idle",
                 ~(\E h \in Handlers, e \in Events : Claim(h, e)), ~(\E w \in Workers : TakeItem(w))
          PROVE  pc[a] # "idle" /\ item'[a] = item[a]
      BY <1>0, <2>1 DEF TypeOK, Next, vars, ActorNext, HandlerNext, WorkerNext, ClaimFails,
         Lookup, Persist, PersistFails, Complete, CompleteFails, Record, RecordFails, Abandon, Lease,
         LeaseFails, Elapse, ChooseExpired, DeleteExpired, GoIdle, GoRecord, Goto
    <2>2. ASSUME NEW h \in Handlers, NEW e \in Events, Claim(h, e)
          PROVE  (\A a \in Actors : pc[a] # "idle" => item[a].event \in received)'
      BY <1>0, <2>2 DEF TypeOK, WorkIsReceived, Claim, Goto, Actors
    <2>3. ASSUME NEW w \in Workers, TakeItem(w)
          PROVE  (\A a \in Actors : pc[a] # "idle" => item[a].event \in received)'
      BY <1>0, <2>3 DEF TypeOK, WorkIsReceived, TakeItem, Goto, Actors
    <2> QED BY <1>0, <2>1, <2>2, <2>3 DEF WorkIsReceived
  <1>4. (\A w \in Workers : \A i \in batch[w] : i.event \in received)'
    <2>1. ASSUME NEW w \in Workers, NEW i \in batch'[w], ~(\E v \in Workers : Lease(v))
          PROVE  i \in batch[w]
      BY <1>0, <2>1 DEF TypeOK, Next, vars, ActorNext, HandlerNext, WorkerNext, Claim, ClaimFails,
         Lookup, Persist, PersistFails, Complete, CompleteFails, Record, RecordFails, Abandon,
         LeaseFails, TakeItem, Elapse, ChooseExpired, DeleteExpired
    <2>2. ASSUME NEW v \in Workers, Lease(v)
          PROVE  (\A w \in Workers : \A i \in batch[w] : i.event \in received)'
      BY <1>0, <2>2 DEF TypeOK, WorkIsReceived, Lease, LeaseRows, Due, Pending
    <2> QED BY <1>0, <2>1, <2>2 DEF WorkIsReceived
  <1> QED BY <1>1, <1>2, <1>3, <1>4 DEF WorkIsReceived

(* An actor comes to complete an event from a successful persist call or    *)
(* from a completion retry, and keeps its event until it has recorded the   *)
(* outcome.                                                                 *)
LEMMA CompletingStep ==
  ASSUME DurableInv, [Next]_vars
  PROVE  CompletingIsPersisted'
  <1>0. TypeOK /\ CompletingIsPersisted /\ CompletionRetryIsPersisted /\ persisted \subseteq persisted'
    BY Monotone DEF DurableInv
  <1> SUFFICES ASSUME NEW a \in Actors,
                      pc'[a] = "complete" \/ (pc'[a] = "record" /\ failure'[a].stage = "completion")
               PROVE  item'[a].event \in persisted'
    BY DEF CompletingIsPersisted
  <1>1. CASE Persist(a)
    BY <1>0, <1>1 DEF TypeOK, Persist
  <1>2. CASE \E class \in ErrorClasses : CompleteFails(a, class)
    BY <1>0, <1>2 DEF TypeOK, CompletingIsPersisted, CompleteFails, GoRecord
  <1>3. CASE a \in Workers /\ TakeItem(a)
    <2>1. PICK i \in batch[a] :
            /\ item' = [item EXCEPT ![a] = [event |-> i.event, attempt |-> i.attempt]]
            /\ pc' = [pc EXCEPT ![a] = IF i.completion THEN "complete" ELSE "persist"]
      BY <1>3 DEF TakeItem, Goto
    <2>2. i.completion
      BY <1>0, <2>1 DEF TypeOK
    <2> QED BY <1>0, <1>3, <2>1, <2>2 DEF TypeOK, CompletionRetryIsPersisted
  <1>4. CASE /\ ~Persist(a)
             /\ ~(\E class \in ErrorClasses : CompleteFails(a, class))
             /\ ~(a \in Workers /\ TakeItem(a))
    <2>1. pc'[a] = pc[a] /\ item'[a] = item[a] /\ failure'[a] = failure[a]
      BY <1>0, <1>4 DEF TypeOK, Next, vars, ActorNext, HandlerNext, WorkerNext, Claim, ClaimFails,
         Lookup, Persist, PersistFails, Complete, CompleteFails, Record, RecordFails, Abandon,
         Lease, LeaseFails, TakeItem, Elapse, ChooseExpired, DeleteExpired, GoIdle, GoRecord, Goto
    <2> QED BY <1>0, <2>1 DEF CompletingIsPersisted
  <1> QED BY <1>1, <1>2, <1>3, <1>4

(* A row becomes completed through MarkEventCompleted alone, and only an    *)
(* actor that is about to complete the event calls it.                      *)
LEMMA CompletedStep ==
  ASSUME DurableInv, [Next]_vars
  PROVE  CompletedIsPersisted' /\ ScheduledHasBudget'
  <1>0. /\ TypeOK /\ CompletingIsPersisted /\ CompletedIsPersisted /\ ScheduledHasBudget
        /\ persisted \subseteq persisted'
    BY Monotone DEF DurableInv
  <1> USE DEF CompletedIsPersisted, ScheduledHasBudget
  <1>1. CASE UNCHANGED ledger
    BY <1>0, <1>1 DEF ledger
  <1>2. CASE \E e \in Events : InsertRow(e)
    BY <1>0, <1>2 DEF TypeOK, InsertRow
  <1>3. CASE \E a \in Actors : pc[a] = "complete" /\ MarkEventCompleted(item[a].event)
    BY <1>0, <1>3 DEF TypeOK, CompletingIsPersisted, MarkEventCompleted, ledger
  <1>4. CASE \E a \in Actors : pc[a] = "record" /\ RecordEventFailure(item[a].event, failure[a])
    <2>1. PICK a \in Actors : RecordEventFailure(item[a].event, failure[a])
      BY <1>4
    <2>2. FailureStatus(item[a].event, failure[a]) \in {"dead_letter", "retry_scheduled"}
      BY DEF FailureStatus
    <2>3. /\ FailureStatus(item[a].event, failure[a]) = "retry_scheduled"
          /\ item[a].event \in Events
          => attempts[item[a].event] < MaxAttempts
      BY <1>0, BoundsAssumption DEF FailureStatus, TypeOK
    <2> QED BY <1>0, <2>1, <2>2, <2>3 DEF TypeOK, RecordEventFailure
  <1>5. CASE \E S \in SUBSET Due : LeaseRows(S)
    BY <1>0, <1>5 DEF TypeOK, LeaseRows, Due
  <1>6. CASE UNCHANGED <<status, attempts>>
    BY <1>0, <1>6
  <1>7. CASE \E S \in SUBSET Events :
              /\ status' = [e \in Events |-> IF e \in S THEN "absent" ELSE status[e]]
              /\ attempts' = [e \in Events |-> IF e \in S THEN 0 ELSE attempts[e]]
    BY <1>0, <1>7 DEF TypeOK
  <1> QED BY <1>1, <1>2, <1>3, <1>4, <1>5, <1>6, <1>7, LedgerSteps

(* RecordEventFailure writes "mark event completed" only for an actor that  *)
(* was completing, and a lease copies what the row says.                    *)
LEMMA CompletionRetryStep ==
  ASSUME DurableInv, [Next]_vars
  PROVE  CompletionRetryIsPersisted'
  <1>0. /\ TypeOK /\ CompletingIsPersisted /\ CompletionRetryIsPersisted
        /\ persisted \subseteq persisted'
    BY Monotone DEF DurableInv
  <1>1. (\A e \in Events : lastError[e] = "completion" => e \in persisted)'
    <2>1. CASE \E a \in Actors : pc[a] = "record" /\ RecordEventFailure(item[a].event, failure[a])
      BY <1>0, <2>1 DEF TypeOK, CompletionRetryIsPersisted, CompletingIsPersisted, RecordEventFailure
    <2>2. CASE \A e \in Events : lastError'[e] \in {lastError[e], "none"}
      BY <1>0, <2>2 DEF CompletionRetryIsPersisted
    <2>3. ASSUME ~(\E a \in Actors : pc[a] = "record" /\ RecordEventFailure(item[a].event, failure[a]))
          PROVE  \A e \in Events : lastError'[e] \in {lastError[e], "none"}
      BY <1>0, <2>3, LedgerSteps DEF TypeOK, ledger, InsertRow, MarkEventCompleted, LeaseRows
    <2> QED BY <2>1, <2>2, <2>3
  <1>2. (\A w \in Workers : \A i \in batch[w] : i.completion => i.event \in persisted)'
    <2>1. ASSUME NEW w \in Workers, NEW i \in batch'[w], ~(\E v \in Workers : Lease(v))
          PROVE  i \in batch[w]
      BY <1>0, <2>1 DEF TypeOK, Next, vars, ActorNext, HandlerNext, WorkerNext, Claim, ClaimFails,
         Lookup, Persist, PersistFails, Complete, CompleteFails, Record, RecordFails, Abandon,
         LeaseFails, TakeItem, Elapse, ChooseExpired, DeleteExpired
    <2>2. ASSUME NEW v \in Workers, Lease(v)
          PROVE  (\A w \in Workers : \A i \in batch[w] : i.completion => i.event \in persisted)'
      <3>1. PICK S \in SUBSET Due :
              batch' = [batch EXCEPT ![v] =
                          {[event |-> e, attempt |-> attempts[e] + 1,
                            completion |-> lastError[e] = "completion"] : e \in S}]
        BY <2>2 DEF Lease
      <3>2. ASSUME NEW i \in batch'[v], i.completion PROVE i.event \in persisted
        <4>1. PICK e \in S : i = [event |-> e, attempt |-> attempts[e] + 1,
                                  completion |-> lastError[e] = "completion"]
          BY <1>0, <3>1, <3>2 DEF TypeOK
        <4>2. e \in Events /\ i.event = e /\ lastError[e] = "completion"
          BY <3>2, <4>1 DEF Due
        <4> QED BY <1>0, <4>2 DEF CompletionRetryIsPersisted
      <3>3. \A w \in Workers : w # v => batch'[w] = batch[w]
        BY <1>0, <3>1 DEF TypeOK
      <3> QED BY <1>0, <3>2, <3>3 DEF CompletionRetryIsPersisted
    <2> QED BY <1>0, <2>1, <2>2 DEF CompletionRetryIsPersisted
  <1> QED BY <1>1, <1>2 DEF CompletionRetryIsPersisted

(* A producer is told accepted by the actor that completes its event, and   *)
(* duplicate only from a completed row.                                     *)
LEMMA AcknowledgedStep ==
  ASSUME DurableInv, [Next]_vars
  PROVE  AcknowledgedIsPersisted'
  <1>0. /\ TypeOK /\ WorkIsReceived /\ CompletingIsPersisted /\ CompletedIsPersisted
        /\ AcknowledgedIsPersisted /\ persisted \subseteq persisted'
    BY Monotone DEF DurableInv
  <1> USE DEF AcknowledgedIsPersisted
  <1>1. ASSUME NEW h \in Handlers, Lookup(h) PROVE AcknowledgedIsPersisted'
    <2>1. item[h].event \in Events
      BY <1>0, <1>1 DEF TypeOK, WorkIsReceived, Lookup, Actors
    <2>2. ASSUME status[item[h].event] # "absent",
                 ExistingResult(item[h].event) \in {"accepted", "duplicate"}
          PROVE  item[h].event \in persisted
      BY <1>0, <2>1, <2>2 DEF TypeOK, ExistingResult, CompletedIsPersisted, Pending, Terminal
    <2> QED BY <1>0, <1>1, <2>1, <2>2 DEF TypeOK, Lookup, Answer
  <1>2. ASSUME NEW a \in Actors, Complete(a) PROVE AcknowledgedIsPersisted'
    BY <1>0, <1>2 DEF TypeOK, Complete, Answer, CompletingIsPersisted
  <1>3. ASSUME NEW a \in Actors, Record(a) PROVE AcknowledgedIsPersisted'
    <2>1. FailureStatus(item[a].event, failure[a]) \notin {"accepted", "duplicate"}
      BY DEF FailureStatus
    <2> QED BY <1>0, <1>3, <2>1 DEF TypeOK, Record, Answer
  <1>4. CASE UNCHANGED answers
    BY <1>0, <1>4
  <1>5. \/ \E h \in Handlers : Lookup(h)
        \/ \E a \in Actors : Complete(a) \/ Record(a)
        \/ UNCHANGED answers
    BY DEF Next, vars, ActorNext, HandlerNext, WorkerNext, Claim, ClaimFails, Persist, PersistFails,
       CompleteFails, RecordFails, Abandon, Lease, LeaseFails, TakeItem, Elapse, ChooseExpired, DeleteExpired
  <1> QED BY <1>1, <1>2, <1>3, <1>4, <1>5

(* The inductive invariant holds in every reachable state. *)
THEOREM Durable == Spec => []DurableInv
  <1>1. DurableInv /\ [Next]_vars => DurableInv'
    BY TypeStep, WorkStep, CompletingStep, CompletedStep, CompletionRetryStep, AcknowledgedStep
       DEF DurableInv
  <1> QED BY <1>1, DurableInit, PTL DEF Spec

(* TypeOK, for the rows, the actors and the outcomes. *)
THEOREM TypeCorrect == Spec => []TypeOK
  BY Durable, PTL DEF DurableInv

(* A producer told accepted or duplicate can rely on the data being stored: *)
(* for any number of events, handlers and workers, with any database faults *)
(* and crashes, and with rows deleted by retention.                         *)
THEOREM AcknowledgmentIsDurable == Spec => []AcknowledgedIsPersisted
  BY Durable, PTL DEF DurableInv

(* A row marked completed has its data in the entity tables, whoever marked *)
(* it and whichever call stored the data.                                   *)
THEOREM CompletionIsDurable == Spec => []CompletedIsPersisted
  BY Durable, PTL DEF DurableInv

(* Skipping the persist call on a completion retry never loses data. *)
THEOREM CompletionRetryIsSafe == Spec => []CompletionRetryIsPersisted
  BY Durable, PTL DEF DurableInv

(* No row waits for an attempt beyond MaxAttempts. *)
THEOREM BudgetIsKept == Spec => []ScheduledHasBudget
  BY Durable, PTL DEF DurableInv

-----------------------------------------------------------------------------
(* The pipeline implements IngestContract. *)

(* The contract's view of a row, status by status. *)
LEMMA RowViews ==
    /\ RowView("absent") = "absent"
    /\ RowView("processing") = "pending" /\ RowView("retry_scheduled") = "pending"
    /\ RowView("completed") = "done"
    /\ RowView("dead_letter") = "failed"
  BY DEF RowView, Pending

(* How the view changes with the status: one row set, or some forgotten. *)
LEMMA ViewUpdates ==
  ASSUME TypeOK
  PROVE  /\ status' = status => LedgerView' = LedgerView
         /\ answers' = answers => Acknowledged' = Acknowledged
         /\ \A e \in Events : \A st :
              status' = [status EXCEPT ![e] = st] =>
                LedgerView' = [LedgerView EXCEPT ![e] = RowView(st)]
         /\ \A e \in Events, o \in Outcomes :
              answers' = [answers EXCEPT ![e] = @ \cup {o}] =>
                Acknowledged' = IF o \in {"accepted", "duplicate"}
                                  THEN Acknowledged \cup {e} ELSE Acknowledged
  <1>1. status' = status => LedgerView' = LedgerView
    BY DEF LedgerView
  <1>2. answers' = answers => Acknowledged' = Acknowledged
    BY DEF Acknowledged
  <1>3. ASSUME NEW e \in Events, NEW st, status' = [status EXCEPT ![e] = st]
        PROVE  LedgerView' = [LedgerView EXCEPT ![e] = RowView(st)]
    BY <1>3 DEF TypeOK, LedgerView
  <1>4. ASSUME NEW e \in Events, NEW o \in Outcomes, answers' = [answers EXCEPT ![e] = @ \cup {o}]
        PROVE  Acknowledged' = IF o \in {"accepted", "duplicate"}
                                 THEN Acknowledged \cup {e} ELSE Acknowledged
    <2>1. ASSUME NEW x \in Events
          PROVE  x \in Acknowledged' <=>
                   x \in Acknowledged \/ (x = e /\ o \in {"accepted", "duplicate"})
      BY <1>4 DEF TypeOK, Acknowledged
    <2>2. Acknowledged \subseteq Events /\ Acknowledged' \subseteq Events
      BY DEF Acknowledged
    <2> QED BY <2>1, <2>2
  <1> QED BY <1>1, <1>2, <1>3, <1>4

(* The empty ledger is the contract's initial state. *)
LEMMA InitRefines == Init => Contract!Init
  BY RowViews DEF Init, Contract!Init, LedgerView, Acknowledged

(* Completing a row is a verdict "done", or nothing if there is no row. *)
LEMMA CompleteRefines ==
  ASSUME TypeOK, NEW e \in Events, e \in persisted, MarkEventCompleted(e),
         UNCHANGED <<persisted, received, expired>>,
         Acknowledged' \in {Acknowledged, Acknowledged \cup {e}}
  PROVE  Contract!Next \/ UNCHANGED Contract!vars
  <1>1. CASE status[e] = "absent"
    <2>1. LedgerView' = LedgerView
      BY <1>1, ViewUpdates DEF MarkEventCompleted, ledger
    <2>2. Contract!Acknowledge(e) \/ UNCHANGED Contract!vars
      BY <2>1 DEF Contract!Acknowledge, Contract!vars
    <2> QED BY <2>2 DEF Contract!Next
  <1>2. CASE status[e] # "absent"
    <2>1. LedgerView' = [LedgerView EXCEPT ![e] = "done"]
      BY <1>2, ViewUpdates, RowViews DEF MarkEventCompleted
    <2>2. LedgerView[e] \in {"pending", "done", "failed"}
      BY <1>2, RowViews DEF TypeOK, LedgerView, Pending, Terminal
    <2>3. Contract!MayAcknowledge(e, "done")
      BY DEF Contract!MayAcknowledge
    <2>4. Contract!Settle(e) \/ Contract!Overrule(e)
      BY <2>1, <2>2, <2>3 DEF Contract!Settle, Contract!Overrule, Contract!Verdicts
    <2> QED BY <2>4 DEF Contract!Next
  <1> QED BY <1>1, <1>2

(* Recording a failure is a verdict "failed", or it leaves or makes the row *)
(* pending.                                                                 *)
LEMMA FailureRefines ==
  ASSUME TypeOK, NEW e \in Events, NEW f, RecordEventFailure(e, f),
         UNCHANGED <<persisted, received, expired>>, Acknowledged' = Acknowledged
  PROVE  Contract!Next \/ UNCHANGED Contract!vars
  <1>1. PICK v \in {"pending", "failed"} : LedgerView' = [LedgerView EXCEPT ![e] = v]
    <2>1. FailureStatus(e, f) \in {"dead_letter", "retry_scheduled"}
      BY DEF FailureStatus
    <2>2. LedgerView' = [LedgerView EXCEPT ![e] = RowView(FailureStatus(e, f))]
      BY ViewUpdates DEF RecordEventFailure
    <2> QED BY <2>1, <2>2, RowViews
  <1>2. LedgerView[e] \in {"pending", "done", "failed"} /\ LedgerView \in [Events -> {RowView(st) : st \in Pending \cup Terminal \cup {"absent"}}]
    BY RowViews DEF TypeOK, LedgerView, Pending, Terminal, RecordEventFailure
  <1>3. Contract!MayAcknowledge(e, v)
    BY DEF Contract!MayAcknowledge
  <1>4. CASE LedgerView[e] = "pending" /\ v = "pending"
    <2>1. LedgerView' = LedgerView
      BY <1>1, <1>2, <1>4
    <2> QED BY <2>1 DEF Contract!vars
  <1>5. CASE LedgerView[e] = "pending" /\ v = "failed"
    <2>1. Contract!Settle(e)
      BY <1>1, <1>3, <1>5 DEF Contract!Settle, Contract!Verdicts
    <2> QED BY <2>1 DEF Contract!Next
  <1>6. CASE LedgerView[e] \in {"done", "failed"}
    <2>1. Contract!Overrule(e)
      BY <1>1, <1>3, <1>6 DEF Contract!Overrule, Contract!Verdicts
    <2> QED BY <2>1 DEF Contract!Next
  <1> QED BY <1>2, <1>4, <1>5, <1>6

(* A request's claim is a delivery, and its lookup an acknowledgment or     *)
(* nothing the contract sees.                                               *)
LEMMA HandlerRefines ==
  ASSUME DurableInv, NEW h \in Handlers, HandlerNext(h)
  PROVE  Contract!Next \/ UNCHANGED Contract!vars
  <1>0. TypeOK /\ WorkIsReceived /\ CompletedIsPersisted
    BY DEF DurableInv
  <1>1. ASSUME NEW e \in Events, Claim(h, e) \/ ClaimFails(h, e) PROVE Contract!Receive(e)
    <2>1. UNCHANGED <<persisted, expired>> /\ answers' = answers /\ received' = received \cup {e}
      BY <1>1 DEF Claim, ClaimFails
    <2>2. CASE status[e] = "absent" /\ status' = [status EXCEPT ![e] = "processing"]
      <3>1. LedgerView[e] = "absent" /\ LedgerView' = [LedgerView EXCEPT ![e] = "pending"]
        <4>1. LedgerView' = [LedgerView EXCEPT ![e] = RowView("processing")]
          BY <1>0, <2>2, ViewUpdates
        <4>2. LedgerView[e] = "absent"
          BY <2>2, RowViews DEF LedgerView
        <4> QED BY <4>1, <4>2, RowViews
      <3> QED BY <1>0, <2>1, <3>1, ViewUpdates DEF Contract!Receive
    <2>3. CASE status[e] # "absent" /\ status' = status
      <3>1. LedgerView[e] # "absent"
        BY <1>0, <2>3, RowViews DEF TypeOK, LedgerView, Pending, Terminal
      <3>2. LedgerView' = [LedgerView EXCEPT ![e] = LedgerView[e]]
        BY <1>0, <2>3, ViewUpdates DEF LedgerView
      <3> QED BY <1>0, <2>1, <3>1, <3>2, ViewUpdates DEF Contract!Receive
    <2> QED BY <1>1, <2>2, <2>3 DEF Claim, ClaimFails, InsertRow, ledger
  <1>2. ASSUME Lookup(h) PROVE Contract!Acknowledge(item[h].event) \/ UNCHANGED Contract!vars
    <2> DEFINE e == item[h].event
    <2>1. e \in Events /\ LedgerView' = LedgerView /\ UNCHANGED <<received, persisted, expired>>
      BY <1>0, <1>2, ViewUpdates DEF TypeOK, WorkIsReceived, Lookup, Actors
    <2>2. CASE answers' = answers
      BY <1>0, <2>1, <2>2, ViewUpdates DEF Contract!vars
    <2>3. CASE status[e] # "absent" /\ answers' = [answers EXCEPT ![e] = @ \cup {ExistingResult(e)}]
      <3>1. /\ ExistingResult(e) \in Outcomes \ {"accepted"}
            /\ ExistingResult(e) = "duplicate" => e \in persisted
        BY <1>0, <2>1, <2>3 DEF TypeOK, ExistingResult, Outcomes, CompletedIsPersisted, Pending, Terminal
      <3>2. Acknowledged' = Acknowledged \/ (e \in persisted /\ Acknowledged' = Acknowledged \cup {e})
        BY <1>0, <2>1, <2>3, <3>1, ViewUpdates
      <3> QED BY <2>1, <3>2 DEF Contract!Acknowledge, Contract!vars
    <2> QED BY <1>2, <2>2, <2>3 DEF Lookup, Answer
  <1>3. ASSUME Lookup(h) PROVE Contract!Next \/ UNCHANGED Contract!vars
    BY <1>0, <1>2, <1>3 DEF Contract!Next, TypeOK, WorkIsReceived, Lookup, Actors
  <1> QED BY <1>1, <1>3 DEF HandlerNext, Contract!Next

(* Persisting applies an event; completing and recording settle or overrule *)
(* its row; everything else an actor does is invisible to the contract.     *)
LEMMA ActorRefines ==
  ASSUME DurableInv, NEW a \in Actors, ActorNext(a)
  PROVE  Contract!Next \/ UNCHANGED Contract!vars
  <1> DEFINE e == item[a].event
  <1>0. TypeOK /\ WorkIsReceived /\ CompletingIsPersisted
    BY DEF DurableInv
  <1>1. CASE Persist(a) \/ (\E c \in ErrorClasses : PersistFails(a, c))
    <2>1. e \in Events /\ e \in received
      BY <1>0, <1>1 DEF TypeOK, WorkIsReceived, Persist, PersistFails
    <2>2. UNCHANGED <<status, answers, received, expired>>
          /\ persisted' \in {persisted, persisted \cup {e}}
      BY <1>1 DEF Persist, PersistFails
    <2>3. Contract!Apply(e) \/ UNCHANGED Contract!vars
      BY <1>0, <2>1, <2>2, ViewUpdates DEF Contract!Apply, Contract!vars
    <2> QED BY <2>1, <2>3 DEF Contract!Next
  <1>2. CASE Complete(a)
    <2>1. e \in Events /\ e \in persisted
      BY <1>0, <1>2 DEF TypeOK, CompletingIsPersisted, Complete
    <2>2. Acknowledged' \in {Acknowledged, Acknowledged \cup {e}}
      BY <1>0, <1>2, <2>1, ViewUpdates DEF Complete, Answer, Outcomes
    <2> QED BY <1>0, <1>2, <2>1, <2>2, CompleteRefines DEF Complete
  <1>3. CASE \E c \in ErrorClasses : CompleteFails(a, c)
    <2>1. e \in Events /\ e \in persisted
      BY <1>0, <1>3 DEF TypeOK, CompletingIsPersisted, CompleteFails
    <2>2. UNCHANGED <<persisted, received, expired>> /\ Acknowledged' = Acknowledged
      BY <1>0, <1>3, ViewUpdates DEF CompleteFails
    <2>3. CASE MarkEventCompleted(e)
      BY <1>0, <2>1, <2>2, <2>3, CompleteRefines
    <2>4. CASE UNCHANGED ledger
      BY <1>0, <2>2, <2>4, ViewUpdates DEF ledger, Contract!vars
    <2> QED BY <1>3, <2>3, <2>4 DEF CompleteFails
  <1>4. CASE Record(a) \/ RecordFails(a)
    <2>1. e \in Events
      BY <1>0, <1>4 DEF TypeOK, WorkIsReceived, Record, RecordFails
    <2>2. FailureStatus(e, failure[a]) \in Outcomes \ {"accepted", "duplicate"}
      BY DEF FailureStatus, Outcomes
    <2>3. UNCHANGED <<persisted, received, expired>> /\ Acknowledged' = Acknowledged
      BY <1>0, <1>4, <2>1, <2>2, ViewUpdates DEF Record, RecordFails, Answer
    <2>4. CASE RecordEventFailure(e, failure[a])
      BY <1>0, <2>1, <2>3, <2>4, FailureRefines
    <2>5. CASE status' = status
      BY <1>0, <2>3, <2>5, ViewUpdates DEF Contract!vars
    <2> QED BY <1>4, <2>4, <2>5 DEF Record, RecordFails, ledger
  <1>5. CASE Abandon(a)
    BY <1>0, <1>5, ViewUpdates DEF Abandon, Contract!vars
  <1> QED BY <1>1, <1>2, <1>3, <1>4, <1>5 DEF ActorNext

(* Every step of the pipeline is a step of the contract or a stutter. *)
LEMMA StepRefines ==
  ASSUME DurableInv, [Next]_vars
  PROVE  Contract!Next \/ UNCHANGED Contract!vars
  <1>0. TypeOK
    BY DEF DurableInv
  <1>1. ASSUME NEW w \in Workers, WorkerNext(w) PROVE UNCHANGED Contract!vars
    <2>1. UNCHANGED <<persisted, received, expired>> /\ answers' = answers
      BY <1>1 DEF WorkerNext, Lease, LeaseFails, TakeItem
    <2>2. LedgerView' = LedgerView
      <3>1. \/ status' = status
            \/ \E S \in SUBSET Due : status' = [e \in Events |-> IF e \in S THEN "processing" ELSE status[e]]
        BY <1>1 DEF WorkerNext, Lease, LeaseFails, TakeItem, LeaseRows
      <3> QED BY <1>0, <3>1, ViewUpdates, RowViews DEF LedgerView, Due, Pending
    <2> QED BY <1>0, <2>1, <2>2, ViewUpdates DEF Contract!vars
  <1>2. ASSUME NEW e \in Events, Elapse(e) PROVE UNCHANGED Contract!vars
    BY <1>0, <1>2, ViewUpdates DEF Elapse, Contract!vars
  <1>3. ASSUME NEW S \in SUBSET Events, DeleteExpired(S) PROVE Contract!Forget(S)
    <2>1. LedgerView' = [e \in Events |-> IF e \in S THEN "absent" ELSE LedgerView[e]]
      BY <1>3, RowViews DEF DeleteExpired, LedgerView
    <2> QED BY <1>0, <1>3, <2>1, ViewUpdates DEF DeleteExpired, Contract!Forget
  <1>5. ASSUME NEW e \in Events, ChooseExpired(e) PROVE Contract!Expire(e)
    <2>1. LedgerView[e] \in Contract!Verdicts
      BY <1>5, RowViews DEF ChooseExpired, LedgerView, Contract!Verdicts, Terminal
    <2> QED BY <1>0, <1>5, <2>1, ViewUpdates DEF ChooseExpired, Contract!Expire
  <1>4. CASE UNCHANGED vars
    BY <1>0, <1>4, ViewUpdates DEF vars, Contract!vars
  <1> QED BY <1>1, <1>2, <1>3, <1>4, <1>5, HandlerRefines, ActorRefines DEF Next, Contract!Next

(* Every behaviour of the pipeline is a behaviour of the contract. *)
THEOREM PipelineImplementsContract == Spec => ImplementsContract
  <1>1. DurableInv /\ [Next]_vars => [Contract!Next]_Contract!vars
    BY StepRefines
  <1> QED BY <1>1, InitRefines, Durable, PTL DEF Spec, ImplementsContract, Contract!Spec
=============================================================================
