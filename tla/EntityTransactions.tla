--------------------------- MODULE EntityTransactions ---------------------------
(***************************************************************************)
(* PersistConversationEvent, PersistRequestAttempt and                     *)
(* PersistInfraSnapshot as Postgres runs them: a transaction per attempt,  *)
(* one upsert statement per step, each of which waits for the lock on its  *)
(* row and holds it until the transaction ends. Handlers and workers run   *)
(* such transactions at the same time, for the same event too when an      *)
(* attempt outlives its lease.                                             *)
(***************************************************************************)
EXTENDS EntityStore

CONSTANTS
    Sessions,   \* database connections: db.SetMaxOpenConns
    NoEvent,    \* the event of a session without a transaction
    Schemas,    \* for each schema, the tables whose unique index is partial
    MaxRuns,    \* bound: transactions begun in a behaviour
    MaxFaults   \* bound: transactions that fail on their own

ASSUME SessionsAssumption ==
    /\ NoEvent \notin Events
    /\ MaxRuns \in Nat /\ MaxFaults \in Nat

VARIABLES
    partial,   \* tables whose unique index is partial
    event,     \* session -> the event it persists
    step,      \* session -> the statement it executes next
    locks,     \* session -> keys whose rows it has locked
    writes,    \* session -> key -> the row it will commit
    runs,      \* number of transactions so far, at most MaxRuns
    faults     \* number of faults so far, at most MaxFaults

sessionVars == <<event, step, locks, writes>>
vars == <<payload, db, done, partial, event, step, locks, writes, runs, faults>>

-----------------------------------------------------------------------------
(* Mutant: an event with content locks the conversation before the account. *)
StatementsUnordered(e) ==
    LET p == payload[e] IN
    IF p.kind = "snapshot"
      THEN <<SnapshotKey(e), LatestKey(p.source)>>
      ELSE IF p.content = NoContent
             THEN <<AccountKey(p.account), ConversationKey(p.conversation)>>
             ELSE <<ConversationKey(p.conversation), AccountKey(p.account), ContentKey(p.content)>>

(* The rows the statements of an event upsert, in their order. *)
Statements(e) ==
    LET p == payload[e] IN
    IF p.kind = "snapshot"
      THEN <<SnapshotKey(e), LatestKey(p.source)>>
      ELSE IF p.content = NoContent
             THEN <<AccountKey(p.account), ConversationKey(p.conversation)>>
             ELSE <<AccountKey(p.account), ConversationKey(p.conversation), ContentKey(p.content)>>

(* ON CONFLICT finds a partial unique index only if it repeats the index's  *)
(* predicate, which of the upserts only that of infra_snapshots does.       *)
HasArbiter(k) == k[1] \notin partial \/ k[1] = "snapshot"

Init ==
    /\ StoreInit
    /\ partial \in Schemas
    /\ event = [s \in Sessions |-> NoEvent]
    /\ step = [s \in Sessions |-> 0]
    /\ locks = [s \in Sessions |-> {}]
    /\ writes = [s \in Sessions |-> [k \in Keys |-> NoRow]]
    /\ runs = 0
    /\ faults = 0

-----------------------------------------------------------------------------
Active(s) == event[s] # NoEvent
NextKey(s) == Statements(event[s])[step[s]]
HasStatement(s) == Active(s) /\ step[s] <= Len(Statements(event[s]))

EndTransaction(s) ==
    /\ event' = [event EXCEPT ![s] = NoEvent]
    /\ step' = [step EXCEPT ![s] = 0]
    /\ locks' = [locks EXCEPT ![s] = {}]
    /\ writes' = [writes EXCEPT ![s] = [k \in Keys |-> NoRow]]

(* A handler or a worker has an attempt at event e. *)
Begin(s, e) ==
    /\ ~Active(s)
    /\ runs < MaxRuns
    /\ runs' = runs + 1
    /\ event' = [event EXCEPT ![s] = e]
    /\ step' = [step EXCEPT ![s] = 1]
    /\ UNCHANGED <<payload, db, done, partial, locks, writes, faults>>

(* Mutant: a statement does not wait. *)
FreeAlways(s, k) == TRUE

(* No other transaction has locked the row. *)
Free(s, k) == \A t \in Sessions \ {s} : k \notin locks[t]

(* An upsert: it waits for the transaction that has the row locked, reads   *)
(* the row as committed, and writes a new version of it.                    *)
Execute(s) ==
    /\ HasStatement(s)
    /\ LET k == NextKey(s) IN
         /\ HasArbiter(k)
         /\ Free(s, k)
         /\ locks' = [locks EXCEPT ![s] = @ \cup {k}]
         /\ writes' = [writes EXCEPT ![s][k] = Upserted(k, db[k], event[s])]
    /\ step' = [step EXCEPT ![s] = @ + 1]
    /\ UNCHANGED <<payload, db, done, partial, event, runs, faults>>

(* The server refuses a statement whose conflict target matches no index.   *)
Reject(s) ==
    /\ HasStatement(s)
    /\ ~HasArbiter(NextKey(s))
    /\ EndTransaction(s)
    /\ UNCHANGED <<payload, db, done, partial, runs, faults>>

Commit(s) ==
    /\ Active(s)
    /\ step[s] > Len(Statements(event[s]))
    /\ db' = [k \in Keys |-> IF k \in locks[s] THEN writes[s][k] ELSE db[k]]
    /\ done' = done \cup {event[s]}
    /\ EndTransaction(s)
    /\ UNCHANGED <<payload, partial, runs, faults>>

(* Mutant: what a failing transaction wrote stays. *)
RollbackPartly(s) ==
    /\ Active(s)
    /\ faults < MaxFaults
    /\ faults' = faults + 1
    /\ db' = [k \in Keys |-> IF k \in locks[s] THEN writes[s][k] ELSE db[k]]
    /\ EndTransaction(s)
    /\ UNCHANGED <<payload, done, partial, runs>>

(* A statement or the commit fails, the context is cancelled, the process   *)
(* or its connection is gone: the transaction has no effect. (A commit that *)
(* took effect but reported an error is a Commit here; what the attempt     *)
(* makes of the error is in IngestPipeline.)                                *)
Rollback(s) ==
    /\ Active(s)
    /\ faults < MaxFaults
    /\ faults' = faults + 1
    /\ EndTransaction(s)
    /\ UNCHANGED <<payload, db, done, partial, runs>>

Next ==
    \/ \E s \in Sessions, e \in Events : Begin(s, e)
    \/ \E s \in Sessions : Execute(s)
    \/ \E s \in Sessions : Reject(s)
    \/ \E s \in Sessions : Commit(s)
    \/ \E s \in Sessions : Rollback(s)

Spec == Init /\ [][Next]_vars

-----------------------------------------------------------------------------
(* The tables and the sessions keep their types: what a session holds are   *)
(* rows for keys of the tables.                                             *)
TypeOK ==
    /\ StoreTypeOK
    /\ event \in [Sessions -> Events \cup {NoEvent}]
    /\ step \in [Sessions -> Nat]
    /\ locks \in [Sessions -> SUBSET Keys]
    /\ writes \in [Sessions -> [Keys -> Rows \cup {NoRow}]]
    /\ runs \in 0 .. MaxRuns
    /\ faults \in 0 .. MaxFaults

(* However the statements of concurrent transactions interleave, and        *)
(* wherever they fail, the tables are what they would be if each committed  *)
(* attempt had happened in one step, in the order of the commits.           *)
Serializable == StoreSpec

(* The transactions never all wait for each other's rows: all of them lock *)
(* an account before a conversation, that before a message or an attempt,   *)
(* and a snapshot before its source's latest status.                        *)
SomeTransactionGoesOn ==
    (\E s \in Sessions : Active(s)) =>
      \E s \in Sessions : Active(s) /\ (HasStatement(s) => Free(s, NextKey(s)))

(* "Upserts account and conversation state": an attempt that meets no fault *)
(* commits its event.                                                       *)
AttemptsWithoutFaultCommit ==
    [][\A s \in Sessions :
         event[s] # NoEvent /\ event'[s] = NoEvent /\ faults' = faults
         => event[s] \in done']_vars
=============================================================================
