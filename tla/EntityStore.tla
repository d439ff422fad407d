------------------------------ MODULE EntityStore ------------------------------
(***************************************************************************)
(* The entity tables of the Ops API: what persisting an event does to      *)
(* accounts, conversations, messages, request_attempts, infra_snapshots    *)
(* and infra_status_latest when it happens in one step.                    *)
(*                                                                         *)
(* Attempts are retried, so an event may be persisted several times, long  *)
(* after newer ones and in any order. A row stands for its columns by the  *)
(* event that wrote them; only the times, which the upserts compare, are   *)
(* numbers. EntityTransactions has the transactions that implement this.   *)
(***************************************************************************)
EXTENDS Naturals, Sequences

CONSTANTS
    Events,             \* keys (event_type, source, event_id)
    Accounts,           \* keys (source, external_id) of accounts,
    Conversations,      \* of conversations,
    Contents,           \* and of messages and request_attempts
    NoContent,          \* a conversation event without a message
    Sources,            \* keys of infra_status_latest
    NoRow,              \* a key without a row
    MaxTime,            \* bound: the instants are 1 .. MaxTime
    TieReplacesStatus   \* TRUE: an equal ended_at replaces the status

Times == 1 .. MaxTime
Null == 0

(* What an event carries; it is fixed by the row in ingest_events.          *)
EntityPayloads ==
    [kind : {"entity"}, account : Accounts, conversation : Conversations,
     content : Contents \cup {NoContent}, started : Times,
     ended : Times \cup {Null}, created : Times]

SnapshotPayloads ==
    [kind : {"snapshot"}, source : Sources, captured : Times]

(* Mutant: the time of a message or an attempt is not validated. *)
ValidUnordered(p) ==
    p.kind = "entity" /\ p.ended # Null => p.started <= p.ended

(* The checks of DecodeConversationEvent and DecodeRequestAttemptEvent that *)
(* concern times; without a content its time says nothing.                  *)
Valid(p) ==
    p.kind = "entity" =>
      /\ p.ended = Null \/ p.started <= p.ended
      /\ p.started <= p.created
      /\ p.ended = Null \/ p.created <= p.ended
      /\ p.content = NoContent => p.created = p.started

Payloads == {p \in EntityPayloads \cup SnapshotPayloads : Valid(p)}

VARIABLES
    payload,   \* event -> what it carries
    db,        \* key -> its row
    done       \* history: events whose transaction was committed

storeVars == <<payload, db, done>>

-----------------------------------------------------------------------------
AccountKey(a) == <<"account", a>>
ConversationKey(c) == <<"conversation", c>>
ContentKey(m) == <<"content", m>>
SnapshotKey(e) == <<"snapshot", e>>
LatestKey(s) == <<"latest", s>>

Keys ==
    {AccountKey(a) : a \in Accounts}
      \cup {ConversationKey(c) : c \in Conversations}
      \cup {ContentKey(m) : m \in Contents}
      \cup {SnapshotKey(e) : e \in Events}
      \cup {LatestKey(s) : s \in Sources}

ConversationRows ==
    [started : Times, ended : Times \cup {Null}, status : Events, by : Events]

Rows == Events \cup ConversationRows

ASSUME RowsAssumption ==
    /\ NoRow \notin Rows
    /\ Events \cap ConversationRows = {}
    /\ NoContent \notin Contents
    /\ MaxTime \in Nat
    /\ TieReplacesStatus \in BOOLEAN

Least(i, j) == IF i <= j THEN i ELSE j
Greatest(i, j) == IF i >= j THEN i ELSE j

(* Mutants: the row of a new conversation is merged with a zero row; the    *)
(* conversation starts when the last event says; a late event without an    *)
(* end takes the status back.                                               *)
UpsertConversationOverZero(row, e) ==
    LET p == payload[e] IN
    [started |-> IF row = NoRow THEN 0 ELSE Least(row.started, p.started),
     ended   |-> IF row = NoRow THEN p.ended ELSE Greatest(row.ended, p.ended),
     status  |-> IF row # NoRow /\ p.ended < row.ended THEN row.status ELSE e,
     by      |-> e]

UpsertConversationLastStart(row, e) ==
    LET p == payload[e] IN
    [started |-> p.started,
     ended   |-> IF row = NoRow THEN p.ended ELSE Greatest(row.ended, p.ended),
     status  |-> IF row # NoRow /\ p.ended < row.ended THEN row.status ELSE e,
     by      |-> e]

UpsertConversationLastStatus(row, e) ==
    LET p == payload[e] IN
    [started |-> IF row = NoRow THEN p.started ELSE Least(row.started, p.started),
     ended   |-> IF row = NoRow THEN p.ended ELSE Greatest(row.ended, p.ended),
     status  |-> e,
     by      |-> e]

(* The new row keeps the earliest start and the latest end, and the status  *)
(* that came with that end; channel and account are those of the last       *)
(* event. Null is 0, so it is less than every time.                         *)
KeepsStatus(row, p) ==
    /\ row.ended # Null
    /\ p.ended < row.ended \/ (p.ended = row.ended /\ ~TieReplacesStatus)

UpsertConversation(row, e) ==
    LET p == payload[e] IN
    IF row = NoRow
      THEN [started |-> p.started, ended |-> p.ended, status |-> e, by |-> e]
      ELSE [started |-> Least(row.started, p.started),
            ended   |-> Greatest(row.ended, p.ended),
            status  |-> IF KeepsStatus(row, p) THEN row.status ELSE e,
            by      |-> e]

(* Mutant: the last snapshot to arrive is the latest. *)
UpsertLatestArrived(row, e) == e

(* infra_status_latest refers to the snapshot captured last. *)
UpsertLatest(row, e) ==
    IF row # NoRow /\ payload[e].captured < payload[row].captured THEN row ELSE e

(* Accounts, contents and snapshots are overwritten as a whole. *)
Upserted(k, row, e) ==
    CASE k[1] = "conversation" -> UpsertConversation(row, e)
      [] k[1] = "latest" -> UpsertLatest(row, e)
      [] OTHER -> e

(* The rows an event writes. *)
Touched(e) ==
    LET p == payload[e] IN
    IF p.kind = "snapshot"
      THEN {SnapshotKey(e), LatestKey(p.source)}
      ELSE {AccountKey(p.account), ConversationKey(p.conversation)}
             \cup (IF p.content = NoContent THEN {} ELSE {ContentKey(p.content)})

-----------------------------------------------------------------------------
StoreInit ==
    /\ payload \in [Events -> Payloads]
    /\ db = [k \in Keys |-> NoRow]
    /\ done = {}

Persist(e) ==
    /\ db' = [k \in Keys |-> IF k \in Touched(e) THEN Upserted(k, db[k], e) ELSE db[k]]
    /\ done' = done \cup {e}
    /\ UNCHANGED payload

StoreNext == \E e \in Events : Persist(e)

StoreSpec == StoreInit /\ [][StoreNext]_storeVars

-----------------------------------------------------------------------------
(* The tables hold rows of their own kind. *)
StoreTypeOK ==
    /\ payload \in [Events -> Payloads]
    /\ db \in [Keys -> Rows \cup {NoRow}]
    /\ \A c \in Conversations : db[ConversationKey(c)] \in ConversationRows \cup {NoRow}
    /\ \A m \in Contents : db[ContentKey(m)] \in Events \cup {NoRow}
    /\ \A s \in Sources : db[LatestKey(s)] \in Events \cup {NoRow}
    /\ done \subseteq Events

(* The committed events of a conversation, and the snapshots of a source. *)
EventsOf(c) ==
    {e \in done : payload[e].kind = "entity" /\ payload[e].conversation = c}

SnapshotsOf(s) ==
    {e \in done : payload[e].kind = "snapshot" /\ payload[e].source = s}

(* A conversation spans exactly what its events span, whatever the order in *)
(* which they and their retries were persisted: it starts with the earliest *)
(* start and ends with the latest end that any of them gave.                *)
ConversationSpansItsEvents ==
    \A c \in Conversations :
      LET row == db[ConversationKey(c)] IN
      IF EventsOf(c) = {}
        THEN row = NoRow
        ELSE /\ row # NoRow
             /\ \A e \in EventsOf(c) :
                  row.started <= payload[e].started /\ payload[e].ended <= row.ended
             /\ \E e \in EventsOf(c) : row.started = payload[e].started
             /\ \E e \in EventsOf(c) : row.ended = payload[e].ended

(* The status of a conversation came with its end: no event that is retried *)
(* or delivered late reopens a conversation that has ended.                 *)
StatusCameWithTheEnd ==
    \A c \in Conversations :
      LET row == db[ConversationKey(c)] IN
      row # NoRow =>
        /\ row.status \in EventsOf(c)
        /\ payload[row.status].ended = row.ended

(* A message or a request attempt is never older than the conversation it   *)
(* belongs to, although each of the two may be rewritten by other events.   *)
ContentsFollowTheStart ==
    \A m \in Contents :
      LET e == db[ContentKey(m)] IN
      e # NoRow =>
        /\ e \in EventsOf(payload[e].conversation)
        /\ db[ConversationKey(payload[e].conversation)].started <= payload[e].created

(* infra_status_latest refers to a stored snapshot of its source, and none  *)
(* of them was captured later.                                              *)
LatestIsNewest ==
    \A s \in Sources :
      LET latest == db[LatestKey(s)] IN
      IF SnapshotsOf(s) = {}
        THEN latest = NoRow
        ELSE /\ latest \in SnapshotsOf(s)
             /\ db[SnapshotKey(latest)] = latest
             /\ \A e \in SnapshotsOf(s) : payload[e].captured <= payload[latest].captured
=============================================================================
