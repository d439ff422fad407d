------------------------------ MODULE EntityProofs ------------------------------
(***************************************************************************)
(* What the upserts keep, for every set of events, keys and sessions: the  *)
(* transactions are serializable, and the tables they leave relate to the  *)
(* events that were committed as EntityStore says.                         *)
(***************************************************************************)
EXTENDS EntityTransactions, TLAPS

-----------------------------------------------------------------------------
(* What an event writes, table by table *)

(* A payload is that of an entity event or that of a snapshot. *)
LEMMA PayloadFields ==
    ASSUME payload \in [Events -> Payloads], NEW e \in Events
    PROVE  /\ payload[e].kind \in {"entity", "snapshot"}
           /\ payload[e].kind = "entity" => payload[e] \in EntityPayloads /\ Valid(payload[e])
           /\ payload[e].kind = "snapshot" => payload[e] \in SnapshotPayloads
  BY DEF Payloads, EntityPayloads, SnapshotPayloads

(* The rows that Persist reaches. *)
LEMMA TouchedRows ==
    ASSUME payload \in [Events -> Payloads], NEW e \in Events
    PROVE  /\ Touched(e) \subseteq Keys
           /\ \A c \in Conversations : ConversationKey(c) \in Touched(e)
                <=> payload[e].kind = "entity" /\ payload[e].conversation = c
           /\ \A m \in Contents : ContentKey(m) \in Touched(e)
                <=> payload[e].kind = "entity" /\ payload[e].content = m
           /\ \A s \in Sources : LatestKey(s) \in Touched(e)
                <=> payload[e].kind = "snapshot" /\ payload[e].source = s
           /\ \A f \in Events : SnapshotKey(f) \in Touched(e)
                <=> payload[e].kind = "snapshot" /\ f = e
  BY PayloadFields, RowsAssumption
     DEF Touched, Keys, AccountKey, ConversationKey, ContentKey, SnapshotKey, LatestKey,
         EntityPayloads, SnapshotPayloads

(* What an upsert makes of a row of each table. *)
LEMMA UpsertedRows ==
    ASSUME NEW e \in Events, NEW row
    PROVE  /\ \A c \in Conversations :
                Upserted(ConversationKey(c), row, e) = UpsertConversation(row, e)
           /\ \A m \in Contents : Upserted(ContentKey(m), row, e) = e
           /\ \A s \in Sources : Upserted(LatestKey(s), row, e) = UpsertLatest(row, e)
           /\ \A f \in Events : Upserted(SnapshotKey(f), row, e) = e
           /\ \A a \in Accounts : Upserted(AccountKey(a), row, e) = e
  BY DEF Upserted, AccountKey, ConversationKey, ContentKey, SnapshotKey, LatestKey

(* A conversation's row stays one. *)
LEMMA ConversationRowStays ==
    ASSUME payload \in [Events -> Payloads], NEW e \in Events,
           payload[e].kind = "entity",
           NEW row \in ConversationRows \cup {NoRow}
    PROVE  UpsertConversation(row, e) \in ConversationRows
  BY PayloadFields, RowsAssumption
     DEF UpsertConversation, ConversationRows, EntityPayloads, Times, Null, Least, Greatest

(* The tables after an event was persisted. *)
LEMMA PersistRows ==
    ASSUME StoreTypeOK, NEW e \in Events, Persist(e)
    PROVE  /\ payload' = payload
           /\ done' = done \cup {e}
           /\ \A c \in Conversations : db'[ConversationKey(c)] =
                IF payload[e].kind = "entity" /\ payload[e].conversation = c
                  THEN UpsertConversation(db[ConversationKey(c)], e)
                  ELSE db[ConversationKey(c)]
           /\ \A m \in Contents : db'[ContentKey(m)] =
                IF payload[e].kind = "entity" /\ payload[e].content = m
                  THEN e ELSE db[ContentKey(m)]
           /\ \A s \in Sources : db'[LatestKey(s)] =
                IF payload[e].kind = "snapshot" /\ payload[e].source = s
                  THEN UpsertLatest(db[LatestKey(s)], e) ELSE db[LatestKey(s)]
           /\ \A f \in Events : db'[SnapshotKey(f)] =
                IF payload[e].kind = "snapshot" /\ f = e THEN e ELSE db[SnapshotKey(f)]
<1>1. /\ \A c \in Conversations : ConversationKey(c) \in Keys
      /\ \A m \in Contents : ContentKey(m) \in Keys
      /\ \A s \in Sources : LatestKey(s) \in Keys
      /\ \A f \in Events : SnapshotKey(f) \in Keys
  BY DEF Keys
<1>2. \A k \in Keys :
        db'[k] = IF k \in Touched(e) THEN Upserted(k, db[k], e) ELSE db[k]
  BY DEF Persist
<1>3. payload \in [Events -> Payloads]
  BY DEF StoreTypeOK
<1>4. payload' = payload /\ done' = done \cup {e}
  BY DEF Persist
<1>5. QED
  BY <1>1, <1>2, <1>3, <1>4, TouchedRows, UpsertedRows

-----------------------------------------------------------------------------
(* The store *)

(* Every row has the form of its table. *)
LEMMA PersistTyped ==
    ASSUME StoreTypeOK, NEW e \in Events, Persist(e)
    PROVE  StoreTypeOK'
<1>1. payload \in [Events -> Payloads] /\ payload' = payload /\ done' \subseteq Events
  BY PersistRows DEF StoreTypeOK
<1>2. \A c \in Conversations :
        db'[ConversationKey(c)] \in ConversationRows \cup {NoRow}
  BY PersistRows, ConversationRowStays, <1>1 DEF StoreTypeOK
<1>3. \A m \in Contents : db'[ContentKey(m)] \in Events \cup {NoRow}
  BY PersistRows DEF StoreTypeOK
<1>4. \A s \in Sources : db'[LatestKey(s)] \in Events \cup {NoRow}
  BY PersistRows DEF StoreTypeOK, UpsertLatest
<1>5. db' \in [Keys -> Rows \cup {NoRow}]
  <2>1. db' = [k \in Keys |-> IF k \in Touched(e) THEN Upserted(k, db[k], e) ELSE db[k]]
    BY DEF Persist
  <2>2. ASSUME NEW k \in Keys PROVE db'[k] \in Rows \cup {NoRow}
    <3>1. db[k] \in Rows \cup {NoRow}
      BY DEF StoreTypeOK
    <3>2. CASE \E c \in Conversations : k = ConversationKey(c)
      BY <3>2, <1>2 DEF Rows
    <3>3. CASE \E a \in Accounts : k = AccountKey(a)
      BY <3>1, <3>3, <2>1, UpsertedRows DEF Rows
    <3>4. CASE \E m \in Contents : k = ContentKey(m)
      BY <3>4, <1>3 DEF Rows
    <3>5. CASE \E s \in Sources : k = LatestKey(s)
      BY <3>5, <1>4 DEF Rows
    <3>6. CASE \E f \in Events : k = SnapshotKey(f)
      BY <3>1, <3>6, <2>1, UpsertedRows DEF Rows
    <3>7. QED
      BY <3>2, <3>3, <3>4, <3>5, <3>6 DEF Keys
  <2>3. QED
    BY <2>1, <2>2
<1>6. QED
  BY <1>1, <1>2, <1>3, <1>4, <1>5 DEF StoreTypeOK

(* The tables hold rows of their own kind, whatever was persisted. *)
THEOREM StoreTypeCorrect == StoreSpec => []StoreTypeOK
<1>1. StoreInit => StoreTypeOK
  BY DEF StoreInit, StoreTypeOK, Keys
<1>2. StoreTypeOK /\ [StoreNext]_storeVars => StoreTypeOK'
  BY PersistTyped DEF StoreNext, storeVars, StoreTypeOK
<1>3. QED
  BY <1>1, <1>2, PTL DEF StoreSpec

(* What the tables say of the committed events, as an inductive invariant:  *)
(* the times of a conversation and the origin of each row.                  *)
TablesFollowTheEvents ==
    /\ StoreTypeOK
    /\ ConversationSpansItsEvents
    /\ StatusCameWithTheEnd
    /\ ContentsFollowTheStart
    /\ LatestIsNewest

(* The committed events after another one. *)
LEMMA PersistEvents ==
    ASSUME StoreTypeOK, NEW e \in Events, Persist(e)
    PROVE  /\ \A c \in Conversations : EventsOf(c)' =
                IF payload[e].kind = "entity" /\ payload[e].conversation = c
                  THEN EventsOf(c) \cup {e} ELSE EventsOf(c)
           /\ \A s \in Sources : SnapshotsOf(s)' =
                IF payload[e].kind = "snapshot" /\ payload[e].source = s
                  THEN SnapshotsOf(s) \cup {e} ELSE SnapshotsOf(s)
  BY PersistRows DEF EventsOf, SnapshotsOf

(* The types of the times that are compared. *)
LEMMA Instants ==
    ASSUME StoreTypeOK
    PROVE  /\ \A e \in Events : payload[e].kind = "entity" =>
                /\ payload[e].started \in Nat /\ payload[e].ended \in Nat
                /\ payload[e].created \in Nat
                /\ payload[e].started <= payload[e].created
                /\ payload[e].conversation \in Conversations
           /\ \A e \in Events : payload[e].kind = "snapshot" =>
                payload[e].captured \in Nat /\ payload[e].source \in Sources
           /\ \A row \in ConversationRows :
                row.started \in Nat /\ row.ended \in Nat /\ row # NoRow
  BY PayloadFields, RowsAssumption
     DEF StoreTypeOK, EntityPayloads, SnapshotPayloads, ConversationRows, Rows, Times, Null, Valid

(* The row of a conversation after an upsert: it spans one event more, and  *)
(* its status comes with its end.                                           *)
LEMMA UpsertKeepsSpan ==
    ASSUME TablesFollowTheEvents, NEW e \in Events, Persist(e),
           NEW c \in Conversations
    PROVE  LET row == db'[ConversationKey(c)] IN
           IF EventsOf(c)' = {}
             THEN row = NoRow
             ELSE /\ row # NoRow
                  /\ \A f \in EventsOf(c)' :
                       row.started <= payload[f].started /\ payload[f].ended <= row.ended
                  /\ \E f \in EventsOf(c)' : row.started = payload[f].started
                  /\ \E f \in EventsOf(c)' : row.ended = payload[f].ended
                  /\ row.status \in EventsOf(c)'
                  /\ payload[row.status].ended = row.ended
<1> DEFINE row == db[ConversationKey(c)]
           new == db'[ConversationKey(c)]
<1>1. StoreTypeOK /\ row \in ConversationRows \cup {NoRow}
  BY DEF TablesFollowTheEvents, StoreTypeOK
<1>2. /\ row = NoRow => EventsOf(c) = {}
      /\ row # NoRow =>
           /\ EventsOf(c) # {}
           /\ \A f \in EventsOf(c) :
                row.started <= payload[f].started /\ payload[f].ended <= row.ended
           /\ \E f \in EventsOf(c) : row.started = payload[f].started
           /\ \E f \in EventsOf(c) : row.ended = payload[f].ended
           /\ row.status \in EventsOf(c)
           /\ payload[row.status].ended = row.ended
  BY DEF TablesFollowTheEvents, ConversationSpansItsEvents, StatusCameWithTheEnd
<1>3. EventsOf(c) \subseteq Events
      /\ \A f \in EventsOf(c) : payload[f].kind = "entity"
  BY <1>1 DEF EventsOf, StoreTypeOK
<1>4. CASE ~(payload[e].kind = "entity" /\ payload[e].conversation = c)
  <2>1. new = row /\ EventsOf(c)' = EventsOf(c)
    BY <1>1, <1>4, PersistRows, PersistEvents
  <2>2. QED
    BY <2>1, <1>2
<1>5. CASE payload[e].kind = "entity" /\ payload[e].conversation = c
  <2>1. new = UpsertConversation(row, e) /\ EventsOf(c)' = EventsOf(c) \cup {e}
    BY <1>1, <1>5, PersistRows, PersistEvents
  <2>2. new \in ConversationRows
    BY <2>1, <1>1, <1>5, ConversationRowStays DEF StoreTypeOK
  <2>3. new # NoRow
    BY <2>2, <1>1, Instants
  <2>4. CASE row = NoRow
    <3>1. /\ new.started = payload[e].started /\ new.ended = payload[e].ended
          /\ new.status = e
      BY <2>1, <2>4 DEF UpsertConversation
    <3>2. payload[e].started \in Nat /\ payload[e].ended \in Nat
      BY <1>1, <1>5, Instants
    <3>3. QED
      BY <3>1, <3>2, <2>1, <2>3, <2>4, <1>2
  <2>5. CASE row # NoRow
    <3>1. /\ new.started = Least(row.started, payload[e].started)
          /\ new.ended = Greatest(row.ended, payload[e].ended)
          /\ new.status = IF KeepsStatus(row, payload[e]) THEN row.status ELSE e
      BY <2>1, <2>5 DEF UpsertConversation
    <3>2. /\ payload[e].started \in Nat /\ payload[e].ended \in Nat
          /\ row.started \in Nat /\ row.ended \in Nat
          /\ \A f \in EventsOf(c) : payload[f].started \in Nat /\ payload[f].ended \in Nat
      BY <1>1, <1>3, <1>5, <2>5, Instants
    <3>3. /\ \A f \in EventsOf(c)' :
               new.started <= payload[f].started /\ payload[f].ended <= new.ended
      BY <3>1, <3>2, <2>1, <2>5, <1>2 DEF Least, Greatest
    <3>4. \E f \in EventsOf(c)' : new.started = payload[f].started
      BY <3>1, <3>2, <2>1, <2>5, <1>2 DEF Least
    <3>5. \E f \in EventsOf(c)' : new.ended = payload[f].ended
      BY <3>1, <3>2, <2>1, <2>5, <1>2 DEF Greatest
    <3>6. new.status \in EventsOf(c)' /\ payload[new.status].ended = new.ended
      BY <3>1, <3>2, <2>1, <2>5, <1>2, RowsAssumption DEF KeepsStatus, Greatest, Null
    <3>7. QED
      BY <2>1, <2>3, <3>3, <3>4, <3>5, <3>6
  <2>6. QED
    BY <2>4, <2>5
<1>6. QED
  BY <1>4, <1>5

(* The rows of messages and attempts after an upsert. *)
LEMMA UpsertKeepsContents ==
    ASSUME TablesFollowTheEvents, NEW e \in Events, Persist(e)
    PROVE  ContentsFollowTheStart'
<1>1. StoreTypeOK /\ payload' = payload
  BY PersistRows DEF TablesFollowTheEvents
<1> SUFFICES ASSUME NEW m \in Contents, NEW f, f = db'[ContentKey(m)], f # NoRow
             PROVE  \E c \in Conversations :
                      /\ c = payload[f].conversation
                      /\ f \in EventsOf(c)'
                      /\ db'[ConversationKey(c)].started <= payload[f].created
  BY <1>1 DEF ContentsFollowTheStart
<1>2. f \in done' /\ f \in Events /\ payload[f].kind = "entity"
  <2>1. CASE payload[e].kind = "entity" /\ payload[e].content = m
    BY <2>1, <1>1, PersistRows
  <2>2. CASE ~(payload[e].kind = "entity" /\ payload[e].content = m)
    <3>1. f = db[ContentKey(m)]
      BY <2>2, <1>1, PersistRows
    <3>2. f \in EventsOf(payload[f].conversation) /\ f \in Events
      BY <3>1 DEF TablesFollowTheEvents, ContentsFollowTheStart, StoreTypeOK
    <3>3. f \in done /\ payload[f].kind = "entity"
      BY <3>2 DEF EventsOf
    <3>4. QED
      BY <1>1, <3>2, <3>3, PersistRows
  <2>3. QED
    BY <2>1, <2>2
<1>3. PICK c \in Conversations : c = payload[f].conversation
  BY <1>1, <1>2, Instants
<1>4. f \in EventsOf(c)'
  BY <1>1, <1>2, <1>3 DEF EventsOf
<1>5. payload[f].started \in Nat /\ payload[f].created \in Nat
      /\ payload[f].started <= payload[f].created
  BY <1>1, <1>2, Instants
<1>6. db'[ConversationKey(c)] # NoRow
      /\ db'[ConversationKey(c)].started <= payload[f].started
  BY <1>4, UpsertKeepsSpan
<1>7. db'[ConversationKey(c)].started \in Nat
  <2>1. StoreTypeOK'
    BY <1>1, PersistTyped
  <2>2. db'[ConversationKey(c)] \in ConversationRows
    BY <1>6, <2>1 DEF StoreTypeOK
  <2>3. QED
    BY <1>1, <2>2, Instants
<1>8. QED
  BY <1>3, <1>4, <1>5, <1>6, <1>7

(* The latest snapshot of each source after an upsert. *)
LEMMA UpsertKeepsLatest ==
    ASSUME TablesFollowTheEvents, NEW e \in Events, Persist(e)
    PROVE  LatestIsNewest'
<1>1. StoreTypeOK /\ payload' = payload
  BY PersistRows DEF TablesFollowTheEvents
<1> SUFFICES ASSUME NEW s \in Sources
             PROVE  LET latest == db'[LatestKey(s)] IN
                    IF SnapshotsOf(s)' = {}
                      THEN latest = NoRow
                      ELSE /\ latest \in SnapshotsOf(s)'
                           /\ db'[SnapshotKey(latest)] = latest
                           /\ \A f \in SnapshotsOf(s)' :
                                payload[f].captured <= payload[latest].captured
  BY <1>1 DEF LatestIsNewest, SnapshotsOf
<1> DEFINE old == db[LatestKey(s)]
           new == db'[LatestKey(s)]
<1>2. /\ old = NoRow => SnapshotsOf(s) = {}
      /\ old # NoRow =>
           /\ old \in SnapshotsOf(s)
           /\ db[SnapshotKey(old)] = old
           /\ \A f \in SnapshotsOf(s) : payload[f].captured <= payload[old].captured
  <2>1. SnapshotsOf(s) \subseteq Events
    BY DEF TablesFollowTheEvents, StoreTypeOK, SnapshotsOf
  <2>2. QED
    BY <2>1, RowsAssumption DEF TablesFollowTheEvents, LatestIsNewest, Rows
<1>3. \A f \in SnapshotsOf(s) : f \in Events /\ payload[f].captured \in Nat
  BY <1>1, Instants DEF SnapshotsOf, StoreTypeOK
<1>4. CASE ~(payload[e].kind = "snapshot" /\ payload[e].source = s)
  <2>1. new = old /\ SnapshotsOf(s)' = SnapshotsOf(s)
    BY <1>1, <1>4, PersistRows, PersistEvents
  <2>2. CASE old = NoRow
    BY <2>1, <2>2, <1>2
  <2>3. CASE old # NoRow
    <3>1. old \in Events /\ db[SnapshotKey(old)] = old
      BY <2>3, <1>2, <1>3
    <3>2. db'[SnapshotKey(old)] = old
      BY <3>1, <1>1, PersistRows
    <3>3. QED
      BY <2>1, <2>3, <3>2, <1>2
  <2>4. QED
    BY <2>2, <2>3
<1>5. CASE payload[e].kind = "snapshot" /\ payload[e].source = s
  <2>1. new = UpsertLatest(old, e) /\ SnapshotsOf(s)' = SnapshotsOf(s) \cup {e}
        /\ db'[SnapshotKey(e)] = e
    BY <1>1, <1>5, PersistRows, PersistEvents
  <2>2. payload[e].captured \in Nat
    BY <1>1, <1>5, Instants
  <2>3. CASE new = e
    <3>1. old # NoRow => payload[old].captured <= payload[e].captured
      BY <2>1, <2>2, <2>3, <1>2, <1>3 DEF UpsertLatest
    <3>2. QED
      BY <2>1, <2>2, <2>3, <3>1, <1>2, <1>3
  <2>4. CASE new # e
    <3>1. new = old /\ old # NoRow /\ payload[e].captured < payload[old].captured
      BY <2>1, <2>4 DEF UpsertLatest
    <3>2. db'[SnapshotKey(old)] = old
      BY <3>1, <1>1, <1>2, <1>3, PersistRows
    <3>3. QED
      BY <2>1, <2>2, <3>1, <3>2, <1>2, <1>3
  <2>5. QED
    BY <2>3, <2>4
<1>6. QED
  BY <1>4, <1>5

(* Whatever is persisted, in whatever order and however often, the tables   *)
(* follow the committed events.                                             *)
THEOREM StoreFollowsTheEvents == StoreSpec => []TablesFollowTheEvents
<1>1. StoreInit => TablesFollowTheEvents
  <2> SUFFICES ASSUME StoreInit PROVE TablesFollowTheEvents
    OBVIOUS
  <2>1. StoreTypeOK
    BY DEF StoreInit, StoreTypeOK, Keys
  <2>2. \A k \in Keys : db[k] = NoRow
    BY DEF StoreInit
  <2>3. /\ \A c \in Conversations : db[ConversationKey(c)] = NoRow /\ EventsOf(c) = {}
        /\ \A m \in Contents : db[ContentKey(m)] = NoRow
        /\ \A s \in Sources : db[LatestKey(s)] = NoRow /\ SnapshotsOf(s) = {}
    BY <2>2 DEF StoreInit, Keys, EventsOf, SnapshotsOf
  <2>4. QED
    BY <2>1, <2>3 DEF TablesFollowTheEvents, ConversationSpansItsEvents,
          StatusCameWithTheEnd, ContentsFollowTheStart, LatestIsNewest
<1>2. TablesFollowTheEvents /\ [StoreNext]_storeVars => TablesFollowTheEvents'
  <2> SUFFICES ASSUME TablesFollowTheEvents, [StoreNext]_storeVars
               PROVE  TablesFollowTheEvents'
    OBVIOUS
  <2>1. CASE UNCHANGED storeVars
    BY <2>1 DEF storeVars, TablesFollowTheEvents, StoreTypeOK, ConversationSpansItsEvents,
          StatusCameWithTheEnd, ContentsFollowTheStart, LatestIsNewest, EventsOf, SnapshotsOf
  <2>2. ASSUME NEW e \in Events, Persist(e) PROVE TablesFollowTheEvents'
    <3>1. StoreTypeOK'
      BY <2>2, PersistTyped DEF TablesFollowTheEvents
    <3>2. payload' = payload
      BY <2>2 DEF Persist
    <3>3. ConversationSpansItsEvents'
      BY <2>2, <3>2, UpsertKeepsSpan DEF ConversationSpansItsEvents, TablesFollowTheEvents
    <3>4. StatusCameWithTheEnd'
      BY <2>2, <3>2, UpsertKeepsSpan DEF StatusCameWithTheEnd, TablesFollowTheEvents
    <3>5. ContentsFollowTheStart' /\ LatestIsNewest'
      BY <2>2, UpsertKeepsContents, UpsertKeepsLatest
    <3>6. QED
      BY <3>1, <3>3, <3>4, <3>5 DEF TablesFollowTheEvents
  <2>3. QED
    BY <2>1, <2>2 DEF StoreNext
<1>3. QED
  BY <1>1, <1>2, PTL DEF StoreSpec

-----------------------------------------------------------------------------
(* The transactions *)

(* What a statement writes is a row of its table. *)
LEMMA UpsertedTyped ==
    ASSUME StoreTypeOK, NEW e \in Events, NEW k \in Keys, k \in Touched(e)
    PROVE  Upserted(k, db[k], e) \in Rows \cup {NoRow}
<1>1. payload \in [Events -> Payloads] /\ db[k] \in Rows \cup {NoRow}
  BY DEF StoreTypeOK
<1>2. CASE \E c \in Conversations : k = ConversationKey(c)
  <2>1. PICK c \in Conversations : k = ConversationKey(c)
    BY <1>2
  <2>2. payload[e].kind = "entity" /\ db[k] \in ConversationRows \cup {NoRow}
    BY <1>1, <2>1, TouchedRows DEF StoreTypeOK
  <2>3. UpsertConversation(db[k], e) \in ConversationRows
    BY <1>1, <2>2, ConversationRowStays
  <2>4. QED
    BY <2>1, <2>3, UpsertedRows DEF Rows
<1>3. CASE \E a \in Accounts : k = AccountKey(a)
  BY <1>3, UpsertedRows DEF Rows
<1>4. CASE \E m \in Contents : k = ContentKey(m)
  BY <1>4, UpsertedRows DEF Rows
<1>5. CASE \E s \in Sources : k = LatestKey(s)
  <2>1. Upserted(k, db[k], e) = UpsertLatest(db[k], e)
    BY <1>5, UpsertedRows
  <2>2. QED
    BY <1>1, <2>1 DEF Rows, UpsertLatest
<1>6. CASE \E f \in Events : k = SnapshotKey(f)
  BY <1>6, UpsertedRows DEF Rows
<1>7. QED
  BY <1>2, <1>3, <1>4, <1>5, <1>6 DEF Keys

(* The statements of an event: there are two or three of them, and they     *)
(* upsert exactly the rows it touches.                                      *)
LEMMA StatementsOfAnEvent ==
    ASSUME payload \in [Events -> Payloads], NEW e \in Events
    PROVE  /\ Len(Statements(e)) \in Nat
           /\ \A i \in 1 .. Len(Statements(e)) : Statements(e)[i] \in Touched(e)
           /\ \A k \in Touched(e) : \E i \in 1 .. Len(Statements(e)) : k = Statements(e)[i]
<1> DEFINE p == payload[e]
           account == AccountKey(p.account)
           conversation == ConversationKey(p.conversation)
           content == ContentKey(p.content)
<1>1. CASE p.kind = "snapshot"
  <2>1. Statements(e) = <<SnapshotKey(e), LatestKey(p.source)>>
    BY <1>1 DEF Statements
  <2>2. QED
    BY <1>1, <2>1 DEF Touched
<1>2. CASE p.kind # "snapshot" /\ p.content = NoContent
  <2>1. Statements(e) = <<account, conversation>>
    BY <1>2 DEF Statements
  <2>2. QED
    BY <1>2, <2>1 DEF Touched
<1>3. CASE p.kind # "snapshot" /\ p.content # NoContent
  <2>1. Statements(e) = <<account, conversation, content>>
    BY <1>3 DEF Statements
  <2>2. QED
    BY <1>3, <2>1 DEF Touched
<1>4. QED
  BY <1>1, <1>2, <1>3

(* The inductive invariant of the transactions: a session that is at rest   *)
(* has nothing locked; one in a transaction has locked the rows of the      *)
(* statements it executed, and what it will write to them is still their    *)
(* upsert, because nobody else can have changed a row that it has locked.   *)
SessionInv(s) ==
    /\ IF event[s] = NoEvent
         THEN locks[s] = {}
         ELSE /\ step[s] \in 1 .. Len(Statements(event[s])) + 1
              /\ locks[s] = {Statements(event[s])[i] : i \in 1 .. step[s] - 1}
    /\ \A k \in locks[s] :
         k \in Keys /\ writes[s][k] = Upserted(k, db[k], event[s])

LocksAreExclusive ==
    \A s, t \in Sessions : s # t => locks[s] \cap locks[t] = {}

TransactionsInv ==
    /\ TypeOK
    /\ \A s \in Sessions : SessionInv(s)
    /\ LocksAreExclusive

(* A session that a step leaves alone keeps its invariant if the rows it    *)
(* has locked are left alone too.                                           *)
LEMMA OthersGoOn ==
    ASSUME NEW t \in Sessions, SessionInv(t), payload' = payload,
           event'[t] = event[t], step'[t] = step[t], locks'[t] = locks[t],
           writes'[t] = writes[t],
           \A k \in locks[t] : db'[k] = db[k]
    PROVE  SessionInv(t)'
<1>1. Statements(event[t])' = Statements(event[t])
  BY DEF Statements
<1>2. ASSUME NEW k \in locks[t]
      PROVE  k \in Keys /\ writes'[t][k] = Upserted(k, db[k], event[t])'
  <2>1. Upserted(k, db[k], event[t])' = Upserted(k, db[k], event[t])
    BY <1>2 DEF Upserted, UpsertConversation, UpsertLatest
  <2>2. QED
    BY <1>2, <2>1 DEF SessionInv
<1>3. IF event[t] = NoEvent
        THEN locks[t] = {}
        ELSE /\ step[t] \in 1 .. Len(Statements(event[t])') + 1
             /\ locks[t] = {Statements(event[t])'[i] : i \in 1 .. step[t] - 1}
  BY <1>1 DEF SessionInv
<1>4. QED
  BY <1>2, <1>3 DEF SessionInv

(* A transaction that ends unlocks its rows; the other sessions go on, as   *)
(* none of their rows can have changed.                                     *)
LEMMA EndingKeepsInv ==
    ASSUME TransactionsInv, NEW s \in Sessions, EndTransaction(s), StoreTypeOK',
           payload' = payload, runs' \in 0 .. MaxRuns, faults' \in 0 .. MaxFaults,
           \A k \in Keys : k \notin locks[s] => db'[k] = db[k]
    PROVE  TransactionsInv'
<1>1. TypeOK'
  BY DEF TransactionsInv, TypeOK, EndTransaction
<1>2. /\ event'[s] = NoEvent /\ locks'[s] = {}
      /\ \A t \in Sessions \ {s} :
           /\ event'[t] = event[t] /\ step'[t] = step[t]
           /\ locks'[t] = locks[t] /\ writes'[t] = writes[t]
  BY DEF EndTransaction, TransactionsInv, TypeOK
<1>3. ASSUME NEW t \in Sessions PROVE SessionInv(t)'
  <2>1. CASE t = s
    BY <1>2, <2>1 DEF SessionInv
  <2>2. CASE t # s
    <3>1. SessionInv(t) /\ \A k \in locks[t] : db'[k] = db[k]
      BY <2>2 DEF TransactionsInv, SessionInv, LocksAreExclusive
    <3>2. QED
      BY <1>2, <2>2, <3>1, OthersGoOn
  <2>3. QED
    BY <2>1, <2>2
<1>4. LocksAreExclusive'
  BY <1>2 DEF TransactionsInv, LocksAreExclusive
<1>5. QED
  BY <1>1, <1>3, <1>4 DEF TransactionsInv

LEMMA BeginKeepsInv ==
    ASSUME TransactionsInv, NEW s \in Sessions, NEW e \in Events, Begin(s, e)
    PROVE  TransactionsInv'
<1>1. TypeOK'
  BY SessionsAssumption DEF TransactionsInv, TypeOK, StoreTypeOK, Begin
<1>2. /\ event'[s] = e /\ step'[s] = 1 /\ locks'[s] = {} /\ locks' = locks
      /\ \A t \in Sessions \ {s} :
           /\ event'[t] = event[t] /\ step'[t] = step[t]
           /\ locks'[t] = locks[t] /\ writes'[t] = writes[t]
  BY DEF Begin, Active, TransactionsInv, TypeOK, SessionInv
<1>3. ASSUME NEW t \in Sessions PROVE SessionInv(t)'
  <2>1. CASE t = s
    <3>1. Len(Statements(e))' \in Nat
      BY StatementsOfAnEvent, <1>1 DEF TransactionsInv, TypeOK, StoreTypeOK, Begin, Statements
    <3>2. QED
      BY <1>2, <2>1, <3>1, SessionsAssumption DEF SessionInv
  <2>2. CASE t # s
    BY <1>2, <2>2, OthersGoOn DEF TransactionsInv, Begin
  <2>3. QED
    BY <2>1, <2>2
<1>4. LocksAreExclusive'
  BY <1>2 DEF TransactionsInv, LocksAreExclusive
<1>5. QED
  BY <1>1, <1>3, <1>4 DEF TransactionsInv

LEMMA ExecuteKeepsInv ==
    ASSUME TransactionsInv, NEW s \in Sessions, Execute(s)
    PROVE  TransactionsInv'
<1> DEFINE e == event[s]
           k == NextKey(s)
<1>1. /\ e \in Events /\ payload \in [Events -> Payloads] /\ StoreTypeOK
      /\ step[s] \in 1 .. Len(Statements(e))
      /\ Len(Statements(e)) \in Nat
  BY StatementsOfAnEvent
     DEF Execute, HasStatement, Active, TransactionsInv, TypeOK, StoreTypeOK, SessionInv
<1>2. k \in Keys /\ k = Statements(e)[step[s]] /\ k \in Touched(e)
  BY <1>1, StatementsOfAnEvent, TouchedRows DEF NextKey
<1>3. Upserted(k, db[k], e) \in Rows \cup {NoRow}
  BY <1>1, <1>2, UpsertedTyped
<1>4. /\ step'[s] = step[s] + 1 /\ locks'[s] = locks[s] \cup {k}
      /\ event' = event /\ db' = db /\ payload' = payload
      /\ writes'[s][k] = Upserted(k, db[k], e)
      /\ \A j \in Keys \ {k} : writes'[s][j] = writes[s][j]
      /\ \A t \in Sessions \ {s} :
           step'[t] = step[t] /\ locks'[t] = locks[t] /\ writes'[t] = writes[t]
  BY <1>2 DEF Execute, TransactionsInv, TypeOK
<1>5. TypeOK'
  <2>1. StoreTypeOK'
    BY DEF Execute, TransactionsInv, TypeOK, StoreTypeOK
  <2>2. step' \in [Sessions -> Nat] /\ locks' \in [Sessions -> SUBSET Keys]
    BY <1>2 DEF Execute, TransactionsInv, TypeOK
  <2>3. writes' \in [Sessions -> [Keys -> Rows \cup {NoRow}]]
    BY <1>2, <1>3 DEF Execute, TransactionsInv, TypeOK
  <2>4. QED
    BY <2>1, <2>2, <2>3 DEF Execute, TransactionsInv, TypeOK
<1>6. ASSUME NEW t \in Sessions PROVE SessionInv(t)'
  <2>1. CASE t = s
    <3>1. Statements(e)' = Statements(e)
      BY <1>4 DEF Statements
    <3>2. /\ step'[s] \in 1 .. Len(Statements(e)) + 1
          /\ locks'[s] = {Statements(e)[i] : i \in 1 .. step'[s] - 1}
      <4>1. locks[s] = {Statements(e)[i] : i \in 1 .. step[s] - 1}
        BY <1>1, SessionsAssumption DEF TransactionsInv, SessionInv
      <4>2. 1 .. step'[s] - 1 = (1 .. step[s] - 1) \cup {step[s]}
        BY <1>1, <1>4
      <4>3. QED
        BY <4>1, <4>2, <1>1, <1>2, <1>4
    <3>3. ASSUME NEW j \in locks'[s]
          PROVE  j \in Keys /\ writes'[s][j] = Upserted(j, db[j], e)'
      <4>1. Upserted(j, db[j], e)' = Upserted(j, db[j], e)
        BY <1>4 DEF Upserted, UpsertConversation, UpsertLatest
      <4>2. CASE j = k
        BY <4>1, <4>2, <1>2, <1>4
      <4>3. CASE j # k
        BY <4>1, <4>3, <1>4 DEF TransactionsInv, SessionInv
      <4>4. QED
        BY <4>2, <4>3
    <3>4. QED
      BY <1>1, <1>4, <2>1, <3>1, <3>2, <3>3, SessionsAssumption DEF SessionInv
  <2>2. CASE t # s
    BY <1>4, <2>2, OthersGoOn DEF TransactionsInv
  <2>3. QED
    BY <2>1, <2>2
<1>7. LocksAreExclusive'
  <2>1. \A t \in Sessions \ {s} : k \notin locks[t]
    BY DEF Execute, Free
  <2>2. QED
    BY <2>1, <1>4 DEF TransactionsInv, LocksAreExclusive
<1>8. QED
  BY <1>5, <1>6, <1>7 DEF TransactionsInv

(* A commit is what Persist does in one step. *)
LEMMA CommitPersists ==
    ASSUME TransactionsInv, NEW s \in Sessions, Commit(s)
    PROVE  event[s] \in Events /\ Persist(event[s])
<1> DEFINE e == event[s]
<1>1. e \in Events /\ payload \in [Events -> Payloads]
  BY DEF Commit, Active, TransactionsInv, TypeOK, StoreTypeOK
<1>2. locks[s] = Touched(e)
  <2>1. Len(Statements(e)) \in Nat
    BY <1>1, StatementsOfAnEvent
  <2>2. /\ step[s] = Len(Statements(e)) + 1
        /\ locks[s] = {Statements(e)[i] : i \in 1 .. step[s] - 1}
    BY <1>1, <2>1, SessionsAssumption DEF Commit, TransactionsInv, SessionInv
  <2>3. locks[s] = {Statements(e)[i] : i \in 1 .. Len(Statements(e))}
    BY <2>1, <2>2
  <2>4. QED
    BY <1>1, <2>3, StatementsOfAnEvent
<1>3. \A k \in Keys : (IF k \in locks[s] THEN writes[s][k] ELSE db[k])
                        = (IF k \in Touched(e) THEN Upserted(k, db[k], e) ELSE db[k])
  BY <1>2 DEF TransactionsInv, SessionInv
<1>4. db' = [k \in Keys |-> IF k \in Touched(e) THEN Upserted(k, db[k], e) ELSE db[k]]
  BY <1>3 DEF Commit
<1>5. QED
  BY <1>1, <1>4 DEF Commit, Persist

LEMMA CommitKeepsInv ==
    ASSUME TransactionsInv, NEW s \in Sessions, Commit(s)
    PROVE  TransactionsInv'
<1>1. StoreTypeOK'
  BY CommitPersists, PersistTyped DEF TransactionsInv, TypeOK
<1>2. \A k \in Keys : k \notin locks[s] => db'[k] = db[k]
  BY DEF Commit
<1>3. QED
  BY <1>1, <1>2, EndingKeepsInv DEF Commit, TransactionsInv, TypeOK

LEMMA RejectKeepsInv ==
    ASSUME TransactionsInv, NEW s \in Sessions, Reject(s)
    PROVE  TransactionsInv'
  BY EndingKeepsInv DEF Reject, TransactionsInv, TypeOK, StoreTypeOK

LEMMA RollbackKeepsInv ==
    ASSUME TransactionsInv, NEW s \in Sessions, Rollback(s)
    PROVE  TransactionsInv'
  BY EndingKeepsInv, SessionsAssumption DEF Rollback, TransactionsInv, TypeOK, StoreTypeOK

(* A transaction holds each row it has locked alone, and what it will write *)
(* to it is the upsert of the row as it is committed now.                   *)
THEOREM TransactionsKeepTheirRows == Spec => []TransactionsInv
<1>1. Init => TransactionsInv
  <2> SUFFICES ASSUME Init PROVE TransactionsInv
    OBVIOUS
  <2>1. StoreTypeOK
    BY DEF Init, StoreInit, StoreTypeOK, Keys
  <2>2. TypeOK
    BY <2>1, SessionsAssumption DEF Init, TypeOK
  <2>3. QED
    BY <2>2 DEF Init, TransactionsInv, SessionInv, LocksAreExclusive
<1>2. TransactionsInv /\ [Next]_vars => TransactionsInv'
  <2> SUFFICES ASSUME TransactionsInv, [Next]_vars PROVE TransactionsInv'
    OBVIOUS
  <2>1. CASE UNCHANGED vars
    <3>1. TypeOK'
      BY <2>1 DEF vars, TransactionsInv, TypeOK, StoreTypeOK
    <3>2. \A s \in Sessions : SessionInv(s)'
      BY <2>1, OthersGoOn DEF vars, TransactionsInv
    <3>3. QED
      BY <2>1, <3>1, <3>2 DEF vars, TransactionsInv, LocksAreExclusive
  <2>2. CASE Next
    BY <2>2, BeginKeepsInv, ExecuteKeepsInv, RejectKeepsInv, CommitKeepsInv,
       RollbackKeepsInv DEF Next
  <2>3. QED
    BY <2>1, <2>2
<1>3. QED
  BY <1>1, <1>2, PTL DEF Spec

(* The transactions are serializable: with any number of sessions, events   *)
(* and rows, and with transactions that fail anywhere, every step of them   *)
(* is either the whole of an event or nothing to the committed tables.      *)
THEOREM TransactionsAreSerializable == Spec => Serializable
<1>1. Init => StoreInit
  BY DEF Init
<1>2. TransactionsInv /\ [Next]_vars => [StoreNext]_storeVars
  <2> SUFFICES ASSUME TransactionsInv, [Next]_vars PROVE [StoreNext]_storeVars
    OBVIOUS
  <2>1. ASSUME NEW s \in Sessions, Commit(s) PROVE StoreNext
    BY <2>1, CommitPersists DEF StoreNext
  <2>2. CASE UNCHANGED vars
    BY <2>2 DEF vars, storeVars
  <2>3. CASE Next
    BY <2>1, <2>3 DEF Next, Begin, Execute, Reject, Rollback, storeVars
  <2>4. QED
    BY <2>2, <2>3
<1>3. QED
  BY <1>1, <1>2, TransactionsKeepTheirRows, PTL DEF Spec, Serializable, StoreSpec

(* The variables keep their types. *)
THEOREM TypeCorrect == Spec => []TypeOK
<1>1. TransactionsInv => TypeOK
  BY DEF TransactionsInv
<1>2. QED
  BY <1>1, TransactionsKeepTheirRows, PTL

(* A conversation spans exactly what its committed events span. *)
THEOREM SpanIsKept == Spec => []ConversationSpansItsEvents
<1>1. TablesFollowTheEvents => ConversationSpansItsEvents
  BY DEF TablesFollowTheEvents
<1>2. QED
  BY <1>1, TransactionsAreSerializable, StoreFollowsTheEvents, PTL DEF Serializable

(* The status of a conversation came with its end. *)
THEOREM StatusIsKept == Spec => []StatusCameWithTheEnd
<1>1. TablesFollowTheEvents => StatusCameWithTheEnd
  BY DEF TablesFollowTheEvents
<1>2. QED
  BY <1>1, TransactionsAreSerializable, StoreFollowsTheEvents, PTL DEF Serializable

(* No message and no attempt is older than its conversation. *)
THEOREM ContentsAreInTheSpan == Spec => []ContentsFollowTheStart
<1>1. TablesFollowTheEvents => ContentsFollowTheStart
  BY DEF TablesFollowTheEvents
<1>2. QED
  BY <1>1, TransactionsAreSerializable, StoreFollowsTheEvents, PTL DEF Serializable

(* infra_status_latest refers to the snapshot captured last. *)
THEOREM LatestIsKept == Spec => []LatestIsNewest
<1>1. TablesFollowTheEvents => LatestIsNewest
  BY DEF TablesFollowTheEvents
<1>2. QED
  BY <1>1, TransactionsAreSerializable, StoreFollowsTheEvents, PTL DEF Serializable

(* Every event locks its rows in the same order: a row is that of the same  *)
(* statement, counted from 1, for all events that touch it.                 *)
LEMMA SameOrder ==
    ASSUME payload \in [Events -> Payloads], NEW e \in Events, NEW f \in Events,
           NEW i \in 1 .. Len(Statements(e)), NEW j \in 1 .. Len(Statements(f)),
           Statements(e)[i] = Statements(f)[j]
    PROVE  i = j
<1> DEFINE Tag(g, n) == IF payload[g].kind = "snapshot"
                          THEN IF n = 1 THEN "snapshot" ELSE "latest"
                          ELSE IF n = 1 THEN "account"
                               ELSE IF n = 2 THEN "conversation" ELSE "content"
<1>1. ASSUME NEW g \in Events, NEW n \in 1 .. Len(Statements(g))
      PROVE  /\ n \in 1 .. 3 /\ Statements(g)[n][1] = Tag(g, n)
             /\ payload[g].kind = "snapshot" => n \in 1 .. 2
  <2>1. CASE payload[g].kind = "snapshot"
    BY <1>1, <2>1 DEF Statements, SnapshotKey, LatestKey
  <2>2. CASE payload[g].kind # "snapshot" /\ payload[g].content = NoContent
    BY <1>1, <2>2 DEF Statements, AccountKey, ConversationKey
  <2>3. CASE payload[g].kind # "snapshot" /\ payload[g].content # NoContent
    BY <1>1, <2>3 DEF Statements, AccountKey, ConversationKey, ContentKey
  <2>4. QED
    BY <2>1, <2>2, <2>3
<1>2. Tag(e, i) = Tag(f, j)
  BY <1>1
<1>3. QED
  BY <1>1, <1>2

(* A session waits only for one that has come further than itself. *)
LEMMA WaitsForAFurtherOne ==
    ASSUME TransactionsInv, NEW s \in Sessions, Active(s), HasStatement(s),
           ~Free(s, NextKey(s))
    PROVE  \E t \in Sessions : Active(t) /\ step[s] < step[t]
<1> DEFINE k == NextKey(s)
<1>1. PICK t \in Sessions \ {s} : k \in locks[t]
  BY DEF Free
<1>2. payload \in [Events -> Payloads] /\ event[s] \in Events
      /\ Active(t) /\ event[t] \in Events
  BY <1>1 DEF TransactionsInv, TypeOK, StoreTypeOK, Active, SessionInv
<1>3. /\ Len(Statements(event[s])) \in Nat /\ Len(Statements(event[t])) \in Nat
      /\ step[s] \in 1 .. Len(Statements(event[s]))
      /\ step[t] \in 1 .. Len(Statements(event[t])) + 1
      /\ locks[t] = {Statements(event[t])[i] : i \in 1 .. step[t] - 1}
  BY <1>2, StatementsOfAnEvent DEF TransactionsInv, SessionInv, HasStatement, Active
<1>4. PICK i \in 1 .. step[t] - 1 : Statements(event[t])[i] = k
  BY <1>1, <1>3
<1>5. i = step[s]
  BY <1>2, <1>3, <1>4, SameOrder DEF NextKey
<1>6. QED
  BY <1>2, <1>3, <1>4, <1>5

(* The transactions never all wait for each other: of those that have come  *)
(* furthest, none waits.                                                    *)
THEOREM NoDeadlock == Spec => []SomeTransactionGoesOn
<1>1. TransactionsInv => SomeTransactionGoesOn
  <2> SUFFICES ASSUME TransactionsInv, NEW s \in Sessions, Active(s),
                      \A t \in Sessions :
                        Active(t) => HasStatement(t) /\ ~Free(t, NextKey(t))
               PROVE  FALSE
    BY DEF SomeTransactionGoesOn
  <2>1. \A t \in Sessions : Active(t) => step[t] \in 1 .. 3
    <3> SUFFICES ASSUME NEW t \in Sessions, Active(t) PROVE step[t] \in 1 .. 3
      OBVIOUS
    <3>1. event[t] \in Events /\ Len(Statements(event[t])) \in 0 .. 3
      BY DEF TransactionsInv, TypeOK, Active, Statements
    <3>2. step[t] \in 1 .. Len(Statements(event[t])) + 1
      BY DEF TransactionsInv, SessionInv, Active
    <3>3. step[t] <= Len(Statements(event[t]))
      BY DEF HasStatement
    <3>4. ASSUME NEW n \in 0 .. 3, NEW i \in 1 .. n + 1, i <= n
          PROVE  i \in 1 .. 3
      BY <3>4
    <3>5. QED
      BY <3>1, <3>2, <3>3, <3>4
  <2>2. \A t \in Sessions : Active(t) =>
          \E u \in Sessions : Active(u) /\ step[t] < step[u]
    BY WaitsForAFurtherOne
  <2>3. \A t \in Sessions : Active(t) => step[t] # 3
    BY <2>1, <2>2
  <2>4. \A t \in Sessions : Active(t) => step[t] # 2
    BY <2>1, <2>2, <2>3
  <2>5. \A t \in Sessions : Active(t) => step[t] # 1
    BY <2>1, <2>2, <2>3, <2>4
  <2>6. QED
    BY <2>1, <2>3, <2>4, <2>5
<1>2. QED
  BY <1>1, TransactionsKeepTheirRows, PTL
=============================================================================
