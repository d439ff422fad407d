----------------------------- MODULE AccessProofs -----------------------------
(***************************************************************************)
(* Theorems about JwksCache, for every set of callers and keys and every   *)
(* lifetime of the map, timeout of a fetch and bound on the clock; and     *)
(* about AccessControl, for every set of callers, tokens, keys,            *)
(* configurations and requests, with crashes and restarts.  What JwksCache *)
(* promises holds in the process that uses it, whose end empties the map.  *)
(***************************************************************************)
EXTENDS AccessControl, TLAPS

(* A map and what is published differ only where the key of either has been *)
(* published or withdrawn since a time.                                     *)
Accurate(public, changed, map, time) ==
  \A kid \in Kids :
    public[kid] # map[kid] =>
      \A key \in {public[kid], map[kid]} \ {NoKey} : changed[kid][key] >= time

(* The inductive invariant: the map is accurate as of the start of the fetch *)
(* that filled it, and an answer on its way as of the start of its own.      *)
CacheInv ==
  /\ CacheTypeOK
  /\ loadedAt =< now
  /\ Accurate(published, changedAt, keys, loadedAt - FetchTime)
  /\ \A c \in Callers :
       /\ lookup[c].since =< now
       /\ lookup[c].pc = "answered" =>
            Accurate(published, changedAt, lookup[c].answer, lookup[c].since)

-----------------------------------------------------------------------------
(* Nothing is loaded and nobody fetches. *)
LEMMA CacheInvInit == CacheInit => CacheInv
  <1> SUFFICES ASSUME CacheInit PROVE CacheInv
    OBVIOUS
  <1>1. (CHOOSE kid \in Kids : TRUE) \in Kids
    BY KidsAssumption
  <1>2. CacheTypeOK
    BY <1>1, TimeAssumption, NoKeyAssumption
       DEF CacheInit, CacheTypeOK, Times, KeyMaps, NoKeys, NoLookup, Lookups
  <1>3. Accurate(published, changedAt, keys, loadedAt - FetchTime)
    <2> SUFFICES ASSUME NEW kid \in Kids,
                        NEW key \in {published[kid], keys[kid]} \ {NoKey}
                 PROVE  changedAt[kid][key] >= loadedAt - FetchTime
      BY DEF Accurate
    <2>1. key \in Keys
      BY DEF CacheInit, KeyMaps, NoKeys
    <2>2. changedAt[kid][key] = 0
      BY <2>1 DEF CacheInit
    <2> QED BY <2>2, TimeAssumption DEF CacheInit, Never
  <1>4. loadedAt =< now /\ \A c \in Callers : lookup[c].since =< now /\ lookup[c].pc = "idle"
    BY TimeAssumption DEF CacheInit, Never, NoLookup
  <1> QED BY <1>2, <1>3, <1>4 DEF CacheInv

(* What the provider does keeps every map accurate. *)
LEMMA RotateKeepsAccurate ==
  ASSUME CacheTypeOK, NEW id \in Kids, NEW new \in Keys \cup {NoKey}, Rotate(id, new),
         NEW map \in KeyMaps, NEW time \in Int, time =< now,
         Accurate(published, changedAt, map, time)
  PROVE  Accurate(published', changedAt', map, time)
  <1> SUFFICES ASSUME NEW kid \in Kids, published'[kid] # map[kid],
                      NEW key \in {published'[kid], map[kid]} \ {NoKey}
               PROVE  changedAt'[kid][key] >= time
    BY DEF Accurate
  <1>1. key \in Keys /\ now \in Int
    <2>1. published' \in KeyMaps
      BY DEF CacheTypeOK, KeyMaps, Rotate
    <2> QED BY <2>1 DEF CacheTypeOK, KeyMaps, Times
  <1>2. CASE kid # id
    <2>1. published'[kid] = published[kid] /\ changedAt'[kid] = changedAt[kid]
      BY <1>2 DEF Rotate, CacheTypeOK, KeyMaps
    <2> QED BY <2>1 DEF Accurate
  <1>3. CASE kid = id
    <2>1. published'[kid] = new
      BY <1>3 DEF Rotate, CacheTypeOK, KeyMaps
    <2>2. changedAt'[kid] =
            [x \in Keys |-> IF x \in {new, published[id]} THEN now ELSE changedAt[id][x]]
      BY <1>3 DEF Rotate, CacheTypeOK
    <2>3. CASE key \in {new, published[id]}
      BY <1>1, <2>2, <2>3
    <2>4. CASE key \notin {new, published[id]}
      <3>1. key = map[kid] /\ published[kid] # map[kid]
        BY <2>1, <2>4, <1>3
      <3>2. changedAt[kid][key] >= time
        BY <3>1 DEF Accurate
      <3> QED BY <3>2, <2>2, <2>4, <1>1, <1>3
    <2> QED BY <2>3, <2>4
  <1> QED BY <1>2, <1>3

(* A map that is accurate as of some time is accurate as of any earlier one. *)
LEMMA AccurateEarlier ==
  ASSUME CacheTypeOK, NEW map \in KeyMaps, NEW time \in Int, NEW earlier \in Int,
         earlier =< time, Accurate(published, changedAt, map, time)
  PROVE  Accurate(published, changedAt, map, earlier)
  <1> SUFFICES ASSUME NEW kid \in Kids, published[kid] # map[kid],
                      NEW key \in {published[kid], map[kid]} \ {NoKey}
               PROVE  changedAt[kid][key] >= earlier
    BY DEF Accurate
  <1>1. key \in Keys
    BY DEF CacheTypeOK, KeyMaps
  <1>2. changedAt[kid][key] \in Int
    BY <1>1 DEF CacheTypeOK, Times
  <1> QED BY <1>2 DEF Accurate

(* Each step of a caller, of the provider and of the clock keeps the types. *)
LEMMA CacheTypeStep == CacheTypeOK /\ [CacheNext]_cacheVars => CacheTypeOK'
  <1> SUFFICES ASSUME CacheTypeOK, [CacheNext]_cacheVars PROVE CacheTypeOK'
    OBVIOUS
  <1> USE TimeAssumption DEF CacheTypeOK
  <1>0. NoKeys \in KeyMaps /\ 0 \in Times
    BY DEF NoKeys, KeyMaps, Times
  <1>1. ASSUME NEW c \in Callers, NEW kid \in Kids, Ask(c, kid) PROVE CacheTypeOK'
    BY <1>1 DEF Ask, Lookups
  <1>2. ASSUME NEW c \in Callers, LookupStep(c) PROVE CacheTypeOK'
    <2>1. CASE AnswerFromCache(c)
      <3>1. keys[lookup[c].kid] \in Keys \cup {NoKey}
        BY DEF Lookups, KeyMaps
      <3> QED BY <2>1, <3>1 DEF AnswerFromCache, Lookups
    <2>2. CASE StartFetch(c)
      BY <2>2 DEF StartFetch, Lookups
    <2>3. CASE ProviderAnswers(c)
      BY <2>3 DEF ProviderAnswers, Lookups
    <2>4. CASE EndFetch(c)
      <3>1. lookup[c].answer \in KeyMaps /\ lookup[c].kid \in Kids
        BY DEF Lookups
      <3>2. lookup[c].answer[lookup[c].kid] \in Keys \cup {NoKey}
        BY <3>1 DEF KeyMaps
      <3>3. [lookup[c] EXCEPT !.pc = "found", !.since = 0, !.answer = NoKeys,
               !.key = lookup[c].answer[lookup[c].kid]] \in Lookups
        BY <3>1, <3>2, <1>0 DEF Lookups
      <3> QED BY <2>4, <3>1, <3>3, <1>0 DEF EndFetch
    <2>5. CASE FetchFails(c)
      <3>1. [lookup[c] EXCEPT !.pc = "failed", !.since = 0, !.answer = NoKeys] \in Lookups
        BY <1>0 DEF Lookups
      <3> QED BY <2>5, <3>1 DEF FetchFails
    <2> QED BY <1>2, <2>1, <2>2, <2>3, <2>4, <2>5 DEF LookupStep
  <1>3. ASSUME NEW c \in Callers, TakeKey(c) PROVE CacheTypeOK'
    BY <1>3 DEF TakeKey, Lookups
  <1>4. ASSUME NEW kid \in Kids, NEW key \in Keys \cup {NoKey}, Rotate(kid, key)
        PROVE  CacheTypeOK'
    BY <1>4 DEF Rotate, KeyMaps, Times
  <1>5. CASE Tick
    BY <1>5 DEF Tick, Times
  <1>6. CASE UNCHANGED cacheVars
    BY <1>6 DEF cacheVars
  <1> QED BY <1>1, <1>2, <1>3, <1>4, <1>5, <1>6 DEF CacheNext

(* Every step keeps the invariant. *)
LEMMA CacheInvStep == CacheInv /\ [CacheNext]_cacheVars => CacheInv'
  <1> SUFFICES ASSUME CacheInv, [CacheNext]_cacheVars PROVE CacheInv'
    OBVIOUS
  <1> USE TimeAssumption
  <1>1. CacheTypeOK /\ CacheTypeOK'
    BY CacheTypeStep DEF CacheInv
  <1>2. /\ now \in Int /\ loadedAt \in Int /\ keys \in KeyMaps
        /\ \A c \in Callers : lookup[c].since \in Int /\ lookup[c].answer \in KeyMaps
    BY <1>1 DEF CacheTypeOK, Times, Never, Lookups
  <1>3. ASSUME NEW c \in Callers, NEW kid \in Kids, Ask(c, kid) PROVE CacheInv'
    BY <1>1, <1>3 DEF Ask, CacheInv, CacheTypeOK, Lookups
  <1>4. ASSUME NEW c \in Callers, LookupStep(c) PROVE CacheInv'
    <2>1. CASE AnswerFromCache(c)
      BY <1>1, <2>1 DEF AnswerFromCache, CacheInv, CacheTypeOK, Lookups
    <2>2. CASE StartFetch(c)
      BY <1>1, <1>2, <2>2 DEF StartFetch, CacheInv, CacheTypeOK, Lookups
    <2>3. CASE ProviderAnswers(c)
      <3>1. Accurate(published, changedAt, published, lookup[c].since)
        BY DEF Accurate
      <3> QED BY <1>1, <2>3, <3>1 DEF ProviderAnswers, CacheInv, CacheTypeOK, Lookups
    <2>4. CASE EndFetch(c)
      <3>1. Accurate(published, changedAt, lookup[c].answer, now - FetchTime)
        <4>1. now - FetchTime \in Int /\ now - FetchTime =< lookup[c].since
          BY <1>2, <2>4 DEF EndFetch
        <4>2. Accurate(published, changedAt, lookup[c].answer, lookup[c].since)
          BY <2>4 DEF EndFetch, CacheInv
        <4> QED BY <1>1, <1>2, <4>1, <4>2, AccurateEarlier
      <3>2. /\ now' = now /\ published' = published /\ changedAt' = changedAt
            /\ keys' = lookup[c].answer /\ loadedAt' = now
        BY <2>4 DEF EndFetch
      <3>3. \A d \in Callers : /\ d # c => lookup'[d] = lookup[d]
                               /\ d = c => lookup'[d].since = 0 /\ lookup'[d].pc = "found"
        BY <1>1, <2>4 DEF EndFetch, CacheTypeOK, Lookups
      <3>4. now >= 0
        BY <1>1 DEF CacheTypeOK, Times
      <3> QED BY <1>1, <1>2, <3>1, <3>2, <3>3, <3>4 DEF CacheInv
    <2>5. CASE FetchFails(c)
      <3>1. now >= 0
        BY <1>1 DEF CacheTypeOK, Times
      <3> QED BY <1>1, <1>2, <2>5, <3>1 DEF FetchFails, CacheInv, CacheTypeOK, Lookups
    <2> QED BY <1>4, <2>1, <2>2, <2>3, <2>4, <2>5 DEF LookupStep
  <1>5. ASSUME NEW c \in Callers, TakeKey(c) PROVE CacheInv'
    BY <1>1, <1>5 DEF TakeKey, CacheInv, CacheTypeOK, Lookups
  <1>6. ASSUME NEW kid \in Kids, NEW key \in Keys \cup {NoKey}, Rotate(kid, key)
        PROVE  CacheInv'
    <2>1. Accurate(published', changedAt', keys, loadedAt - FetchTime)
      <3>1. loadedAt - FetchTime \in Int /\ loadedAt - FetchTime =< now
        BY <1>2 DEF CacheInv
      <3> QED BY <1>1, <1>2, <1>6, <3>1, RotateKeepsAccurate DEF CacheInv
    <2>2. ASSUME NEW c \in Callers, lookup[c].pc = "answered"
          PROVE  Accurate(published', changedAt', lookup[c].answer, lookup[c].since)
      BY <1>1, <1>2, <1>6, <2>2, RotateKeepsAccurate DEF CacheInv
    <2>3. now' = now /\ keys' = keys /\ loadedAt' = loadedAt /\ lookup' = lookup
      BY <1>6 DEF Rotate
    <2> QED BY <1>1, <2>1, <2>2, <2>3 DEF CacheInv
  <1>7. CASE Tick
    BY <1>1, <1>2, <1>7 DEF Tick, CacheInv
  <1>8. CASE UNCHANGED cacheVars
    BY <1>1, <1>8 DEF cacheVars, CacheInv
  <1> QED BY <1>3, <1>4, <1>5, <1>6, <1>7, <1>8 DEF CacheNext

-----------------------------------------------------------------------------
(* The map never holds a key that was not published while it was fetched. *)
LEMMA CacheInvGivesPublished == CacheInv => CacheWasPublished
  BY DEF CacheInv, CacheWasPublished, Accurate

(* A lookup ends with a key in two ways: from a fresh map, or from an answer *)
(* that came in time.  Either is accurate as of Lag ago.                     *)
LEMMA FoundIsAccurate ==
  ASSUME CacheInv, [CacheNext]_cacheVars, NEW c \in Callers,
         lookup'[c].pc = "found", lookup[c].pc # "found"
  PROVE  /\ lookup[c].kid \in Kids
         /\ \E map \in KeyMaps : /\ lookup'[c].key = map[lookup[c].kid]
                                 /\ Accurate(published, changedAt, map, now - Lag)
  <1> USE TimeAssumption
  <1>1. CacheTypeOK
    BY DEF CacheInv
  <1>2. /\ now \in Int /\ loadedAt \in Int /\ keys \in KeyMaps /\ Lag \in Int
        /\ lookup[c].since \in Int /\ lookup[c].answer \in KeyMaps /\ lookup[c].kid \in Kids
    BY <1>1 DEF CacheTypeOK, Times, Never, Lookups, Lag
  <1>3. AnswerFromCache(c) \/ EndFetch(c)
    <2>1. ASSUME NEW d \in Callers, LookupStep(d) PROVE AnswerFromCache(c) \/ EndFetch(c)
      <3>1. d = c
        BY <1>1, <2>1 DEF LookupStep, AnswerFromCache, StartFetch, ProviderAnswers,
           EndFetch, FetchFails, CacheTypeOK
      <3>2. ~StartFetch(d)
        BY <1>1, <3>1 DEF StartFetch, CacheTypeOK, Lookups
      <3>3. ~ProviderAnswers(d)
        BY <1>1, <3>1 DEF ProviderAnswers, CacheTypeOK, Lookups
      <3>4. ~FetchFails(d)
        BY <1>1, <3>1 DEF FetchFails, CacheTypeOK, Lookups
      <3> QED BY <2>1, <3>1, <3>2, <3>3, <3>4 DEF LookupStep
    <2>2. ASSUME NEW d \in Callers, TakeKey(d) \/ \E kid \in Kids : Ask(d, kid) PROVE FALSE
      BY <1>1, <2>2 DEF TakeKey, Ask, CacheTypeOK, Lookups
    <2>3. lookup' # lookup
      OBVIOUS
    <2>4. ~(UNCHANGED cacheVars) /\ ~Tick
          /\ \A kid \in Kids, key \in Keys \cup {NoKey} : ~Rotate(kid, key)
      BY <2>3 DEF cacheVars, Tick, Rotate
    <2> QED BY <2>1, <2>2, <2>4 DEF CacheNext
  <1>4. CASE AnswerFromCache(c)
    <2>1. lookup'[c].key = keys[lookup[c].kid]
      BY <1>1, <1>4 DEF AnswerFromCache, CacheTypeOK, Lookups
    <2>2. now - Lag \in Int /\ now - Lag =< loadedAt - FetchTime /\ loadedAt - FetchTime \in Int
      BY <1>2, <1>4 DEF AnswerFromCache, Fresh, Lag
    <2>3. Accurate(published, changedAt, keys, now - Lag)
      BY <1>1, <1>2, <2>2, AccurateEarlier DEF CacheInv
    <2> QED BY <1>2, <2>1, <2>3
  <1>5. CASE EndFetch(c)
    <2>1. lookup'[c].key = lookup[c].answer[lookup[c].kid]
      BY <1>1, <1>5 DEF EndFetch, CacheTypeOK, Lookups
    <2>2. now - Lag \in Int /\ now - Lag =< lookup[c].since
      BY <1>2, <1>5 DEF EndFetch, Lag
    <2>3. Accurate(published, changedAt, lookup[c].answer, now - Lag)
      <3>1. Accurate(published, changedAt, lookup[c].answer, lookup[c].since)
        BY <1>5 DEF EndFetch, CacheInv
      <3> QED BY <1>1, <1>2, <2>2, <3>1, AccurateEarlier
    <2> QED BY <1>2, <2>1, <2>3
  <1> QED BY <1>2, <1>3, <1>4, <1>5

(* No step answers a lookup with a key that was withdrawn or replaced before *)
(* the last Lag, or misses one that was published before.                    *)
LEMMA FoundKeyIsRight ==
  ASSUME CacheInv, [CacheNext]_cacheVars, NEW c \in Callers,
         lookup'[c].pc = "found", lookup[c].pc # "found"
  PROVE  /\ lookup'[c].key # NoKey => PublishedLately(lookup[c].kid, lookup'[c].key)
         /\ /\ published[lookup[c].kid] # NoKey
            /\ ~ChangedLately(lookup[c].kid, published[lookup[c].kid])
            => lookup'[c].key = published[lookup[c].kid]
  <1>1. PICK map \in KeyMaps : /\ lookup'[c].key = map[lookup[c].kid]
                               /\ Accurate(published, changedAt, map, now - Lag)
    BY FoundIsAccurate
  <1>2. lookup[c].kid \in Kids
    BY FoundIsAccurate
  <1> QED BY <1>1, <1>2 DEF Accurate, PublishedLately, ChangedLately

(* The variables of the key cache keep their types. *)
THEOREM CacheTypeCorrect == CacheSpec => []CacheTypeOK
  <1>1. CacheInit => CacheTypeOK
    BY CacheInvInit DEF CacheInv
  <1> QED BY <1>1, CacheTypeStep, PTL DEF CacheSpec

(* Whatever fetches overlap, fail or are late, the map stays accurate as of  *)
(* the start of the fetch that filled it (lookupKey, refreshKeysLocked).     *)
THEOREM CacheIsAccurate == CacheSpec => []CacheInv
  BY CacheInvInit, CacheInvStep, PTL DEF CacheSpec

(* What the map holds was published when it was fetched. *)
THEOREM OnlyPublishedKeys == CacheSpec => []CacheWasPublished
  BY CacheIsAccurate, CacheInvGivesPublished, PTL

(* A withdrawn key is refused after Lag, with any number of callers. *)
THEOREM WithdrawnKeysAreRefused == CacheSpec => WithdrawnKeyIsRefused
  <1>1. CacheInv /\ [CacheNext]_cacheVars =>
          [\A c \in Callers :
             lookup'[c].pc = "found" /\ lookup[c].pc # "found" /\ lookup'[c].key # NoKey
               => PublishedLately(lookup[c].kid, lookup'[c].key)]_cacheVars
    BY FoundKeyIsRight
  <1> QED BY <1>1, CacheIsAccurate, PTL DEF CacheSpec, WithdrawnKeyIsRefused

(* A published key is found after Lag, with any number of callers. *)
THEOREM PublishedKeysAreFound == CacheSpec => PublishedKeyIsFound
  <1>1. CacheInv /\ [CacheNext]_cacheVars =>
          [\A c \in Callers :
                 /\ lookup'[c].pc = "found" /\ lookup[c].pc # "found"
                 /\ published[lookup[c].kid] # NoKey
                 /\ ~ChangedLately(lookup[c].kid, published[lookup[c].kid])
              => lookup'[c].key = published[lookup[c].kid]]_cacheVars
    BY FoundKeyIsRight
  <1> QED BY <1>1, CacheIsAccurate, PTL DEF CacheSpec, PublishedKeyIsFound

-----------------------------------------------------------------------------
(* What LoadFromEnv has checked of the tokens holds for as long as they are *)
(* used.                                                                    *)
ConfigOK ==
  /\ config \in Configs
  /\ config.ingest # config.admin
  /\ config.emergency => config.emergencyToken # config.ingest

(* A request is only at a stage that its token leads to. *)
RequestOK(r) ==
  /\ r \in Requests
  /\ r.pc = "lookup" => TakenForJWT(r)
  /\ r.pc = "emergency" => MeansBreakGlass(r)
  /\ r.principal = "break-glass" => r.audited
  /\ r.pc = "serve" /\ r.route # "health" => (r.token = config.ingest <=> r.route = "ingest")

(* The inductive invariant. *)
AccessInv ==
  /\ CacheInv
  /\ ConfigOK
  /\ server \in {"up", "down"}
  /\ req \in [Callers -> Requests]
  /\ owed \in 0 .. MaxOwed
  /\ \A c \in Callers : RequestOK(req[c])
  /\ \A c \in Callers : req[c].pc = "lookup" <=> lookup[c].pc # "idle"

-----------------------------------------------------------------------------
(* A connection at rest is in order. *)
LEMMA NoRequestOK == RequestOK(NoRequest) /\ NoRequest \in Requests
  BY DEF RequestOK, NoRequest, Requests, Routes, Principals

(* The process starts with an accepted configuration and nothing to do. *)
LEMMA AccessInvInit == AccessInit => AccessInv
  <1> SUFFICES ASSUME AccessInit PROVE AccessInv
    OBVIOUS
  <1>1. CacheInv
    BY CacheInvInit DEF AccessInit
  <1>2. ConfigOK
    BY DEF AccessInit, Accepted, ConfigOK
  <1>3. \A c \in Callers : req[c] = NoRequest
    BY DEF AccessInit
  <1>4. \A c \in Callers : lookup[c].pc = "idle"
    BY DEF AccessInit, CacheInit, NoLookup
  <1>5. \A c \in Callers : req[c].pc # "lookup"
    <2>1. NoRequest.pc # "lookup"
      BY DEF NoRequest
    <2> QED BY <1>3, <2>1
  <1>6. owed \in 0 .. MaxOwed
    BY AccessBoundsAssumption DEF AccessInit
  <1>7. req \in [Callers -> Requests]
    BY NoRequestOK DEF AccessInit
  <1> QED BY <1>1, <1>2, <1>3, <1>4, <1>5, <1>6, <1>7, NoRequestOK DEF AccessInv, AccessInit

(* A request of which every field is of its type is typed. *)
LEMMA RequestTypes ==
  ASSUME NEW r \in Requests
  PROVE  /\ \A pc \in {"idle", "authorize", "lookup", "emergency", "serve", "audit"} :
              [r EXCEPT !.pc = pc] \in Requests
         /\ \A p \in Principals : Granted(r, p) \in Requests
         /\ [Granted(r, "break-glass") EXCEPT !.audited = TRUE] \in Requests
         /\ [r EXCEPT !.pc = "audit", !.token = NoToken] \in Requests
  <1>1. \A p \in Principals : Granted(r, p) \in Requests
    BY DEF Granted, Requests, Principals
  <1>2. [Granted(r, "break-glass") EXCEPT !.audited = TRUE] \in Requests
    BY DEF Granted, Requests, Principals
  <1> QED BY <1>1, <1>2 DEF Requests

-----------------------------------------------------------------------------
(* A request that arrives waits for authorisation, or needs none. *)
LEMMA ReceiveOK ==
  ASSUME NEW c \in Callers, NEW offer \in Offers[c], Receive(c, offer)
  PROVE  \E r \in Requests : RequestOK(r) /\ r.pc # "lookup" /\ req' = [req EXCEPT ![c] = r]
  <1>1. offer.route \in Routes /\ offer.token \in Tokens \cup {NoToken}
    BY OffersAssumption
  <1> DEFINE r == [NoRequest EXCEPT
                     !.pc = IF offer.route = "health" THEN "serve" ELSE "authorize",
                     !.route = offer.route, !.token = offer.token]
  <1>2. r \in Requests
    BY <1>1 DEF NoRequest, Requests, Routes, Principals
  <1>3. RequestOK(r) /\ r.pc # "lookup"
    BY <1>2 DEF RequestOK, NoRequest
  <1>4. req' = [req EXCEPT ![c] = r]
    BY DEF Receive
  <1> HIDE DEF r
  <1> QED BY <1>2, <1>3, <1>4

(* The token of the producers opens the ingest routes only, and the legacy   *)
(* token none of them.                                                       *)
LEMMA AuthorizeAtOnceOK ==
  ASSUME AccessInv, NEW c \in Callers, AuthorizeAtOnce(c)
  PROVE  \E r \in Requests : RequestOK(r) /\ r.pc # "lookup" /\ req' = [req EXCEPT ![c] = r]
  <1>1. req[c] \in Requests /\ RequestOK(req[c]) /\ ConfigOK
    BY DEF AccessInv
  <1>2. CASE GrantsService(req[c])
    <2>1. Granted(req[c], "service") \in Requests
      BY <1>1, RequestTypes DEF Principals
    <2>2. RequestOK(Granted(req[c], "service")) /\ Granted(req[c], "service").pc # "lookup"
      BY <1>1, <1>2, <2>1 DEF RequestOK, Granted, GrantsService, ForOperators, Requests
    <2> QED BY <1>2, <2>1, <2>2 DEF AuthorizeAtOnce
  <1>3. CASE ~GrantsService(req[c]) /\ GrantsLegacy(req[c])
    <2>1. Granted(req[c], "legacy") \in Requests
      BY <1>1, RequestTypes DEF Principals
    <2>2. RequestOK(Granted(req[c], "legacy")) /\ Granted(req[c], "legacy").pc # "lookup"
      BY <1>1, <1>3, <2>1
         DEF RequestOK, Granted, GrantsLegacy, ForOperators, Requests, ConfigOK
    <2> QED BY <1>3, <2>1, <2>2 DEF AuthorizeAtOnce
  <1>4. CASE ~GrantsService(req[c]) /\ ~GrantsLegacy(req[c])
    BY <1>4, NoRequestOK DEF AuthorizeAtOnce, NoRequest
  <1> QED BY <1>2, <1>3, <1>4

(* A JWT of the provider is not the token of the producers. *)
LEMMA FinishValidationOK ==
  ASSUME AccessInv, NEW c \in Callers, FinishValidation(c)
  PROVE  \E r \in Requests : RequestOK(r) /\ r.pc # "lookup" /\ req' = [req EXCEPT ![c] = r]
  <1>1. req[c] \in Requests /\ RequestOK(req[c]) /\ ConfigOK /\ TakenForJWT(req[c])
    BY DEF AccessInv, FinishValidation, RequestOK
  <1>2. CASE lookup[c].pc = "found" /\ GrantsOIDC(req[c], lookup[c].key)
    <2>1. Granted(req[c], "oidc") \in Requests
      BY <1>1, RequestTypes DEF Principals
    <2>2. req[c].token # config.ingest
      BY <1>1, <1>2, ConfigsAssumption DEF GrantsOIDC, TakenForJWT, ConfigOK
    <2>3. RequestOK(Granted(req[c], "oidc")) /\ Granted(req[c], "oidc").pc # "lookup"
      BY <1>1, <2>1, <2>2 DEF RequestOK, Granted, TakenForJWT, ForOperators, Requests
    <2> QED BY <1>2, <2>1, <2>3 DEF FinishValidation
  <1>3. CASE ~(lookup[c].pc = "found" /\ GrantsOIDC(req[c], lookup[c].key))
    BY <1>3, NoRequestOK DEF FinishValidation, NoRequest
  <1> QED BY <1>2, <1>3

(* Only the break-glass token leads to its audit. *)
LEMMA AllowBreakGlassOK ==
  ASSUME AccessInv, NEW c \in Callers, AllowBreakGlass(c)
  PROVE  \E r \in Requests : RequestOK(r) /\ r.pc # "lookup" /\ req' = [req EXCEPT ![c] = r]
  <1>1. req[c] \in Requests /\ RequestOK(req[c])
    BY DEF AccessInv
  <1> DEFINE r == [req[c] EXCEPT !.pc = "emergency"]
  <1>2. r \in Requests
    BY <1>1, RequestTypes
  <1>3. MeansBreakGlass(r)
    BY <1>1 DEF AllowBreakGlass, MeansBreakGlass, ForOperators, Requests
  <1>4. RequestOK(r) /\ r.pc # "lookup"
    BY <1>1, <1>2, <1>3 DEF RequestOK, Requests
  <1>5. req' = [req EXCEPT ![c] = r]
    BY DEF AllowBreakGlass
  <1> HIDE DEF r
  <1> QED BY <1>2, <1>4, <1>5

(* The request goes on with its row written, or not at all. *)
LEMMA AuditBreakGlassOK ==
  ASSUME AccessInv, NEW c \in Callers, AuditBreakGlass(c)
  PROVE  \E r \in Requests : RequestOK(r) /\ r.pc # "lookup" /\ req' = [req EXCEPT ![c] = r]
  <1>1. req[c] \in Requests /\ RequestOK(req[c]) /\ ConfigOK /\ MeansBreakGlass(req[c])
    BY DEF AccessInv, AuditBreakGlass, RequestOK
  <1> DEFINE r == [Granted(req[c], "break-glass") EXCEPT !.audited = TRUE]
  <1>2. r \in Requests
    BY <1>1, RequestTypes
  <1>3. RequestOK(r) /\ r.pc # "lookup"
    BY <1>1, <1>2
       DEF RequestOK, Granted, MeansBreakGlass, ForOperators, Requests, ConfigOK
  <1>4. req' = [req EXCEPT ![c] = r] \/ req' = [req EXCEPT ![c] = NoRequest]
    BY DEF AuditBreakGlass
  <1>5. NoRequest.pc # "lookup"
    BY DEF NoRequest
  <1> HIDE DEF r
  <1> QED BY <1>2, <1>3, <1>4, <1>5, NoRequestOK

(* What remains of a request that has been served holds no token. *)
LEMMA ServeOK ==
  ASSUME AccessInv, NEW c \in Callers, Serve(c)
  PROVE  \E r \in Requests : RequestOK(r) /\ r.pc # "lookup" /\ req' = [req EXCEPT ![c] = r]
  <1>1. req[c] \in Requests /\ RequestOK(req[c])
    BY DEF AccessInv
  <1> DEFINE r == [req[c] EXCEPT !.pc = "audit", !.token = NoToken]
  <1>2. r \in Requests
    BY <1>1, RequestTypes
  <1>3. RequestOK(r) /\ r.pc # "lookup"
    BY <1>1, <1>2 DEF RequestOK, Requests
  <1>4. req' = [req EXCEPT ![c] = r] \/ req' = [req EXCEPT ![c] = NoRequest]
    BY DEF Serve
  <1>5. NoRequest.pc # "lookup"
    BY DEF NoRequest
  <1> HIDE DEF r
  <1> QED BY <1>2, <1>3, <1>4, <1>5, NoRequestOK

-----------------------------------------------------------------------------
(* The steps that work on the request of one caller, and not on its lookup. *)
Handles(c) ==
  \/ AuthorizeAtOnce(c) \/ RefuseUnreadable(c) \/ AllowBreakGlass(c)
  \/ AuditBreakGlass(c) \/ Serve(c) \/ AuditRead(c)
  \/ \E offer \in Offers[c] : Receive(c, offer)

(* They leave an orderly request behind, and nothing else. *)
LEMMA HandlesOK ==
  ASSUME AccessInv, NEW c \in Callers, Handles(c)
  PROVE  /\ \E r \in Requests : RequestOK(r) /\ r.pc # "lookup" /\ req' = [req EXCEPT ![c] = r]
         /\ req[c].pc # "lookup" /\ owed' \in 0 .. MaxOwed
         /\ UNCHANGED <<cacheVars, config, server>>
  <1>1. NoRequest \in Requests /\ RequestOK(NoRequest) /\ NoRequest.pc # "lookup"
    BY NoRequestOK DEF NoRequest
  <1>2. owed \in 0 .. MaxOwed /\ MaxOwed \in Nat
    BY AccessBoundsAssumption DEF AccessInv
  <1>3. CASE AuthorizeAtOnce(c)
    BY <1>2, <1>3, AuthorizeAtOnceOK DEF AuthorizeAtOnce
  <1>4. CASE RefuseUnreadable(c)
    BY <1>1, <1>2, <1>4 DEF RefuseUnreadable
  <1>5. CASE AllowBreakGlass(c)
    BY <1>2, <1>5, AllowBreakGlassOK DEF AllowBreakGlass
  <1>6. CASE AuditBreakGlass(c)
    BY <1>2, <1>6, AuditBreakGlassOK DEF AuditBreakGlass
  <1>7. CASE Serve(c)
    <2>1. owed' = owed \/ (owed < MaxOwed /\ owed' = owed + 1)
      BY <1>7 DEF Serve
    <2>2. owed' \in 0 .. MaxOwed
      BY <1>2, <2>1
    <2>3. req[c].pc # "lookup" /\ UNCHANGED <<cacheVars, config, server>>
      BY <1>7 DEF Serve
    <2> QED BY <1>7, <2>2, <2>3, ServeOK
  <1>8. CASE AuditRead(c)
    BY <1>1, <1>2, <1>8 DEF AuditRead
  <1>9. ASSUME NEW offer \in Offers[c], Receive(c, offer)
        PROVE  /\ \E r \in Requests : RequestOK(r) /\ r.pc # "lookup" /\ req' = [req EXCEPT ![c] = r]
               /\ req[c].pc # "lookup" /\ owed' \in 0 .. MaxOwed
               /\ UNCHANGED <<cacheVars, config, server>>
    BY <1>2, <1>9, ReceiveOK DEF Receive
  <1> QED BY <1>3, <1>4, <1>5, <1>6, <1>7, <1>8, <1>9 DEF Handles

(* The end of a process is the only step that is none of the key cache. *)
LEMMA StepsOfNext ==
  ASSUME [Next]_vars
  PROVE  \/ \E c \in Callers : Handles(c)
         \/ \E c \in Callers : LookUpKey(c) \/ FinishValidation(c) \/ LookupOfRequest(c)
         \/ AuditDetached \/ Restart \/ Environment \/ UNCHANGED vars
         \/ End /\ server = "up"
  BY DEF Next, RequestStep, Handles, Exit, Crash

(* Every step of the process is one of its key cache, or leaves it alone. *)
LEMMA CacheOrEnd ==
  ASSUME AccessInv, [Next]_vars
  PROVE  [CacheNext]_cacheVars \/ End
  <1>1. ASSUME NEW c \in Callers, Handles(c) PROVE [CacheNext]_cacheVars
    BY <1>1, HandlesOK
  <1>2. ASSUME NEW c \in Callers, LookUpKey(c) PROVE [CacheNext]_cacheVars
    <2>1. Jwt[req[c].token].kid \in Kids
      BY <1>2, JwtAssumption DEF LookUpKey, TakenForJWT, Claims
    <2> QED BY <1>2, <2>1 DEF LookUpKey, CacheNext
  <1>3. ASSUME NEW c \in Callers, FinishValidation(c) \/ LookupOfRequest(c)
        PROVE  [CacheNext]_cacheVars
    BY <1>3 DEF FinishValidation, LookupOfRequest, CacheNext
  <1>4. AuditDetached \/ Restart \/ UNCHANGED vars => [CacheNext]_cacheVars
    BY DEF AuditDetached, Restart, vars, cacheVars
  <1>5. Environment => [CacheNext]_cacheVars
    BY DEF Environment, CacheNext
  <1> QED BY <1>1, <1>2, <1>3, <1>4, <1>5, StepsOfNext

(* A new process has fetched nothing, which is accurate. *)
LEMMA EndKeepsCacheInv ==
  ASSUME CacheInv, End
  PROVE  CacheInv'
  <1> USE TimeAssumption
  <1>1. CacheTypeOK /\ now \in Times /\ 0 =< now
    BY DEF CacheInv, CacheTypeOK, Times
  <1>2. NoKeys \in KeyMaps /\ 0 \in Times
    BY DEF NoKeys, KeyMaps, Times
  <1>3. \A c \in Callers : lookup[c].kid \in Kids
    BY <1>1 DEF CacheTypeOK, Lookups
  <1>4. \A kid \in Kids : NoLookup(kid) \in Lookups /\ NoLookup(kid).pc = "idle"
                                                 /\ NoLookup(kid).since = 0
    BY <1>2 DEF NoLookup, Lookups
  <1>5. CacheTypeOK'
    <2>1. lookup' \in [Callers -> Lookups]
      BY <1>3, <1>4 DEF End
    <2> QED BY <1>1, <1>2, <2>1 DEF End, CacheTypeOK
  <1>6. \A c \in Callers : lookup'[c].pc = "idle" /\ lookup'[c].since = 0
    BY <1>3, <1>4 DEF End
  <1>7. Accurate(published, changedAt, NoKeys, Never - FetchTime)
    <2> SUFFICES ASSUME NEW kid \in Kids, NEW key \in {published[kid], NoKeys[kid]} \ {NoKey}
                 PROVE  changedAt[kid][key] >= Never - FetchTime
      BY DEF Accurate
    <2>1. key \in Keys
      BY <1>1 DEF CacheTypeOK, KeyMaps, NoKeys
    <2>2. changedAt[kid][key] \in Nat
      BY <1>1, <2>1 DEF CacheTypeOK, Times
    <2> QED BY <2>2 DEF Never
  <1>8. Never =< now /\ now \in Int
    BY <1>1 DEF Never, Times
  <1> QED BY <1>1, <1>5, <1>6, <1>7, <1>8 DEF CacheInv, End

(* Every step keeps the invariant. *)
LEMMA AccessInvStep == AccessInv /\ [Next]_vars => AccessInv'
  <1> SUFFICES ASSUME AccessInv, [Next]_vars PROVE AccessInv'
    OBVIOUS
  <1>1. CacheInv /\ ConfigOK /\ req \in [Callers -> Requests] /\ server \in {"up", "down"}
    BY DEF AccessInv
  <1>2. CacheInv'
    BY <1>1, CacheOrEnd, CacheInvStep, EndKeepsCacheInv
  <1>3. lookup \in [Callers -> Lookups]
    BY <1>1 DEF CacheInv, CacheTypeOK
  <1>4. config' = config
    <2>1. \A c \in Callers : Handles(c) => config' = config
      BY HandlesOK
    <2> QED BY <2>1, StepsOfNext DEF LookUpKey, FinishValidation, LookupOfRequest,
               AuditDetached, Restart, Environment, End, accessVars, vars
  <1>5. ConfigOK'
    BY <1>1, <1>4 DEF ConfigOK
  <1>6. \A r : RequestOK(r) => RequestOK(r)'
    BY <1>4 DEF RequestOK, TakenForJWT, MeansBreakGlass, ForOperators
  <1> DEFINE Rest == /\ server' \in {"up", "down"}
                     /\ req' \in [Callers -> Requests]
                     /\ owed' \in 0 .. MaxOwed
                     /\ \A c \in Callers : RequestOK(req'[c])
                     /\ \A c \in Callers : req'[c].pc = "lookup" <=> lookup'[c].pc # "idle"
  <1>a. ASSUME NEW c \in Callers, NEW r \in Requests, RequestOK(r),
               req' = [req EXCEPT ![c] = r], server' = server, owed' \in 0 .. MaxOwed,
               \A d \in Callers \ {c} : lookup'[d] = lookup[d],
               r.pc = "lookup" <=> lookup'[c].pc # "idle"
        PROVE  Rest
    <2>1. \A d \in Callers : req'[d] = IF d = c THEN r ELSE req[d]
      BY <1>1, <1>a
    <2>2. req' \in [Callers -> Requests]
      BY <1>1, <1>a
    <2>3. \A d \in Callers : RequestOK(req'[d])
      BY <1>a, <2>1 DEF AccessInv
    <2>4. \A d \in Callers : req'[d].pc = "lookup" <=> lookup'[d].pc # "idle"
      <3> TAKE d \in Callers
      <3>1. CASE d = c
        BY <1>a, <2>1, <3>1
      <3>2. CASE d # c
        BY <1>a, <2>1, <3>2 DEF AccessInv
      <3> QED BY <3>1, <3>2
    <2> QED BY <1>1, <1>a, <2>2, <2>3, <2>4
  <1>7. ASSUME NEW c \in Callers, Handles(c) PROVE Rest
    <2>1. PICK r \in Requests : RequestOK(r) /\ r.pc # "lookup" /\ req' = [req EXCEPT ![c] = r]
      BY <1>7, HandlesOK
    <2>2. /\ req[c].pc # "lookup" /\ owed' \in 0 .. MaxOwed
          /\ lookup' = lookup /\ server' = server
      BY <1>7, HandlesOK DEF cacheVars
    <2>3. lookup[c].pc = "idle"
      BY <2>2 DEF AccessInv
    <2> HIDE DEF Rest
    <2> QED BY <1>a, <2>1, <2>2, <2>3
  <1>8. ASSUME NEW c \in Callers, LookUpKey(c) PROVE Rest
    <2> DEFINE r == [req[c] EXCEPT !.pc = "lookup"]
    <2>1. r \in Requests
      BY <1>1, RequestTypes
    <2>2. req[c] \in Requests /\ TakenForJWT(req[c])
      BY <1>1, <1>8 DEF LookUpKey
    <2>3. RequestOK(r)
      <3>1. RequestOK(req[c])
        BY DEF AccessInv
      <3>2. TakenForJWT(r)
        BY <2>2 DEF TakenForJWT, ForOperators, Requests
      <3> QED BY <2>1, <2>2, <3>1, <3>2 DEF RequestOK, Requests
    <2>4. r.pc = "lookup"
      BY <2>2 DEF Requests
    <2>5. req' = [req EXCEPT ![c] = r] /\ server' = server /\ owed' = owed
      BY <1>8 DEF LookUpKey
    <2>6. \A d \in Callers : /\ d # c => lookup'[d] = lookup[d]
                             /\ d = c => lookup'[d].pc = "waiting"
      BY <1>3, <1>8 DEF LookUpKey, Ask, Lookups
    <2>7. owed' \in 0 .. MaxOwed
      BY <2>5 DEF AccessInv
    <2>8. \A d \in Callers \ {c} : lookup'[d] = lookup[d]
      BY <2>6
    <2>9. lookup'[c].pc # "idle"
      BY <2>6
    <2> HIDE DEF r, Rest
    <2> QED BY <1>a, <2>1, <2>3, <2>4, <2>5, <2>7, <2>8, <2>9
  <1>9. ASSUME NEW c \in Callers, FinishValidation(c) PROVE Rest
    <2>1. PICK r \in Requests : RequestOK(r) /\ r.pc # "lookup" /\ req' = [req EXCEPT ![c] = r]
      BY <1>9, FinishValidationOK
    <2>2. \A d \in Callers : /\ d # c => lookup'[d] = lookup[d]
                             /\ d = c => lookup'[d].pc = "idle"
      BY <1>3, <1>9 DEF FinishValidation, TakeKey, Lookups
    <2>3. server' = server /\ owed' = owed /\ owed \in 0 .. MaxOwed
      BY <1>9 DEF FinishValidation, AccessInv
    <2>4. \A d \in Callers \ {c} : lookup'[d] = lookup[d]
      BY <2>2
    <2>5. lookup'[c].pc = "idle" /\ owed' \in 0 .. MaxOwed
      BY <2>2, <2>3
    <2> HIDE DEF Rest
    <2> QED BY <1>a, <2>1, <2>3, <2>4, <2>5
  <1>10. ASSUME NEW c \in Callers, LookupOfRequest(c) PROVE Rest
    <2>1. \A d \in Callers : /\ d # c => lookup'[d] = lookup[d]
                             /\ d = c => lookup[d].pc # "idle" /\ lookup'[d].pc # "idle"
      BY <1>3, <1>10 DEF LookupOfRequest, LookupStep, AnswerFromCache, StartFetch,
         ProviderAnswers, EndFetch, FetchFails, Lookups
    <2>2. req' = req /\ server' = server /\ owed' = owed
      BY <1>10 DEF LookupOfRequest, accessVars
    <2>3. \A d \in Callers : req'[d].pc = "lookup" <=> lookup'[d].pc # "idle"
      <3> TAKE d \in Callers
      <3>1. req[d].pc = "lookup" <=> lookup[d].pc # "idle"
        BY DEF AccessInv
      <3>2. lookup'[d].pc # "idle" <=> lookup[d].pc # "idle"
        BY <2>1
      <3> QED BY <2>2, <3>1, <3>2
    <2> QED BY <1>1, <2>2, <2>3 DEF AccessInv
  <1>11. AuditDetached \/ Restart \/ UNCHANGED vars => Rest
    BY AccessBoundsAssumption DEF AuditDetached, Restart, vars, cacheVars, AccessInv
  <1>12. Environment => Rest
    BY DEF Environment, Rotate, Tick, accessVars, AccessInv
  <1>13. End => Rest
    <2> SUFFICES ASSUME End PROVE Rest
      OBVIOUS
    <2>1. \A c \in Callers : req'[c] = NoRequest /\ lookup'[c].pc = "idle"
      BY DEF End, NoLookup
    <2>2. NoRequest.pc # "lookup"
      BY DEF NoRequest
    <2> QED BY <2>1, <2>2, NoRequestOK, AccessBoundsAssumption DEF End
  <1>14. Rest
    BY <1>7, <1>8, <1>9, <1>10, <1>11, <1>12, <1>13, StepsOfNext
  <1>15. \A c \in Callers : RequestOK(req[c])'
    BY <1>6, <1>14
  <1> QED BY <1>2, <1>5, <1>14, <1>15 DEF AccessInv

-----------------------------------------------------------------------------
(* The inductive invariant holds in every state, crashes and restarts       *)
(* included.                                                                *)
THEOREM AccessIsInOrder == Spec => []AccessInv
  BY AccessInvInit, AccessInvStep, PTL DEF Spec

(* The variables of the access control keep their types. *)
THEOREM AccessTypeCorrect == Spec => []AccessTypeOK
  <1>1. AccessInv => AccessTypeOK
    BY DEF AccessInv, AccessTypeOK, CacheInv, ConfigOK
  <1> QED BY <1>1, AccessIsInOrder, PTL

(* No handler runs on a break-glass token that has not been audited          *)
(* (authorizeBreakGlass).                                                    *)
THEOREM BreakGlassIsAlwaysAudited == Spec => []BreakGlassIsAudited
  <1>1. AccessInv => BreakGlassIsAudited
    BY DEF AccessInv, RequestOK, BreakGlassIsAudited
  <1> QED BY <1>1, AccessIsInOrder, PTL

(* The token checks of LoadFromEnv keep the producers and the operators     *)
(* apart, whatever tokens are configured (authorize).                       *)
THEOREM TokensStayApart == Spec => []ServiceTokensStayApart
  <1>1. AccessInv => ServiceTokensStayApart
    BY DEF AccessInv, RequestOK, ServiceTokensStayApart
  <1> QED BY <1>1, AccessIsInOrder, PTL

(* The key cache of a running process never holds a key that was not         *)
(* published when it was fetched.                                            *)
THEOREM ServedKeysWerePublished == Spec => []CacheWasPublished
  <1>1. AccessInv => CacheWasPublished
    BY CacheInvGivesPublished DEF AccessInv
  <1> QED BY <1>1, AccessIsInOrder, PTL

(* The lookups of requests refuse withdrawn keys and find published ones, as *)
(* those of the bare cache do: the end of a process answers none.            *)
LEMMA RequestsFindTheRightKey ==
  ASSUME AccessInv, [Next]_vars, NEW c \in Callers,
         lookup'[c].pc = "found", lookup[c].pc # "found"
  PROVE  /\ lookup'[c].key # NoKey => PublishedLately(lookup[c].kid, lookup'[c].key)
         /\ /\ published[lookup[c].kid] # NoKey
            /\ ~ChangedLately(lookup[c].kid, published[lookup[c].kid])
            => lookup'[c].key = published[lookup[c].kid]
  <1>1. ~End
    BY DEF End, NoLookup
  <1> QED BY <1>1, CacheOrEnd, FoundKeyIsRight DEF AccessInv

(* A request with a withdrawn key is refused once Lag has passed. *)
THEOREM RequestsRefuseWithdrawnKeys == Spec => WithdrawnKeyIsRefused
  <1>1. AccessInv /\ [Next]_vars =>
          [\A c \in Callers :
             lookup'[c].pc = "found" /\ lookup[c].pc # "found" /\ lookup'[c].key # NoKey
               => PublishedLately(lookup[c].kid, lookup'[c].key)]_cacheVars
    BY RequestsFindTheRightKey
  <1> QED BY <1>1, AccessIsInOrder, PTL DEF Spec, WithdrawnKeyIsRefused

(* A request with a published key finds it once Lag has passed, unless a     *)
(* fetch fails.                                                              *)
THEOREM RequestsFindPublishedKeys == Spec => PublishedKeyIsFound
  <1>1. AccessInv /\ [Next]_vars =>
          [\A c \in Callers :
                 /\ lookup'[c].pc = "found" /\ lookup[c].pc # "found"
                 /\ published[lookup[c].kid] # NoKey
                 /\ ~ChangedLately(lookup[c].kid, published[lookup[c].kid])
              => lookup'[c].key = published[lookup[c].kid]]_cacheVars
    BY RequestsFindTheRightKey
  <1> QED BY <1>1, AccessIsInOrder, PTL DEF Spec, PublishedKeyIsFound

(* A valid break-glass request is never kept back by the key cache, nor      *)
(* refused before its audit row, unless its process ends.                    *)
THEOREM BreakGlassBypassesTheProvider == Spec => BreakGlassNeedsNoProvider
  <1> DEFINE Valid(c) == /\ MeansBreakGlass(req[c])
                         /\ req[c].route \in config.emergencyPaths
                         /\ config.emergencyRole \in AllowedRoles(req[c].route)
                         /\ now =< config.emergencyUntil
                         /\ req[c].pc \in {"authorize", "lookup"} /\ req'[c] # req[c]
  <1>1. ASSUME AccessInv, [Next]_vars, NEW c \in Callers, Valid(c)
        PROVE  req'[c].pc = "emergency" \/ server' = "down"
    <2>1. req[c].pc = "authorize" /\ ~TakenForJWT(req[c]) /\ BreakGlassAllowed(req[c])
      BY <1>1 DEF AccessInv, RequestOK, TakenForJWT, MeansBreakGlass, BreakGlassAllowed
    <2>2. CASE End
      BY <2>2 DEF End
    <2>3. ASSUME NEW d \in Callers, Handles(d) \/ LookUpKey(d) \/ FinishValidation(d)
          PROVE  AllowBreakGlass(c)
      <3>1. d = c
        <4>1. \E r : req' = [req EXCEPT ![d] = r]
          BY <1>1, <2>3, HandlesOK DEF LookUpKey, FinishValidation
        <4> QED BY <1>1, <4>1 DEF AccessInv
      <3>2. ~LookUpKey(c) /\ ~FinishValidation(c) /\ ~AuthorizeAtOnce(c)
            /\ ~RefuseUnreadable(c) /\ ~AuditBreakGlass(c) /\ ~Serve(c) /\ ~AuditRead(c)
            /\ \A offer \in Offers[c] : ~Receive(c, offer)
        BY <1>1, <2>1 DEF LookUpKey, FinishValidation, AuthorizeAtOnce,
           RefuseUnreadable, AuditBreakGlass, Serve, AuditRead, Receive
      <3> QED BY <2>3, <3>1, <3>2 DEF Handles
    <2>4. AllowBreakGlass(c) => req'[c].pc = "emergency"
      BY <1>1 DEF AllowBreakGlass, AccessInv, Requests
    <2>5. ~AuditDetached /\ ~Restart /\ ~Environment /\ ~(UNCHANGED vars)
          /\ \A d \in Callers : ~LookupOfRequest(d)
      BY <1>1 DEF AuditDetached, Restart, Environment, vars, LookupOfRequest, accessVars
    <2> QED BY <1>1, <2>2, <2>3, <2>4, <2>5, StepsOfNext
  <1>2. AccessInv /\ [Next]_vars =>
          [\A c \in Callers : Valid(c) => req'[c].pc = "emergency" \/ server' = "down"]_vars
    BY <1>1
  <1> QED BY <1>2, AccessIsInOrder, PTL DEF Spec, BreakGlassNeedsNoProvider
=============================================================================
