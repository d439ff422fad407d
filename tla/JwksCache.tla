------------------------------ MODULE JwksCache ------------------------------
(***************************************************************************)
(* The key cache of the OIDC validator (internal/http/middleware/oidc.go). *)
(*                                                                         *)
(* Every operator request with a JWT looks the key of its token up in one  *)
(* map, under one mutex that is also held while the key set is fetched     *)
(* again.  The identity provider may publish, replace and withdraw keys at *)
(* any time; the validator only learns of it when it fetches.              *)
(*                                                                         *)
(* The caller that fetches holds the mutex.  All other work under it is    *)
(* done without blocking, so it is one step: a caller that is answered     *)
(* from the map takes and releases the mutex in that step.                 *)
(***************************************************************************)
EXTENDS Integers

CONSTANTS
  Callers,    \* the requests in flight
  Kids,       \* the key ids
  Keys,       \* the keys
  NoKey,      \* no key is published, or known, under a key id
  FreshFor,   \* how long a fetched key set is used: 5 minutes
  FetchTime,  \* how long a fetch may take: 5 seconds
  MaxTime     \* the bound on the clock

ASSUME NoKeyAssumption == NoKey \notin Keys
ASSUME KidsAssumption == Kids # {}
ASSUME TimeAssumption ==
  FreshFor \in Nat /\ FetchTime \in Nat /\ MaxTime \in Nat

VARIABLES
  now,        \* the clock
  published,  \* the key the provider publishes under each key id; one that
              \* parseJWK cannot read is skipped, so it counts as none
  changedAt,  \* when each key was last published or withdrawn (history)
  keys,       \* the map of the validator
  loadedAt,   \* when it was filled
  lookup      \* the lookup of each caller

cacheVars == <<now, published, changedAt, keys, loadedAt, lookup>>

Times == 0 .. MaxTime
KeyMaps == [Kids -> Keys \cup {NoKey}]

(* The zero time of a validator that has fetched nothing yet. *)
Never == -1 - FreshFor

NoKeys == [k \in Kids |-> NoKey]

Lookups ==
  [pc : {"idle", "waiting", "fetching", "answered", "found", "failed"},
   kid : Kids, since : Times, answer : KeyMaps, key : Keys \cup {NoKey}]

NoLookup(kid) ==
  [pc |-> "idle", kid |-> kid, since |-> 0, answer |-> NoKeys, key |-> NoKey]

CacheTypeOK ==
  /\ now \in Times
  /\ published \in KeyMaps
  /\ changedAt \in [Kids -> [Keys -> Times]]
  /\ keys \in KeyMaps
  /\ loadedAt \in Times \cup {Never}
  /\ lookup \in [Callers -> Lookups]

CacheInit ==
  /\ now = 0
  /\ published \in KeyMaps
  /\ changedAt = [k \in Kids |-> [x \in Keys |-> 0]]
  /\ keys = NoKeys
  /\ loadedAt = Never
  /\ lookup = [c \in Callers |-> NoLookup(CHOOSE kid \in Kids : TRUE)]

-----------------------------------------------------------------------------
(* Mutant: a map that was filled once is used for ever. *)
FreshForEver == loadedAt # Never

Fresh == now - loadedAt =< FreshFor

(* The mutex is free. *)
Unlocked == \A c \in Callers : lookup[c].pc \notin {"fetching", "answered"}

(* A caller asks for the key with the id that its token names. *)
Ask(c, kid) ==
  /\ lookup[c].pc = "idle"
  /\ lookup' = [lookup EXCEPT ![c].pc = "waiting", ![c].kid = kid]
  /\ UNCHANGED <<now, published, changedAt, keys, loadedAt>>

(* The map is fresh and has the key. *)
AnswerFromCache(c) ==
  /\ lookup[c].pc = "waiting"
  /\ Unlocked
  /\ Fresh /\ keys[lookup[c].kid] # NoKey
  /\ lookup' = [lookup EXCEPT ![c].pc = "found", ![c].key = keys[lookup[c].kid]]
  /\ UNCHANGED <<now, published, changedAt, keys, loadedAt>>

(* The map is old, empty or without the key: the caller fetches, once. *)
StartFetch(c) ==
  /\ lookup[c].pc = "waiting"
  /\ Unlocked
  /\ ~Fresh \/ keys[lookup[c].kid] = NoKey
  /\ lookup' = [lookup EXCEPT ![c].pc = "fetching", ![c].since = now]
  /\ UNCHANGED <<now, published, changedAt, keys, loadedAt>>

(* The provider answers with what it publishes at that moment. *)
ProviderAnswers(c) ==
  /\ lookup[c].pc = "fetching"
  /\ lookup' = [lookup EXCEPT ![c].pc = "answered", ![c].answer = published]
  /\ UNCHANGED <<now, published, changedAt, keys, loadedAt>>

(* Mutants: the fetch has no timeout; a key id that is known keeps its key. *)
EndFetchAnyTime(c) ==
  /\ lookup[c].pc = "answered"
  /\ keys' = lookup[c].answer
  /\ loadedAt' = now
  /\ lookup' = [lookup EXCEPT ![c] =
       [@ EXCEPT !.pc = "found", !.since = 0, !.answer = NoKeys, !.key = lookup[c].answer[lookup[c].kid]]]
  /\ UNCHANGED <<now, published, changedAt>>

EndFetchAdding(c) ==
  LET known == [k \in Kids |-> IF keys[k] # NoKey THEN keys[k] ELSE lookup[c].answer[k]]
  IN  /\ lookup[c].pc = "answered"
      /\ now - lookup[c].since =< FetchTime
      /\ keys' = known
      /\ loadedAt' = now
      /\ lookup' = [lookup EXCEPT ![c].pc = "found", ![c].since = 0,
                                  ![c].answer = NoKeys, ![c].key = known[lookup[c].kid]]
      /\ UNCHANGED <<now, published, changedAt>>

(* The answer has arrived in time and replaces the whole map. *)
EndFetch(c) ==
  /\ lookup[c].pc = "answered"
  /\ now - lookup[c].since =< FetchTime
  /\ keys' = lookup[c].answer
  /\ loadedAt' = now
  /\ lookup' = [lookup EXCEPT ![c] =
       [@ EXCEPT !.pc = "found", !.since = 0, !.answer = NoKeys, !.key = lookup[c].answer[lookup[c].kid]]]
  /\ UNCHANGED <<now, published, changedAt>>

(* Mutant: the mutex is not released. *)
FetchFailsLocked(c) ==
  /\ lookup[c].pc \in {"fetching", "answered"}
  /\ UNCHANGED cacheVars

(* No answer, a late one, another status or an undecodable body: the map and *)
(* its time stay as they are, also if the map was fresh.                     *)
FetchFails(c) ==
  /\ lookup[c].pc \in {"fetching", "answered"}
  /\ lookup' = [lookup EXCEPT ![c] =
       [@ EXCEPT !.pc = "failed", !.since = 0, !.answer = NoKeys]]
  /\ UNCHANGED <<now, published, changedAt, keys, loadedAt>>

(* Mutant: a lookup that failed is not given up. *)
TakeFoundKey(c) ==
  /\ lookup[c].pc \in {"found", "failed"}
  /\ lookup' = IF lookup[c].pc = "failed" THEN lookup
               ELSE [lookup EXCEPT ![c].pc = "idle", ![c].key = NoKey]
  /\ UNCHANGED <<now, published, changedAt, keys, loadedAt>>

(* The caller has its result and goes on. *)
TakeKey(c) ==
  /\ lookup[c].pc \in {"found", "failed"}
  /\ lookup' = [lookup EXCEPT ![c].pc = "idle", ![c].key = NoKey]
  /\ UNCHANGED <<now, published, changedAt, keys, loadedAt>>

(* The provider publishes, replaces or withdraws the key of a key id. *)
Rotate(kid, key) ==
  /\ published[kid] # key
  /\ published' = [published EXCEPT ![kid] = key]
  /\ changedAt' = [changedAt EXCEPT ![kid] =
                     [x \in Keys |-> IF x \in {key, published[kid]} THEN now ELSE @[x]]]
  /\ UNCHANGED <<now, keys, loadedAt, lookup>>

Tick ==
  /\ now < MaxTime
  /\ now' = now + 1
  /\ UNCHANGED <<published, changedAt, keys, loadedAt, lookup>>

LookupStep(c) ==
  \/ AnswerFromCache(c)
  \/ StartFetch(c)
  \/ ProviderAnswers(c)
  \/ EndFetch(c)
  \/ FetchFails(c)

CacheNext ==
  \/ \E c \in Callers : LookupStep(c) \/ TakeKey(c)
  \/ \E c \in Callers, kid \in Kids : Ask(c, kid)
  \/ \E kid \in Kids, key \in Keys \cup {NoKey} : Rotate(kid, key)
  \/ Tick

CacheSpec == CacheInit /\ [][CacheNext]_cacheVars

-----------------------------------------------------------------------------
(* The longest time for which the validator may not have heard of a change. *)
Lag == FreshFor + FetchTime

ChangedLately(kid, key) == changedAt[kid][key] >= now - Lag

(* The key was published under its id at some moment of the last Lag. *)
PublishedLately(kid, key) == published[kid] = key \/ ChangedLately(kid, key)

(* A withdrawn or replaced key is refused once five minutes and the time of  *)
(* one fetch have passed, whatever fetches fail or overlap in between: what  *)
(* lookupKey returns was published lately.                                   *)
WithdrawnKeyIsRefused ==
  [][\A c \in Callers :
       lookup'[c].pc = "found" /\ lookup[c].pc # "found" /\ lookup'[c].key # NoKey
         => PublishedLately(lookup[c].kid, lookup'[c].key)]_cacheVars

(* A new or replacing key is found, if no fetch fails, once it has been      *)
(* published for longer than that, also under a key id that was known        *)
(* before.                                                                   *)
PublishedKeyIsFound ==
  [][\A c \in Callers :
            /\ lookup'[c].pc = "found" /\ lookup[c].pc # "found"
            /\ published[lookup[c].kid] # NoKey
            /\ ~ChangedLately(lookup[c].kid, published[lookup[c].kid])
         => lookup'[c].key = published[lookup[c].kid]]_cacheVars

(* What is in the map was published at some moment between the start of the  *)
(* fetch that filled it and the time it was filled.                          *)
CacheWasPublished ==
  \A kid \in Kids :
    keys[kid] # NoKey =>
      \/ published[kid] = keys[kid]
      \/ changedAt[kid][keys[kid]] >= loadedAt - FetchTime
=============================================================================
