---------------------------- MODULE AccessControl ----------------------------
(***************************************************************************)
(* Access to the Ops API: the configuration it accepts, the authorisation  *)
(* of each request, the audit rows it writes and the life of its process.  *)
(*                                                                         *)
(* Each caller is one connection whose requests follow one another.  The   *)
(* stages of a request are the points where its goroutine waits, for the   *)
(* mutex of the key cache, for the provider or for the database; what it   *)
(* does between two of them is one step.  Tokens are compared as a whole;  *)
(* what a JWT says is a function of the token.                             *)
(***************************************************************************)
EXTENDS JwksCache, FiniteSets

CONSTANTS
  Tokens,     \* bearer tokens
  NoToken,    \* no token is sent, or configured
  JWTs,       \* the tokens with exactly two dots
  Jwt,        \* what each of those says
  Configs,    \* environments the process may be started with
  Offers,     \* the requests that each caller sends: a route and a token
  MaxOwed,    \* bound: detached audit writes under way
  Crashes     \* TRUE: the process may crash

ASSUME TokensAssumption == NoToken \notin Tokens /\ JWTs \subseteq Tokens
ASSUME AccessBoundsAssumption == MaxOwed \in Nat /\ Crashes \in BOOLEAN

VARIABLES
  config,   \* the configuration of the process
  server,   \* whether the process runs
  req,      \* the request of each caller
  owed      \* detached audit writes that have not ended

accessVars == <<config, server, req, owed>>
vars == <<now, published, changedAt, keys, loadedAt, lookup, config, server, req, owed>>

-----------------------------------------------------------------------------
Roles == {"admin", "viewer", "auditor", "ingest"}
OperatorRoles == {"admin", "viewer", "auditor"}
Routes == {"reads", "findings", "analyze", "ingest", "metrics", "health"}

AllowedRoles(route) ==
  CASE route \in {"reads", "metrics"} -> OperatorRoles
    [] route = "findings" -> {"admin", "auditor"}
    [] route = "analyze" -> {"admin"}
    [] OTHER -> {"ingest"}

(* registerRead wraps a route in WithReadAudit; /metrics has none. *)
AuditedReads == {"reads", "findings"}

Claims ==
  [readable : BOOLEAN, kid : Kids, signer : Keys, issued : BOOLEAN,
   from : Nat, until : Nat, subject : BOOLEAN, roles : SUBSET Roles]

ASSUME JwtAssumption == Jwt \in [JWTs -> Claims]
ASSUME OffersAssumption ==
  Offers \in [Callers -> SUBSET [route : Routes, token : Tokens \cup {NoToken}]]

(* No token of the provider is configured for the producers. *)
ASSUME ConfigsAssumption ==
  \A cfg \in Configs : cfg.ingest \in JWTs => ~Jwt[cfg.ingest].issued

Principals == {"none", "service", "oidc", "legacy", "break-glass"}

Requests ==
  [pc : {"idle", "authorize", "lookup", "emergency", "serve", "audit"},
   route : Routes, token : Tokens \cup {NoToken}, principal : Principals,
   audited : BOOLEAN]

NoRequest ==
  [pc |-> "idle", route |-> "health", token |-> NoToken, principal |-> "none",
   audited |-> FALSE]

(* Mutant: the break-glass token may be the token of the producers. *)
AcceptedGlassForIngest(cfg, time) ==
  /\ cfg.ingest # NoToken
  /\ cfg.admin # NoToken \/ cfg.oidc
  /\ cfg.ingest # cfg.admin
  /\ cfg.compat /\ cfg.oidc => cfg.admin # NoToken
  /\ cfg.emergency =>
       /\ cfg.oidc
       /\ cfg.emergencyToken \notin {NoToken, cfg.admin}
       /\ cfg.emergencyUntil > time
       /\ cfg.emergencyPaths # {}
       /\ cfg.emergencyRole \in OperatorRoles

(* What LoadFromEnv checks of the tokens.  It runs again at every start. *)
Accepted(cfg, time) ==
  /\ cfg.ingest # NoToken
  /\ cfg.admin # NoToken \/ cfg.oidc
  /\ cfg.ingest # cfg.admin
  /\ cfg.compat /\ cfg.oidc => cfg.admin # NoToken
  /\ cfg.emergency =>
       /\ cfg.oidc
       /\ cfg.emergencyToken \notin {NoToken, cfg.ingest, cfg.admin}
       /\ cfg.emergencyUntil > time
       /\ cfg.emergencyPaths # {}
       /\ cfg.emergencyRole \in OperatorRoles

AccessInit ==
  /\ CacheInit
  /\ config \in {cfg \in Configs : Accepted(cfg, 0)}
  /\ server = "up"
  /\ req = [c \in Callers |-> NoRequest]
  /\ owed = 0

-----------------------------------------------------------------------------
(* authorize *)

ForOperators(r) == r.route # "ingest"

(* isJWT is asked before the token is compared with the configured ones. *)
TakenForJWT(r) == ForOperators(r) /\ config.oidc /\ r.token \in JWTs

GrantsService(r) == ~ForOperators(r) /\ r.token = config.ingest

MeansBreakGlass(r) ==
  /\ ForOperators(r) /\ config.oidc /\ r.token \notin JWTs
  /\ config.emergency /\ r.token = config.emergencyToken

(* Mutant: the last moment does not count. *)
BreakGlassAllowedBefore(r) ==
  /\ now < config.emergencyUntil
  /\ r.route \in config.emergencyPaths
  /\ config.emergencyRole \in AllowedRoles(r.route)

BreakGlassAllowed(r) ==
  /\ now =< config.emergencyUntil
  /\ r.route \in config.emergencyPaths
  /\ config.emergencyRole \in AllowedRoles(r.route)

(* With OIDC the legacy token counts in compatibility mode only. *)
GrantsLegacy(r) ==
  /\ ForOperators(r)
  /\ config.oidc => r.token \notin JWTs /\ config.compat
  /\ ~MeansBreakGlass(r)
  /\ config.admin # NoToken /\ r.token = config.admin
  /\ "admin" \in AllowedRoles(r.route)

(* Validate and the role check, with the key that the lookup returned. *)
GrantsOIDC(r, key) ==
  LET says == Jwt[r.token]
  IN  /\ key = says.signer
      /\ says.issued
      /\ now =< says.until + config.skew
      /\ now + config.skew >= says.from
      /\ says.subject
      /\ says.roles \cap AllowedRoles(r.route) # {}

Granted(r, principal) == [r EXCEPT !.pc = "serve", !.principal = principal]

-----------------------------------------------------------------------------
Receive(c, offer) ==
  /\ server = "up"
  /\ req[c].pc = "idle"
  /\ req' = [req EXCEPT ![c] = [NoRequest EXCEPT
               !.pc = IF offer.route = "health" THEN "serve" ELSE "authorize",
               !.route = offer.route, !.token = offer.token]]
  /\ UNCHANGED <<cacheVars, config, server, owed>>

(* A token that needs neither the key set nor the database. *)
AuthorizeAtOnce(c) ==
  LET r == req[c]
  IN  /\ r.pc = "authorize"
      /\ r.token = NoToken \/ ~TakenForJWT(r)
      /\ ~(MeansBreakGlass(r) /\ BreakGlassAllowed(r))
      /\ req' = [req EXCEPT ![c] =
                   IF GrantsService(r) THEN Granted(r, "service")
                   ELSE IF GrantsLegacy(r) THEN Granted(r, "legacy")
                   ELSE NoRequest]
      /\ UNCHANGED <<cacheVars, config, server, owed>>

RefuseUnreadable(c) ==
  /\ req[c].pc = "authorize"
  /\ TakenForJWT(req[c]) /\ ~Jwt[req[c].token].readable
  /\ req' = [req EXCEPT ![c] = NoRequest]
  /\ UNCHANGED <<cacheVars, config, server, owed>>

LookUpKey(c) ==
  /\ req[c].pc = "authorize"
  /\ TakenForJWT(req[c]) /\ Jwt[req[c].token].readable
  /\ Ask(c, Jwt[req[c].token].kid)
  /\ req' = [req EXCEPT ![c].pc = "lookup"]
  /\ UNCHANGED <<config, server, owed>>

FinishValidation(c) ==
  /\ req[c].pc = "lookup"
  /\ TakeKey(c)
  /\ req' = [req EXCEPT ![c] =
               IF lookup[c].pc = "found" /\ GrantsOIDC(@, lookup[c].key)
                 THEN Granted(@, "oidc") ELSE NoRequest]
  /\ UNCHANGED <<config, server, owed>>

AllowBreakGlass(c) ==
  /\ req[c].pc = "authorize"
  /\ MeansBreakGlass(req[c]) /\ BreakGlassAllowed(req[c])
  /\ req' = [req EXCEPT ![c].pc = "emergency"]
  /\ UNCHANGED <<cacheVars, config, server, owed>>

(* Mutant: a failing write is only logged, as that of a read is. *)
AuditBreakGlassLogged(c) ==
  /\ req[c].pc = "emergency"
  /\ \E written \in BOOLEAN :
       req' = [req EXCEPT ![c] = [Granted(@, "break-glass") EXCEPT !.audited = written]]
  /\ UNCHANGED <<cacheVars, config, server, owed>>

(* The row is written before the request goes on, and without it there is no *)
(* access.  A call to the database may fail at any time, also because the    *)
(* client has gone and with it the context of the request.                   *)
AuditBreakGlass(c) ==
  /\ req[c].pc = "emergency"
  /\ \E written \in BOOLEAN :
       req' = [req EXCEPT ![c] =
                 IF written THEN [Granted(@, "break-glass") EXCEPT !.audited = TRUE]
                 ELSE NoRequest]
  /\ UNCHANGED <<cacheVars, config, server, owed>>

(* The handler runs and writes its answer; bad input and failing calls give *)
(* an error.  An analysis that succeeds leaves its audit row to a goroutine *)
(* of its own.                                                              *)
Serve(c) ==
  /\ req[c].pc = "serve"
  /\ req' = [req EXCEPT ![c] = IF @.route \in AuditedReads
                                 THEN [@ EXCEPT !.pc = "audit", !.token = NoToken]
                                 ELSE NoRequest]
  /\ \E ok \in BOOLEAN :
       IF ok /\ req[c].route = "analyze"
         THEN owed < MaxOwed /\ owed' = owed + 1
         ELSE UNCHANGED owed
  /\ UNCHANGED <<cacheVars, config, server>>

(* The audit row of a read is written with the context of the request, after *)
(* the answer; a failure is only logged.                                     *)
AuditRead(c) ==
  /\ req[c].pc = "audit"
  /\ req' = [req EXCEPT ![c] = NoRequest]
  /\ UNCHANGED <<cacheVars, config, server, owed>>

AuditDetached ==
  /\ owed > 0
  /\ owed' = owed - 1
  /\ UNCHANGED <<cacheVars, config, server, req>>

LookupOfRequest(c) ==
  /\ LookupStep(c)
  /\ UNCHANGED accessVars

-----------------------------------------------------------------------------
(* The process *)

(* What the process held is gone, the requests it was working on included. *)
End ==
  /\ server' = "down"
  /\ req' = [c \in Callers |-> NoRequest]
  /\ lookup' = [c \in Callers |-> NoLookup(lookup[c].kid)]
  /\ keys' = NoKeys
  /\ loadedAt' = Never
  /\ owed' = 0
  /\ UNCHANGED <<now, published, changedAt, config>>

(* SIGTERM: Shutdown accepts no connection any more and waits for the        *)
(* requests under way, but for no goroutine.                                 *)
Exit == server = "up" /\ (\A c \in Callers : req[c].pc = "idle") /\ End

(* The process is killed, or the ten seconds of Shutdown are not enough. *)
Crash == Crashes /\ server = "up" /\ End

(* The configuration is checked anew, against the time of the start. *)
Restart ==
  /\ server = "down"
  /\ Accepted(config, now)
  /\ server' = "up"
  /\ UNCHANGED <<cacheVars, config, req, owed>>

Environment ==
  /\ config.oidc
  /\ (\E kid \in Kids, key \in Keys \cup {NoKey} : Rotate(kid, key)) \/ Tick
  /\ UNCHANGED accessVars

RequestStep(c) ==
  \/ AuthorizeAtOnce(c)
  \/ RefuseUnreadable(c)
  \/ LookUpKey(c)
  \/ FinishValidation(c)
  \/ AllowBreakGlass(c)
  \/ AuditBreakGlass(c)
  \/ Serve(c)
  \/ AuditRead(c)
  \/ LookupOfRequest(c)

Next ==
  \/ \E c \in Callers : RequestStep(c)
  \/ \E c \in Callers : \E offer \in Offers[c] : Receive(c, offer)
  \/ AuditDetached
  \/ Exit \/ Crash \/ Restart
  \/ Environment

Spec == AccessInit /\ [][Next]_vars

(* Goroutines go on when they can, a sync.Mutex is handed to the one that has *)
(* waited longest, and a fetch ends: the client gives up after five seconds.  *)
TakesMutex(c) == (AnswerFromCache(c) \/ StartFetch(c)) /\ UNCHANGED accessVars

WorksOn(c) ==
  \/ AuthorizeAtOnce(c) \/ RefuseUnreadable(c) \/ LookUpKey(c) \/ FinishValidation(c)
  \/ AllowBreakGlass(c) \/ AuditBreakGlass(c) \/ Serve(c) \/ AuditRead(c)
  \/ (EndFetch(c) \/ FetchFails(c)) /\ UNCHANGED accessVars

FairSpec == Spec /\ \A c \in Callers : WF_vars(WorksOn(c)) /\ SF_vars(TakesMutex(c))

-----------------------------------------------------------------------------
AccessTypeOK ==
  /\ CacheTypeOK
  /\ config \in Configs
  /\ server \in {"up", "down"}
  /\ req \in [Callers -> Requests]
  /\ owed \in 0 .. MaxOwed
  /\ \A c \in Callers : req[c].pc = "lookup" <=> lookup[c].pc # "idle"

(* No handler runs on a break-glass token before the audit row of that very  *)
(* request has been written, whatever the database answers.                  *)
BreakGlassIsAudited ==
  \A c \in Callers :
    req[c].principal = "break-glass" => req[c].audited

(* A break-glass token that is not taken for a JWT and is valid for the route *)
(* gets to its audit row: no outage of the identity provider, and no fetch    *)
(* that hangs with the mutex held, ends or delays such a request before.      *)
BreakGlassNeedsNoProvider ==
  [][\A c \in Callers :
          /\ MeansBreakGlass(req[c])
          /\ req[c].route \in config.emergencyPaths
          /\ config.emergencyRole \in AllowedRoles(req[c].route)
          /\ now =< config.emergencyUntil
          /\ req[c].pc \in {"authorize", "lookup"} /\ req'[c] # req[c]
       => req'[c].pc = "emergency" \/ server' = "down"]_vars

(* The token of the telemetry producers opens no operator route and no other *)
(* token opens the ingest routes, with every configuration that is accepted. *)
ServiceTokensStayApart ==
  \A c \in Callers :
    req[c].pc = "serve" /\ req[c].route # "health" =>
      (req[c].token = config.ingest <=> req[c].route = "ingest")

(* Every successful analysis leaves an audit row (openspec/specs/ops-api-    *)
(* security-analysis/spec.md): no process ends with its write under way.     *)
AnalysesAreAudited == [][server' = "down" => owed = 0]_vars

(* Every request is answered, unless its process ends: the callers that wait *)
(* for the mutex of the key cache get it, also while fetches fail.           *)
EveryRequestIsAnswered ==
  \A c \in Callers : req[c].pc = "authorize" ~> req[c].pc = "idle"
=============================================================================
