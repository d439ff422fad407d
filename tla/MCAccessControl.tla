--------------------------- MODULE MCAccessControl ---------------------------
(* An instance of AccessControl for TLC. *)
EXTENDS AccessControl

CONSTANTS operator, colleague, kid, oldKey, newKey,
          adminToken, ingestToken, glassToken, dottedToken,
          viewerJwt, adminJwt

MCKids == {kid}
MCKeys == {oldKey, newKey}
MCJWTs == {viewerJwt, adminJwt, dottedToken}
MCTokens == {adminToken, ingestToken, glassToken} \cup MCJWTs

(* A viewer's token that expires, an administrator's that does not yet hold  *)
(* and has no expiry, and a service token that has two dots by chance.       *)
MCJwt ==
  LET jwt(signer, issued, from, until, role) ==
        [readable |-> TRUE, kid |-> kid, signer |-> signer, issued |-> issued,
         from |-> from, until |-> until, subject |-> TRUE, roles |-> {role}]
  IN  [t \in MCJWTs |->
         CASE t = viewerJwt -> jwt(oldKey, TRUE, 0, 1, "viewer")
           [] t = adminJwt -> jwt(newKey, TRUE, 1, MaxTime, "admin")
           [] OTHER -> [jwt(oldKey, FALSE, 0, 0, "viewer") EXCEPT !.readable = FALSE]]

WithOIDC ==
  [oidc |-> TRUE, skew |-> 1, admin |-> adminToken, ingest |-> ingestToken,
   compat |-> FALSE, emergency |-> TRUE, emergencyToken |-> glassToken,
   emergencyUntil |-> 2, emergencyPaths |-> {"metrics", "findings"},
   emergencyRole |-> "auditor"]

Legacy == [WithOIDC EXCEPT !.oidc = FALSE, !.compat = TRUE, !.emergency = FALSE]

(* The last five are refused at the start. *)
MCConfigs ==
  {WithOIDC, Legacy,
   [WithOIDC EXCEPT !.emergencyToken = ingestToken],
   [WithOIDC EXCEPT !.emergencyToken = adminToken],
   [WithOIDC EXCEPT !.oidc = FALSE],
   [Legacy EXCEPT !.ingest = adminToken],
   [Legacy EXCEPT !.admin = NoToken]}

MCCallers == {operator, colleague}
MCOffers ==
  [c \in MCCallers |->
     IF c = colleague THEN {[route |-> "findings", token |-> adminJwt]}
     ELSE {[route |-> "reads", token |-> viewerJwt],
           [route |-> "findings", token |-> glassToken],
           [route |-> "analyze", token |-> adminToken],
           [route |-> "metrics", token |-> ingestToken],
           [route |-> "ingest", token |-> ingestToken],
           [route |-> "findings", token |-> dottedToken],
           [route |-> "health", token |-> NoToken]}]
=============================================================================
