---------------------------- MODULE SecurityRules ----------------------------
(***************************************************************************)
(* The rules of the tfvars analysis (internal/security).  A tfvars object  *)
(* is a function on the fields that it sets; a field with a value of the   *)
(* wrong type counts as unset.  A secret reference is "pinned", "unpinned" *)
(* or other "text", a port is its "default" or "other", and of the source  *)
(* ranges the set of their CIDRs matters.                                  *)
(***************************************************************************)
EXTENDS Integers, Sequences

SecretFields ==
  {"wgeasy_password_secret", "wgeasy_password_hash_secret",
   "openclaw_gateway_password_secret", "openclaw_anthropic_api_key_secret",
   "openclaw_openai_api_key_secret", "openclaw_telegram_bot_token_secret"}

PortFields == {"openclaw_gateway_port", "wg_port", "wgeasy_ui_port"}

WorldCIDRs == {"0.0.0.0/0", "::/0"}

Has(tfvars, field, value) == field \in DOMAIN tfvars /\ tfvars[field] = value

(* What identifies a finding: its fingerprint is a hash of these three. *)
Finding(rule, field, key) == [rule |-> rule, field |-> field, key |-> key]

-----------------------------------------------------------------------------
PublicIP(tfvars) ==
  {Finding("openclaw-public-ip-enabled", f, "public-ip-enabled") :
     f \in {g \in {"openclaw_enable_public_ip"} : Has(tfvars, g, TRUE)}}

ExposedCIDR(rule, field, tfvars) ==
  {Finding(rule, field, cidr) :
     cidr \in IF field \in DOMAIN tfvars THEN tfvars[field] \cap WorldCIDRs ELSE {}}

(* An unset field is not reported. *)
OsLoginDisabled(tfvars) ==
  {Finding("project-oslogin-disabled", f, "oslogin-disabled") :
     f \in {g \in {"enable_project_oslogin"} : Has(tfvars, g, FALSE)}}

PlaintextSecret(tfvars) ==
  {Finding("wgeasy-password-secret-used", f, "plaintext-secret-used") :
     f \in {g \in {"wgeasy_password_secret"} \cap DOMAIN tfvars : tfvars[g] # ""}}

UnpinnedSecret(tfvars) ==
  {Finding("secret-reference-not-version-pinned", f, f) :
     f \in {g \in SecretFields : Has(tfvars, g, "unpinned")}}

DefaultPort(tfvars) ==
  {Finding("default-management-port-retained", f, f) :
     f \in {g \in PortFields : Has(tfvars, g, "default")}}

Matches(tfvars) ==
  UNION {PublicIP(tfvars),
         ExposedCIDR("wgeasy-ui-exposed-to-world", "ui_source_ranges", tfvars),
         ExposedCIDR("ssh-exposed-to-world", "ssh_source_ranges", tfvars),
         OsLoginDisabled(tfvars), PlaintextSecret(tfvars),
         UnpinnedSecret(tfvars), DefaultPort(tfvars)}

-----------------------------------------------------------------------------
SeverityRank(rule) ==
  CASE rule = "openclaw-public-ip-enabled" -> 0
    [] rule \in {"wgeasy-ui-exposed-to-world", "ssh-exposed-to-world"} -> 1
    [] rule \in {"project-oslogin-disabled", "wgeasy-password-secret-used"} -> 2
    [] OTHER -> 3

(* The names in the order of their bytes; the order of two hashes is fixed   *)
(* but arbitrary.                                                            *)
Names ==
  <<"0.0.0.0/0", "::/0", "default-management-port-retained", "enable_project_oslogin",
    "openclaw-public-ip-enabled", "openclaw_anthropic_api_key_secret",
    "openclaw_enable_public_ip", "openclaw_gateway_password_secret",
    "openclaw_gateway_port", "openclaw_openai_api_key_secret",
    "openclaw_telegram_bot_token_secret", "oslogin-disabled",
    "plaintext-secret-used", "project-oslogin-disabled", "public-ip-enabled",
    "secret-reference-not-version-pinned", "ssh-exposed-to-world",
    "ssh_source_ranges", "ui_source_ranges", "wg_port", "wgeasy-password-secret-used",
    "wgeasy-ui-exposed-to-world", "wgeasy_password_hash_secret",
    "wgeasy_password_secret", "wgeasy_ui_port">>

Place(name) == CHOOSE i \in 1 .. Len(Names) : Names[i] = name

(* The order in which an analysis writes its findings. *)
Precedes(a, b) ==
  \/ SeverityRank(a.rule) < SeverityRank(b.rule)
  \/ /\ SeverityRank(a.rule) = SeverityRank(b.rule)
     /\ \/ Place(a.rule) < Place(b.rule)
        \/ /\ a.rule = b.rule
           /\ \/ Place(a.field) < Place(b.field)
              \/ a.field = b.field /\ Place(a.key) < Place(b.key)
=============================================================================
