---------------------------- MODULE FindingProofs ----------------------------
(***************************************************************************)
(* Theorems about SecurityFindings, for every set of analysts and of       *)
(* tfvars.                                                                 *)
(***************************************************************************)
EXTENDS SecurityFindings, FiniteSetTheorems, TLAPS

(* A row that an analysis has written and not committed is written by no    *)
(* other, and is still the upsert of the row that was committed last.       *)
LocksHold ==
  \A a \in Analysts, f \in AllFindings :
    analysis[a].written[f] # Absent =>
      /\ analysis[a].written[f] = Upserted(findings[f], analysis[a].started)
      /\ \A b \in Analysts : analysis[b].written[f] # Absent => b = a

(* The inductive invariant. *)
FindingsInv == FindingsTypeOK /\ LocksHold

-----------------------------------------------------------------------------
(* An analysis that has written nothing is typed. *)
LEMMA NoAnalysisTypes ==
  /\ NoAnalysis \in Analyses
  /\ \A f \in AllFindings : NoAnalysis.written[f] = Absent
  <1>1. 0 \in Minutes /\ NothingWritten \in [AllFindings -> FindingRows \cup {Absent}]
    BY MinuteAssumption DEF Minutes, NothingWritten
  <1> QED BY <1>1 DEF NoAnalysis, Analyses, NothingWritten

(* So is the state of a client that is not reading. *)
LEMMA NoReaderTypes == NoReader \in Readers
  BY DEF NoReader, Readers, Orders

(* There is nothing in the table at the start. *)
LEMMA FindingsInvInit == FindingsInit => FindingsInv
  <1> SUFFICES ASSUME FindingsInit PROVE FindingsInv
    OBVIOUS
  <1>1. FindingsTypeOK
    BY NoAnalysisTypes, NoReaderTypes, MinuteAssumption
       DEF FindingsInit, FindingsTypeOK, Minutes
  <1>2. LocksHold
    BY NoAnalysisTypes DEF FindingsInit, LocksHold
  <1> QED BY <1>1, <1>2 DEF FindingsInv

(* An upsert makes a row. *)
LEMMA UpsertedTypes ==
  ASSUME NEW row \in FindingRows \cup {Absent}, NEW time \in Minutes
  PROVE  Upserted(row, time) \in FindingRows
  <1>1. CASE row = Absent
    BY <1>1 DEF Upserted, FindingRows, Statuses
  <1>2. CASE row # Absent
    BY <1>2 DEF Upserted, FindingRows, Statuses
  <1> QED BY <1>1, <1>2

(* What a client notices keeps its state typed. *)
LEMMA NoticedTypes ==
  ASSUME FindingsTypeOK, NEW new
  PROVE  Noticed(new) \in Readers
  <1>1. reader \in Readers
    BY DEF FindingsTypeOK
  <1> DEFINE touched == {f \in AllFindings : new[f] # findings[f]}
             back == \E f \in touched \ {g \in AllFindings : findings[g] = Absent} :
                       new[f].last < findings[f].last
             noticed == [reader EXCEPT
                           !.untouched = @ \ touched,
                           !.changed = @ \/ touched \cap Passed # {},
                           !.rewound = @ \/ back]
  <1>2. noticed \in Readers
    <2>1. /\ (reader.changed \/ touched \cap Passed # {}) \in BOOLEAN
          /\ (reader.rewound \/ back) \in BOOLEAN
      OBVIOUS
    <2>2. reader.untouched \ touched \in SUBSET AllFindings
      BY <1>1 DEF Readers
    <2> HIDE DEF touched, back
    <2> QED BY <1>1, <2>1, <2>2 DEF Readers
  <1>3. Noticed(new) = IF reader.pc # "reading" THEN reader ELSE noticed
    BY DEF Noticed
  <1> HIDE DEF noticed
  <1> QED BY <1>1, <1>2, <1>3

(* A step of an analyst that leaves the table alone only affects its own     *)
(* writes.                                                                   *)
LEMMA AnalysisStep ==
  ASSUME FindingsInv, NEW a \in Analysts, NEW new \in Analyses,
         analysis' = [analysis EXCEPT ![a] = new],
         UNCHANGED <<minute, findings, reader, serial>>,
         \A f \in AllFindings : new.written[f] # Absent =>
           /\ new.written[f] = Upserted(findings[f], new.started)
           /\ \A b \in Analysts \ {a} : analysis[b].written[f] = Absent
  PROVE  FindingsInv'
  <1>1. FindingsTypeOK /\ LocksHold
    BY DEF FindingsInv
  <1>2. \A b \in Analysts : analysis'[b] = IF b = a THEN new ELSE analysis[b]
    BY <1>1 DEF FindingsTypeOK
  <1>3. FindingsTypeOK'
    BY <1>1 DEF FindingsTypeOK
  <1>4. LocksHold'
    <2> SUFFICES ASSUME NEW b \in Analysts, NEW f \in AllFindings,
                        analysis'[b].written[f] # Absent
                 PROVE  /\ analysis'[b].written[f] = Upserted(findings[f], analysis'[b].started)
                        /\ \A c \in Analysts : analysis'[c].written[f] # Absent => c = b
      BY DEF LocksHold
    <2>1. CASE b = a
      BY <1>2, <2>1
    <2>2. CASE b # a
      BY <1>1, <1>2, <2>2 DEF LocksHold
    <2> QED BY <2>1, <2>2
  <1> QED BY <1>3, <1>4 DEF FindingsInv

-----------------------------------------------------------------------------
(* What each step does to the table, seen from outside. *)

(* A commit applies all that the analysis has found, to the rows as they are *)
(* at that moment.                                                           *)
LEMMA CommitOK ==
  ASSUME FindingsInv, NEW a \in Analysts, CommitAnalysis(a)
  PROVE  FindingsInv' /\ Store!StoreNext
  <1> DEFINE found == {f \in AllFindings : analysis[a].written[f] # Absent}
             time == analysis[a].started
             new == [f \in AllFindings |-> IF analysis[a].written[f] = Absent
                                           THEN findings[f] ELSE analysis[a].written[f]]
  <1>1. FindingsTypeOK /\ LocksHold
    BY DEF FindingsInv
  <1>2. analysis[a] \in Analyses /\ time \in Minutes
    BY <1>1 DEF FindingsTypeOK, Analyses
  <1>3. /\ findings' = new /\ reader' = Noticed(new) /\ minute' = minute /\ serial' = serial
        /\ analysis' = [analysis EXCEPT ![a] = NoAnalysis]
    BY DEF CommitAnalysis
  <1>4. new \in [AllFindings -> FindingRows \cup {Absent}]
    <2>1. \A f \in AllFindings : /\ analysis[a].written[f] \in FindingRows \cup {Absent}
                                 /\ findings[f] \in FindingRows \cup {Absent}
      BY <1>1, <1>2 DEF FindingsTypeOK, Analyses
    <2> QED BY <2>1
  <1>5. FindingsTypeOK'
    <2>1. Noticed(new) \in Readers
      BY <1>1, NoticedTypes
    <2> HIDE DEF new
    <2> QED BY <1>1, <1>3, <1>4, <2>1, NoAnalysisTypes DEF FindingsTypeOK
  <1>6. LocksHold'
    <2> SUFFICES ASSUME NEW b \in Analysts, NEW f \in AllFindings,
                        analysis'[b].written[f] # Absent
                 PROVE  /\ analysis'[b].written[f] = Upserted(findings'[f], analysis'[b].started)
                        /\ \A c \in Analysts : analysis'[c].written[f] # Absent => c = b
      BY DEF LocksHold
    <2>1. \A c \in Analysts : analysis'[c] = IF c = a THEN NoAnalysis ELSE analysis[c]
      BY <1>1, <1>3 DEF FindingsTypeOK
    <2>2. b # a /\ analysis'[b] = analysis[b]
      BY <2>1, NoAnalysisTypes
    <2>3. analysis[a].written[f] = Absent
      BY <1>1, <2>2 DEF LocksHold
    <2>4. findings'[f] = findings[f]
      BY <1>3, <2>3
    <2>5. Upserted(findings'[f], analysis'[b].started) = Upserted(findings[f], analysis[b].started)
      BY <2>2, <2>4
    <2>6. \A c \in Analysts : analysis'[c].written[f] # Absent => analysis[c].written[f] # Absent
      BY <2>1, NoAnalysisTypes
    <2> QED BY <1>1, <2>2, <2>5, <2>6 DEF LocksHold
  <1>7. Store!Analysis(found, time)
    <2>1. ASSUME NEW f \in found PROVE new[f] = Store!Detected(findings[f], time)
      <3>1. analysis[a].written[f] = Upserted(findings[f], time) /\ new[f] = analysis[a].written[f]
        BY <1>1, <2>1 DEF LocksHold
      <3>2. findings[f] \in FindingRows \cup {Absent}
        BY <1>1, <2>1 DEF FindingsTypeOK
      <3>3. CASE findings[f] = Absent
        BY <3>1, <3>3 DEF Upserted, Store!Detected
      <3>4. CASE findings[f] # Absent
        BY <3>1, <3>2, <3>4 DEF Upserted, Store!Detected, FindingRows
      <3> QED BY <3>3, <3>4
    <2>2. ASSUME NEW f \in AllFindings \ found PROVE new[f] = findings[f]
      BY <2>2
    <2> HIDE DEF new, found, time
    <2>3. new = [f \in AllFindings |-> IF f \in found THEN Store!Detected(findings[f], time)
                                       ELSE findings[f]]
      BY <1>4, <2>1, <2>2
    <2> QED BY <1>3, <2>3 DEF Store!Analysis
  <1> HIDE DEF new, time
  <1> QED BY <1>2, <1>5, <1>6, <1>7 DEF FindingsInv, Store!StoreNext

(* An operator changes the status of a row that no analysis has written. *)
LEMMA TriageOK ==
  ASSUME FindingsInv, NEW f \in AllFindings, NEW status \in Statuses \ {"open"},
         TriageFinding(f, status)
  PROVE  FindingsInv' /\ Store!StoreNext
  <1> DEFINE new == [findings EXCEPT ![f].status = status]
  <1>1. FindingsTypeOK /\ LocksHold
    BY DEF FindingsInv
  <1>2. /\ findings' = new /\ reader' = Noticed(new) /\ UNCHANGED <<minute, analysis, serial>>
        /\ findings[f] # Absent /\ \A a \in Analysts : analysis[a].written[f] = Absent
    BY DEF TriageFinding, Lockers
  <1>3. new \in [AllFindings -> FindingRows \cup {Absent}]
    <2>1. findings[f] \in FindingRows
      BY <1>1, <1>2 DEF FindingsTypeOK
    <2>2. [findings[f] EXCEPT !.status = status] \in FindingRows
      BY <2>1 DEF FindingRows
    <2> QED BY <1>1, <2>2 DEF FindingsTypeOK
  <1>4. FindingsTypeOK'
    <2>1. Noticed(new) \in Readers
      BY <1>1, NoticedTypes
    <2> HIDE DEF new
    <2> QED BY <1>1, <1>2, <1>3, <2>1 DEF FindingsTypeOK
  <1>5. LocksHold'
    <2> SUFFICES ASSUME NEW a \in Analysts, NEW g \in AllFindings,
                        analysis[a].written[g] # Absent
                 PROVE  /\ analysis[a].written[g] = Upserted(findings'[g], analysis[a].started)
                        /\ \A b \in Analysts : analysis[b].written[g] # Absent => b = a
      BY <1>2 DEF LocksHold
    <2>1. g # f
      BY <1>2
    <2>2. findings'[g] = findings[g]
      BY <1>1, <1>2, <2>1 DEF FindingsTypeOK
    <2>3. Upserted(findings'[g], analysis[a].started) = Upserted(findings[g], analysis[a].started)
      BY <2>2
    <2> QED BY <1>1, <2>3 DEF LocksHold
  <1>6. Store!Triage(f, status)
    BY <1>2 DEF Store!Triage, Store!Statuses, Statuses
  <1> QED BY <1>4, <1>5, <1>6 DEF FindingsInv, Store!StoreNext, Store!Statuses, Statuses

(* All other steps leave the table alone. *)
LEMMA OtherSteps ==
  ASSUME FindingsInv,
         \/ \E a \in Analysts, tfvars \in Inputs : Analyze(a, tfvars)
         \/ \E a \in Analysts : UpsertFinding(a) \/ RollbackAnalysis(a)
         \/ \E read \in Reads : ReadFirst(read.order, read.filter)
         \/ ReadPage \/ EndRead \/ PassMinute \/ UNCHANGED findingVars
  PROVE  FindingsInv' /\ findings' = findings
  <1>1. FindingsTypeOK /\ LocksHold
    BY DEF FindingsInv
  <1>2. ASSUME NEW a \in Analysts, NEW tfvars \in Inputs, Analyze(a, tfvars)
        PROVE  FindingsInv' /\ findings' = findings
    <2> DEFINE new == [NoAnalysis EXCEPT !.pc = "write", !.started = minute,
                                         !.todo = Matches(tfvars)]
    <2>1. Matches(tfvars) \subseteq AllFindings /\ minute \in Minutes
      BY <1>1 DEF AllFindings, FindingsTypeOK
    <2>2. new \in Analyses /\ new.written = NoAnalysis.written
      BY <2>1, NoAnalysisTypes DEF Analyses
    <2>3. analysis' = [analysis EXCEPT ![a] = new] /\ UNCHANGED <<minute, findings, reader, serial>>
      BY <1>2 DEF Analyze
    <2>4. \A f \in AllFindings : new.written[f] = Absent
      BY <2>2, NoAnalysisTypes
    <2> HIDE DEF new
    <2> QED BY <2>2, <2>3, <2>4, AnalysisStep
  <1>3. ASSUME NEW a \in Analysts, UpsertFinding(a)
        PROVE  FindingsInv' /\ findings' = findings
    <2>1. PICK f \in NextFinding(a) :
            /\ Lockers(f) \ {a} = {}
            /\ analysis' = [analysis EXCEPT ![a] =
                 [analysis[a] EXCEPT
                    !.todo = @ \ {f},
                    !.written = [analysis[a].written EXCEPT
                                   ![f] = Upserted(findings[f], analysis[a].started)]]]
            /\ UNCHANGED <<minute, findings, reader, serial>>
      BY <1>3 DEF UpsertFinding
    <2>2. analysis[a] \in Analyses /\ analysis[a].started \in Minutes
      BY <1>1 DEF FindingsTypeOK, Analyses
    <2>3. f \in AllFindings
      BY <2>2 DEF NextFinding, Analyses
    <2> DEFINE row == Upserted(findings[f], analysis[a].started)
               new == [analysis[a] EXCEPT !.todo = @ \ {f},
                         !.written = [analysis[a].written EXCEPT ![f] = row]]
    <2>4. row \in FindingRows
      BY <1>1, <2>2, <2>3, UpsertedTypes DEF FindingsTypeOK
    <2>5. analysis' = [analysis EXCEPT ![a] = new]
      BY <2>1
    <2>6. [analysis[a].written EXCEPT ![f] = row] \in [AllFindings -> FindingRows \cup {Absent}]
      BY <2>2, <2>4 DEF Analyses
    <2>7. /\ new \in Analyses /\ new.started = analysis[a].started
          /\ new.written = [analysis[a].written EXCEPT ![f] = row]
      BY <2>2, <2>6 DEF Analyses
    <2>8. ASSUME NEW g \in AllFindings, new.written[g] # Absent
          PROVE  /\ new.written[g] = Upserted(findings[g], new.started)
                 /\ \A b \in Analysts \ {a} : analysis[b].written[g] = Absent
      <3>1. analysis[a].written \in [AllFindings -> FindingRows \cup {Absent}]
        BY <2>2 DEF Analyses
      <3>2. CASE g = f
        BY <2>1, <2>3, <2>7, <3>1, <3>2 DEF Lockers
      <3>3. CASE g # f
        <4>1. new.written[g] = analysis[a].written[g]
          BY <2>7, <3>1, <3>3
        <4> QED BY <1>1, <2>7, <2>8, <4>1 DEF LocksHold
      <3> QED BY <3>2, <3>3
    <2> HIDE DEF new
    <2> QED BY <2>1, <2>5, <2>7, <2>8, AnalysisStep
  <1>4. ASSUME NEW a \in Analysts, RollbackAnalysis(a)
        PROVE  FindingsInv' /\ findings' = findings
    BY <1>4, NoAnalysisTypes, AnalysisStep DEF RollbackAnalysis
  <1>5. ASSUME reader' \in Readers, minute' \in Minutes, UNCHANGED <<findings, analysis, serial>>
        PROVE  FindingsInv'
    BY <1>1, <1>5 DEF FindingsInv, FindingsTypeOK, LocksHold
  <1>6. reader \in Readers /\ minute \in Minutes
    BY <1>1 DEF FindingsTypeOK
  <1>7. ASSUME NEW read \in Reads, ReadFirst(read.order, read.filter)
        PROVE  FindingsInv' /\ findings' = findings
    <2>1. read.order \in Orders /\ read.filter \in SUBSET Statuses
      BY ReadsAssumption
    <2>2. reader' \in Readers
      <3> DEFINE listed == {f \in AllFindings : findings[f] # Absent
                                                   /\ findings[f].status \in read.filter}
      <3>1. listed \in SUBSET AllFindings
        OBVIOUS
      <3>2. reader' = [NoReader EXCEPT !.pc = "reading", !.order = read.order,
                                       !.filter = read.filter, !.untouched = listed]
        BY <1>7 DEF ReadFirst
      <3> HIDE DEF listed
      <3> QED BY <2>1, <3>1, <3>2, NoReaderTypes DEF Readers
    <2> QED BY <1>5, <1>6, <1>7, <2>2 DEF ReadFirst
  <1>8. CASE ReadPage
    <2>1. Page \subseteq AllFindings
      BY DEF Page, Listed
    <2>2. reader' \in Readers
      <3>1. PICK pc \in {"reading", "done"} :
              reader' = [reader EXCEPT !.seen = @ \cup Page, !.page = @ + 1, !.pc = pc]
        BY <1>8 DEF ReadPage
      <3>2. reader.page + 1 \in Nat /\ reader.seen \cup Page \in SUBSET AllFindings
        BY <1>6, <2>1 DEF Readers
      <3> QED BY <1>6, <3>1, <3>2 DEF Readers
    <2> QED BY <1>5, <1>6, <1>8, <2>2 DEF ReadPage
  <1>9. CASE EndRead
    BY <1>5, <1>6, <1>9, NoReaderTypes DEF EndRead
  <1>10. CASE PassMinute
    <2>1. minute' \in Minutes
      BY <1>6, <1>10, MinuteAssumption DEF PassMinute, Minutes
    <2> QED BY <1>5, <1>6, <1>10, <2>1 DEF PassMinute
  <1>11. CASE UNCHANGED findingVars
    BY <1>5, <1>6, <1>11 DEF findingVars
  <1> QED BY <1>2, <1>3, <1>4, <1>7, <1>8, <1>9, <1>10, <1>11

-----------------------------------------------------------------------------
(* Every step keeps the invariant, and is one of the store or none. *)
LEMMA FindingsStep ==
  FindingsInv /\ [FindingsNext]_findingVars =>
    FindingsInv' /\ [Store!StoreNext]_findings
  BY CommitOK, TriageOK, OtherSteps DEF FindingsNext

(* The inductive invariant holds in every state. *)
THEOREM LocksAreHeld == FindingsSpec => []FindingsInv
  BY FindingsInvInit, FindingsStep, PTL DEF FindingsSpec

(* The variables of the analyses keep their types. *)
THEOREM FindingsTypeCorrect == FindingsSpec => []FindingsTypeOK
  <1>1. FindingsInv => FindingsTypeOK
    BY DEF FindingsInv
  <1> QED BY <1>1, LocksAreHeld, PTL

(* Overlapping transactions of UpsertSecurityFindings have the effect of one *)
(* after the other.                                                          *)
THEOREM AnalysesAreSerializable == FindingsSpec => ImplementsFindingStore
  <1>1. FindingsInit => Store!StoreInit
    BY DEF FindingsInit, Store!StoreInit
  <1> QED BY <1>1, FindingsStep, LocksAreHeld, PTL
          DEF FindingsSpec, ImplementsFindingStore, Store!StoreSpec

-----------------------------------------------------------------------------
(* No deadlock: there are finitely many findings, and they are ordered. *)

AllNames == {Names[i] : i \in 1 .. 25}
Named == [rule : AllNames, field : AllNames, key : AllNames]

(* Every name that a finding can have has its place. *)
LEMMA PlaceBound == \A name \in AllNames : Place(name) \in 1 .. 25
  <1>1. Len(Names) = 25
    BY DEF Names
  <1> SUFFICES ASSUME NEW i \in 1 .. 25 PROVE Place(Names[i]) \in 1 .. 25
    BY DEF AllNames
  <1>2. \E j \in 1 .. 25 : Names[j] = Names[i]
    OBVIOUS
  <1> HIDE DEF Names
  <1> QED BY <1>1, <1>2 DEF Place

(* These are the names that the rules use. *)
LEMMA NamesAreKnown ==
  {"0.0.0.0/0", "::/0", "default-management-port-retained", "enable_project_oslogin",
    "openclaw-public-ip-enabled", "openclaw_anthropic_api_key_secret",
    "openclaw_enable_public_ip", "openclaw_gateway_password_secret",
    "openclaw_gateway_port", "openclaw_openai_api_key_secret",
    "openclaw_telegram_bot_token_secret", "oslogin-disabled",
    "plaintext-secret-used", "project-oslogin-disabled", "public-ip-enabled",
    "secret-reference-not-version-pinned", "ssh-exposed-to-world",
    "ssh_source_ranges", "ui_source_ranges", "wg_port", "wgeasy-password-secret-used",
    "wgeasy-ui-exposed-to-world", "wgeasy_password_hash_secret",
    "wgeasy_password_secret", "wgeasy_ui_port"} \subseteq AllNames
  <1>1. /\ Names[1] = "0.0.0.0/0" /\ Names[2] = "::/0"
        /\ Names[3] = "default-management-port-retained" /\ Names[4] = "enable_project_oslogin"
        /\ Names[5] = "openclaw-public-ip-enabled" /\ Names[6] = "openclaw_anthropic_api_key_secret"
        /\ Names[7] = "openclaw_enable_public_ip" /\ Names[8] = "openclaw_gateway_password_secret"
        /\ Names[9] = "openclaw_gateway_port" /\ Names[10] = "openclaw_openai_api_key_secret"
        /\ Names[11] = "openclaw_telegram_bot_token_secret" /\ Names[12] = "oslogin-disabled"
        /\ Names[13] = "plaintext-secret-used" /\ Names[14] = "project-oslogin-disabled"
        /\ Names[15] = "public-ip-enabled" /\ Names[16] = "secret-reference-not-version-pinned"
        /\ Names[17] = "ssh-exposed-to-world" /\ Names[18] = "ssh_source_ranges"
        /\ Names[19] = "ui_source_ranges" /\ Names[20] = "wg_port"
        /\ Names[21] = "wgeasy-password-secret-used" /\ Names[22] = "wgeasy-ui-exposed-to-world"
        /\ Names[23] = "wgeasy_password_hash_secret" /\ Names[24] = "wgeasy_password_secret"
        /\ Names[25] = "wgeasy_ui_port"
    BY DEF Names
  <1>2. \A i \in 1 .. 25 : Names[i] \in AllNames
    BY DEF AllNames
  <1> HIDE DEF Names
  <1> QED BY <1>1, <1>2

(* Each rule makes its findings of these names. *)
LEMMA FindingsAreNamed == AllFindings \subseteq Named
  <1> SUFFICES ASSUME NEW tfvars \in Inputs, NEW f \in Matches(tfvars) PROVE f \in Named
    BY DEF AllFindings
  <1>1. \A rule, field, key \in AllNames : Finding(rule, field, key) \in Named
    BY DEF Finding, Named
  <1>2. CASE f \in PublicIP(tfvars)
    <2>1. f = Finding("openclaw-public-ip-enabled", "openclaw_enable_public_ip", "public-ip-enabled")
      BY <1>2 DEF PublicIP
    <2> QED BY <1>1, <2>1, NamesAreKnown
  <1>3. CASE f \in OsLoginDisabled(tfvars)
    <2>1. f = Finding("project-oslogin-disabled", "enable_project_oslogin", "oslogin-disabled")
      BY <1>3 DEF OsLoginDisabled
    <2> QED BY <1>1, <2>1, NamesAreKnown
  <1>4. CASE f \in PlaintextSecret(tfvars)
    <2>1. f = Finding("wgeasy-password-secret-used", "wgeasy_password_secret", "plaintext-secret-used")
      BY <1>4 DEF PlaintextSecret
    <2> QED BY <1>1, <2>1, NamesAreKnown
  <1>5. ASSUME NEW rule \in AllNames, NEW field \in AllNames, f \in ExposedCIDR(rule, field, tfvars)
        PROVE  f \in Named
    <2>1. PICK cidr \in WorldCIDRs : f = Finding(rule, field, cidr)
      BY <1>5 DEF ExposedCIDR
    <2> QED BY <1>1, <2>1, NamesAreKnown DEF WorldCIDRs
  <1>6. CASE f \in UnpinnedSecret(tfvars)
    <2>1. PICK g \in SecretFields : f = Finding("secret-reference-not-version-pinned", g, g)
      BY <1>6 DEF UnpinnedSecret
    <2> QED BY <1>1, <2>1, NamesAreKnown DEF SecretFields
  <1>7. CASE f \in DefaultPort(tfvars)
    <2>1. PICK g \in PortFields : f = Finding("default-management-port-retained", g, g)
      BY <1>7 DEF DefaultPort
    <2> QED BY <1>1, <2>1, NamesAreKnown DEF PortFields
  <1> QED BY <1>2, <1>3, <1>4, <1>5, <1>6, <1>7, NamesAreKnown DEF Matches

(* So there are only so many findings, whatever is analysed. *)
LEMMA FindingsAreFinite == IsFiniteSet(AllFindings)
  <1>1. IsFiniteSet(AllNames)
    <2>1. Names \in Surjection(1 .. 25, AllNames)
      <3>1. Names \in [1 .. 25 -> AllNames]
        <4>1. Len(Names) = 25
          BY DEF Names
        <4>2. Names \in Seq(AllNames)
          BY DEF Names, AllNames
        <4> HIDE DEF Names
        <4> QED BY <4>1, <4>2 DEF AllNames
      <3> HIDE DEF Names
      <3> QED BY <3>1 DEF Surjection, AllNames
    <2>2. IsFiniteSet(1 .. 25)
      <3>1. \A n \in Nat : IsFiniteSet(1 .. n)
        BY FS_Interval
      <3> QED BY <3>1
    <2> QED BY <2>1, <2>2, FS_Surjection
  <1> DEFINE Triples == AllNames \X (AllNames \X AllNames)
             finding == [t \in Triples |-> Finding(t[1], t[2][1], t[2][2])]
  <1>2. IsFiniteSet(Triples)
    BY <1>1, FS_Product
  <1>3. finding \in Surjection(Triples, Named)
    <2>1. finding \in [Triples -> Named]
      BY DEF Finding, Named
    <2>2. ASSUME NEW f \in Named PROVE \E t \in Triples : finding[t] = f
      <3>1. <<f.rule, <<f.field, f.key>>>> \in Triples
        BY DEF Named
      <3>2. finding[<<f.rule, <<f.field, f.key>>>>] = f
        BY <3>1 DEF Named, Finding
      <3> QED BY <3>1, <3>2
    <2> QED BY <2>1, <2>2 DEF Surjection
  <1>4. IsFiniteSet(Named)
    BY <1>2, <1>3, FS_Surjection
  <1> QED BY <1>4, FindingsAreNamed, FS_Subset

(* Severities are ranked by numbers. *)
LEMMA RankBound == \A rule : SeverityRank(rule) \in 0 .. 3
  <1> SUFFICES ASSUME NEW rule PROVE SeverityRank(rule) \in 0 .. 3
    OBVIOUS
  <1>1. CASE rule = "openclaw-public-ip-enabled"
    BY <1>1 DEF SeverityRank
  <1>2. CASE rule \in {"wgeasy-ui-exposed-to-world", "ssh-exposed-to-world"}
    BY <1>2 DEF SeverityRank
  <1>3. CASE rule \in {"project-oslogin-disabled", "wgeasy-password-secret-used"}
    BY <1>3 DEF SeverityRank
  <1>4. CASE rule \notin {"openclaw-public-ip-enabled", "wgeasy-ui-exposed-to-world",
                          "ssh-exposed-to-world", "project-oslogin-disabled",
                          "wgeasy-password-secret-used"}
    BY <1>4 DEF SeverityRank
  <1> QED BY <1>1, <1>2, <1>3, <1>4

(* The findings of an analysis are sorted by a strict order. *)
LEMMA PrecedesIsAnOrder ==
  /\ \A f, g \in AllFindings : ~(Precedes(f, g) /\ Precedes(g, f))
  /\ \A f, g, h \in AllFindings : Precedes(f, g) /\ Precedes(g, h) => Precedes(f, h)
  <1>1. \A f \in AllFindings :
          /\ SeverityRank(f.rule) \in Int /\ Place(f.rule) \in Int
          /\ Place(f.field) \in Int /\ Place(f.key) \in Int
    <2> SUFFICES ASSUME NEW f \in AllFindings
                 PROVE  /\ SeverityRank(f.rule) \in Int /\ Place(f.rule) \in Int
                        /\ Place(f.field) \in Int /\ Place(f.key) \in Int
      OBVIOUS
    <2>1. SeverityRank(f.rule) \in 0 .. 3
      BY RankBound
    <2>2. Place(f.rule) \in 1 .. 25 /\ Place(f.field) \in 1 .. 25 /\ Place(f.key) \in 1 .. 25
      BY FindingsAreNamed, PlaceBound DEF Named
    <2> QED BY <2>1, <2>2
  <1> QED BY <1>1 DEF Precedes

(* An analysis has written only findings before those it still has to write. *)
WrittenInOrder ==
  \A a \in Analysts, f \in AllFindings : analysis[a].written[f] # Absent =>
    \A g \in analysis[a].todo : Precedes(f, g)

(* It takes the first of those that are left each time. *)
LEMMA WrittenInOrderStep ==
  ASSUME FindingsInv, WrittenInOrder, [FindingsNext]_findingVars
  PROVE  WrittenInOrder'
  <1>0. FindingsTypeOK
    BY DEF FindingsInv
  <1>1. ASSUME NEW a \in Analysts, NEW new, analysis' = [analysis EXCEPT ![a] = new],
               \A f \in AllFindings : new.written[f] # Absent => \A g \in new.todo : Precedes(f, g)
        PROVE  WrittenInOrder'
    <2>1. \A b \in Analysts : analysis'[b] = IF b = a THEN new ELSE analysis[b]
      BY <1>0, <1>1 DEF FindingsTypeOK
    <2> QED BY <1>1, <2>1 DEF WrittenInOrder
  <1>2. ASSUME NEW a \in Analysts, NEW tfvars \in Inputs, Analyze(a, tfvars) PROVE WrittenInOrder'
    <2> DEFINE new == [NoAnalysis EXCEPT !.pc = "write", !.started = minute,
                                         !.todo = Matches(tfvars)]
    <2>1. analysis' = [analysis EXCEPT ![a] = new]
      BY <1>2 DEF Analyze
    <2>2. \A f \in AllFindings : new.written[f] = Absent
      BY DEF NoAnalysis, NothingWritten
    <2> HIDE DEF new
    <2> QED BY <1>1, <2>1, <2>2
  <1>3. ASSUME NEW a \in Analysts, UpsertFinding(a) PROVE WrittenInOrder'
    <2>1. PICK f \in NextFinding(a) :
            analysis' = [analysis EXCEPT ![a] =
              [analysis[a] EXCEPT
                 !.todo = @ \ {f},
                 !.written = [analysis[a].written EXCEPT
                                ![f] = Upserted(findings[f], analysis[a].started)]]]
      BY <1>3 DEF UpsertFinding
    <2> DEFINE row == Upserted(findings[f], analysis[a].started)
               new == [analysis[a] EXCEPT !.todo = @ \ {f},
                         !.written = [analysis[a].written EXCEPT ![f] = row]]
    <2>2. analysis[a] \in Analyses
      BY <1>0 DEF FindingsTypeOK
    <2>3. new.todo = analysis[a].todo \ {f} /\ new.written = [analysis[a].written EXCEPT ![f] = row]
      BY <2>2 DEF Analyses
    <2>4. \A g \in AllFindings \ {f} : new.written[g] = analysis[a].written[g]
      <3>1. analysis[a].written \in [AllFindings -> FindingRows \cup {Absent}]
        BY <2>2 DEF Analyses
      <3> HIDE DEF new, row
      <3> QED BY <2>3, <3>1
    <2>5. \A g \in analysis[a].todo \ {f} : Precedes(f, g)
      BY <2>1 DEF NextFinding
    <2>6. analysis' = [analysis EXCEPT ![a] = new]
      BY <2>1
    <2> HIDE DEF new, row
    <2>7. ASSUME NEW g \in AllFindings, new.written[g] # Absent, NEW h \in new.todo
          PROVE  Precedes(g, h)
      <3>1. CASE g = f
        BY <2>3, <2>5, <2>7, <3>1
      <3>2. CASE g # f
        BY <2>3, <2>4, <2>7, <3>2 DEF WrittenInOrder
      <3> QED BY <3>1, <3>2
    <2> QED BY <1>1, <2>6, <2>7
  <1>4. ASSUME NEW a \in Analysts, CommitAnalysis(a) \/ RollbackAnalysis(a) PROVE WrittenInOrder'
    <2>1. analysis' = [analysis EXCEPT ![a] = NoAnalysis]
      BY <1>4 DEF CommitAnalysis, RollbackAnalysis
    <2> QED BY <1>1, <2>1, NoAnalysisTypes
  <1>5. CASE UNCHANGED analysis
    BY <1>5 DEF WrittenInOrder
  <1> QED BY <1>2, <1>3, <1>4, <1>5
          DEF FindingsNext, TriageFinding, ReadFirst, ReadPage, EndRead, PassMinute, findingVars

(* Of the analyses that wait, the one whose next finding comes last would    *)
(* wait for one whose next finding comes later.                             *)
LEMMA SomebodyIsLast ==
  ASSUME FindingsInv, WrittenInOrder, Analysts # {}
  PROVE  SomeAnalysisGoesOn
  <1> SUFFICES ASSUME \A a \in Analysts : Waiting(a) PROVE FALSE
    BY DEF SomeAnalysisGoesOn
  <1> DEFINE awaited == UNION {NextFinding(a) : a \in Analysts}
             after(f) == {g \in awaited : Precedes(f, g)}
             afters == {after(f) : f \in awaited}
  <1>1. /\ \A a \in Analysts : NextFinding(a) \subseteq analysis[a].todo
        /\ awaited \subseteq AllFindings
    BY DEF NextFinding, FindingsInv, FindingsTypeOK, Analyses
  <1>2. afters \subseteq SUBSET AllFindings /\ afters # {}
    <2>1. PICK a \in Analysts : Waiting(a)
      OBVIOUS
    <2>2. PICK f \in NextFinding(a) : TRUE
      BY <2>1 DEF Waiting
    <2>3. f \in awaited
      OBVIOUS
    <2>4. after(f) \in afters
      BY <2>3
    <2>5. \A g \in awaited : after(g) \subseteq AllFindings
      BY <1>1
    <2> QED BY <2>4, <2>5
  <1>3. IsWellFoundedOn(StrictSubsetOrdering(AllFindings), SUBSET AllFindings)
    BY FindingsAreFinite, FS_FiniteSubsetsOfFinite, FS_StrictSubsetOrderingWellFounded
  <1>4. \E T \in afters : \A U \in afters : ~(<<U, T>> \in StrictSubsetOrdering(AllFindings))
    <2> HIDE DEF afters
    <2> QED BY <1>2, <1>3, WFMin
  <1>5. PICK f \in awaited :
          \A g \in awaited : ~(<<after(g), after(f)>> \in StrictSubsetOrdering(AllFindings))
    BY <1>4
  <1>6. PICK a \in Analysts : f \in NextFinding(a)
    OBVIOUS
  <1>7. PICK h \in NextFinding(a) : Lockers(h) \ {a} # {}
    BY DEF Waiting
  <1>8. h = f
    <2>1. h \in AllFindings /\ f \in AllFindings
      BY <1>1
    <2> QED BY <1>6, <1>7, <2>1, PrecedesIsAnOrder DEF NextFinding
  <1>9. PICK b \in Analysts : analysis[b].written[f] # Absent
    BY <1>7, <1>8 DEF Lockers
  <1>10. PICK g \in NextFinding(b) : TRUE
    BY DEF Waiting
  <1>11. g \in awaited /\ Precedes(f, g) /\ f \in AllFindings /\ g \in AllFindings
    BY <1>1, <1>9, <1>10 DEF WrittenInOrder
  <1>12. after(g) \subseteq after(f) /\ g \in after(f) /\ g \notin after(g)
    BY <1>1, <1>11, PrecedesIsAnOrder
  <1>13. after(g) \in SUBSET AllFindings /\ after(f) \in SUBSET AllFindings
    BY <1>1
  <1>14. <<after(g), after(f)>> \in StrictSubsetOrdering(AllFindings)
    <2> HIDE DEF after
    <2> QED BY <1>12, <1>13 DEF StrictSubsetOrdering
  <1> QED BY <1>5, <1>11, <1>14

(* Analyses never all wait for each other's rows, whatever they have found   *)
(* and however many they are.                                                *)
THEOREM AnalysesDoNotDeadlock ==
  ASSUME Analysts # {}
  PROVE  FindingsSpec => []SomeAnalysisGoesOn
  <1>1. FindingsInit => WrittenInOrder
    BY NoAnalysisTypes DEF FindingsInit, WrittenInOrder
  <1>2. FindingsInv /\ WrittenInOrder /\ [FindingsNext]_findingVars => WrittenInOrder'
    BY WrittenInOrderStep
  <1>3. FindingsInv /\ WrittenInOrder => SomeAnalysisGoesOn
    BY SomebodyIsLast
  <1> QED BY <1>1, <1>2, <1>3, LocksAreHeld, PTL DEF FindingsSpec

-----------------------------------------------------------------------------
(* The list that is read by pages. *)

(* The ids that break ties are unique. *)
SerialsDiffer == \A f, g \in AllFindings : serial[f] = serial[g] => f = g

(* Nothing has happened that may make the client miss a finding. *)
Undisturbed ==
  \/ ~reader.changed
  \/ reader.order = "desc" /\ reader.filter = Statuses /\ ~reader.rewound

(* What was there all the time is still listed, and what of it has not been  *)
(* read is behind the rows that the next page passes over.                   *)
UnreadIsBehind ==
  /\ reader.page >= 1
  /\ reader.pc = "reading" => reader.untouched \subseteq Listed
  /\ reader.pc = "reading" /\ Undisturbed =>
       \A f \in reader.untouched \ reader.seen : Cardinality(ListedBefore(f)) >= Offset

(* The inductive invariant of the list. *)
ListInv == SerialsDiffer /\ UnreadIsBehind /\ MissedFindingHasACause

Ahead(g, f) == IF reader.order = "desc" THEN Newer(g, f) ELSE Newer(f, g)

(* The list is finite, and so is what it has before a row. *)
LEMMA ListIsFinite ==
  /\ Listed \subseteq AllFindings /\ IsFiniteSet(Listed)
  /\ \A S \in SUBSET Listed : IsFiniteSet(S) /\ Cardinality(S) \in Nat
  /\ \A f : ListedBefore(f) \subseteq Listed /\ Cardinality(ListedBefore(f)) \in Nat
  <1>1. Listed \subseteq AllFindings /\ \A f : ListedBefore(f) \subseteq Listed
    BY DEF Listed, ListedBefore
  <1>2. \A S \in SUBSET AllFindings : IsFiniteSet(S) /\ Cardinality(S) \in Nat
    BY FindingsAreFinite, FS_Subset, FS_CardinalityType
  <1> QED BY <1>1, <1>2

(* It is sorted by a strict total order. *)
LEMMA ListIsOrdered ==
  ASSUME FindingsInv, SerialsDiffer
  PROVE  /\ \A f \in Listed : ListedBefore(f) = {g \in Listed : Ahead(g, f)}
         /\ \A f \in Listed : ~Ahead(f, f)
         /\ \A f, g \in Listed : f # g => Ahead(f, g) \/ Ahead(g, f)
         /\ \A f, g \in Listed : ~(Ahead(f, g) /\ Ahead(g, f))
         /\ \A f, g, h \in Listed : Ahead(f, g) /\ Ahead(g, h) => Ahead(f, h)
  <1>1. ASSUME NEW f \in Listed PROVE findings[f].last \in Int /\ serial[f] \in Int
    <2>1. f \in AllFindings /\ findings[f] \in FindingRows /\ serial[f] \in Ids
      BY <1>1 DEF Listed, FindingsInv, FindingsTypeOK
    <2>2. Ids \subseteq Int /\ Minutes \subseteq Int
      BY DEF Ids, Minutes
    <2> QED BY <2>1, <2>2 DEF FindingRows
  <1>2. \A f, g \in Listed : serial[f] = serial[g] => f = g
    BY DEF SerialsDiffer, Listed
  <1>3. /\ \A f \in Listed : ~Newer(f, f)
        /\ \A f, g \in Listed : f # g => Newer(f, g) \/ Newer(g, f)
        /\ \A f, g \in Listed : ~(Newer(f, g) /\ Newer(g, f))
        /\ \A f, g, h \in Listed : Newer(f, g) /\ Newer(g, h) => Newer(f, h)
    BY <1>1, <1>2 DEF Newer
  <1> QED BY <1>3 DEF Ahead, ListedBefore

(* A row has fewer rows before it than any that follows it. *)
LEMMA BeforeGrows ==
  ASSUME FindingsInv, SerialsDiffer, NEW f \in Listed, NEW g \in Listed, Ahead(g, f)
  PROVE  /\ ListedBefore(g) \subseteq ListedBefore(f) \ {g} /\ g \in ListedBefore(f)
         /\ Cardinality(ListedBefore(g)) < Cardinality(ListedBefore(f))
  <1>1. ListedBefore(g) \subseteq ListedBefore(f) \ {g} /\ g \in ListedBefore(f)
    BY ListIsOrdered
  <1>2. IsFiniteSet(ListedBefore(f)) /\ IsFiniteSet(ListedBefore(f) \ {g})
    BY ListIsFinite, FS_RemoveElement
  <1>3. Cardinality(ListedBefore(f) \ {g}) = Cardinality(ListedBefore(f)) - 1
    BY <1>1, <1>2, FS_RemoveElement
  <1>4. Cardinality(ListedBefore(g)) =< Cardinality(ListedBefore(f) \ {g})
    BY <1>1, <1>2, FS_Subset
  <1> QED BY <1>1, <1>3, <1>4, ListIsFinite

(* Every set of rows has a first one and a last one. *)
LEMMA FirstAndLast ==
  ASSUME FindingsInv, SerialsDiffer, NEW S \in SUBSET Listed, S # {}
  PROVE  /\ \E f \in S : \A g \in S \ {f} : Ahead(f, g)
         /\ \E f \in S : \A g \in S \ {f} : Ahead(g, f)
  <1> DEFINE front(f) == {g \in S : Ahead(g, f)}
             rear(f) == {g \in S : Ahead(f, g)}
             fronts == {front(f) : f \in S}
             rears == {rear(f) : f \in S}
  <1>1. IsWellFoundedOn(StrictSubsetOrdering(Listed), SUBSET Listed)
    BY ListIsFinite, FS_FiniteSubsetsOfFinite, FS_StrictSubsetOrderingWellFounded
  <1>2. fronts \subseteq SUBSET Listed /\ fronts # {} /\ rears \subseteq SUBSET Listed /\ rears # {}
    OBVIOUS
  <1>3. /\ \E T \in fronts : \A U \in fronts : ~(<<U, T>> \in StrictSubsetOrdering(Listed))
        /\ \E T \in rears : \A U \in rears : ~(<<U, T>> \in StrictSubsetOrdering(Listed))
    <2> HIDE DEF fronts, rears
    <2> QED BY <1>1, <1>2, WFMin
  <1>4. PICK f \in S : \A g \in S : ~(<<front(g), front(f)>> \in StrictSubsetOrdering(Listed))
    BY <1>3
  <1>5. PICK l \in S : \A g \in S : ~(<<rear(g), rear(l)>> \in StrictSubsetOrdering(Listed))
    BY <1>3
  <1>6. \A g \in S : front(g) \in SUBSET Listed /\ rear(g) \in SUBSET Listed
    OBVIOUS
  <1>7. ASSUME NEW g \in S \ {f} PROVE Ahead(f, g)
    <2> SUFFICES ASSUME Ahead(g, f) PROVE FALSE
      BY ListIsOrdered
    <2>1. front(g) \subseteq front(f) /\ g \in front(f) /\ g \notin front(g)
      BY ListIsOrdered
    <2>2. <<front(g), front(f)>> \in StrictSubsetOrdering(Listed)
      <3> HIDE DEF front
      <3> QED BY <1>6, <2>1 DEF StrictSubsetOrdering
    <2> QED BY <1>4, <2>2
  <1>8. ASSUME NEW g \in S \ {l} PROVE Ahead(g, l)
    <2> SUFFICES ASSUME Ahead(l, g) PROVE FALSE
      BY ListIsOrdered
    <2>1. rear(g) \subseteq rear(l) /\ g \in rear(l) /\ g \notin rear(g)
      BY ListIsOrdered
    <2>2. <<rear(g), rear(l)>> \in StrictSubsetOrdering(Listed)
      <3> HIDE DEF rear
      <3> QED BY <1>6, <2>1 DEF StrictSubsetOrdering
    <2> QED BY <1>5, <2>2
  <1> QED BY <1>7, <1>8

(* The first rows of the list, as LIMIT takes them. *)
Top(k) == {g \in Listed : Cardinality(ListedBefore(g)) < k}

(* They are no more than asked for, as places differ.  They are as many, and *)
(* all before f, if f is none of them.                                       *)
LEMMA TopIsCounted ==
  ASSUME FindingsInv, SerialsDiffer, NEW k \in Nat
  PROVE  /\ Cardinality(Top(k)) =< k
         /\ \A f \in Listed \ Top(k) : Cardinality(Top(k)) = k /\ Top(k) \subseteq ListedBefore(f)
  <1>1. /\ Top(k) \in SUBSET Listed /\ IsFiniteSet(Top(k)) /\ Cardinality(Top(k)) \in Nat
        /\ \A f : IsFiniteSet(ListedBefore(f)) /\ Cardinality(ListedBefore(f)) \in Nat
    BY ListIsFinite DEF Top
  <1>2. Cardinality(Top(k)) =< k
    <2>1. CASE Top(k) = {}
      BY <2>1, FS_EmptySet
    <2>2. CASE Top(k) # {}
      <3>1. PICK l \in Top(k) : \A g \in Top(k) \ {l} : Ahead(g, l)
        BY <1>1, <2>2, FirstAndLast
      <3>2. l \in Listed /\ Cardinality(ListedBefore(l)) < k
        BY <3>1 DEF Top
      <3>3. Top(k) \subseteq ListedBefore(l) \cup {l} /\ l \notin ListedBefore(l)
        BY <1>1, <3>1, <3>2, ListIsOrdered
      <3>4. /\ IsFiniteSet(ListedBefore(l) \cup {l})
            /\ Cardinality(ListedBefore(l) \cup {l}) = Cardinality(ListedBefore(l)) + 1
        BY <1>1, <3>3, FS_AddElement
      <3>5. Cardinality(Top(k)) =< Cardinality(ListedBefore(l) \cup {l})
        BY <3>3, <3>4, FS_Subset
      <3> QED BY <1>1, <3>2, <3>4, <3>5
    <2> QED BY <2>1, <2>2
  <1>3. ASSUME NEW f \in Listed \ Top(k)
        PROVE  Cardinality(Top(k)) = k /\ Top(k) \subseteq ListedBefore(f)
    <2>1. Cardinality(ListedBefore(f)) >= k
      BY <1>1, <1>3 DEF Top
    <2>2. Top(k) \subseteq ListedBefore(f)
      <3> SUFFICES ASSUME NEW g \in Top(k) PROVE Ahead(g, f)
        BY <1>1, <1>3, ListIsOrdered
      <3>1. g \in Listed /\ Cardinality(ListedBefore(g)) < k /\ g # f
        BY <1>3 DEF Top
      <3>2. ~Ahead(f, g)
        <4> SUFFICES ASSUME Ahead(f, g) PROVE FALSE
          OBVIOUS
        <4>1. Cardinality(ListedBefore(f)) < Cardinality(ListedBefore(g))
          BY <1>3, <3>1, BeforeGrows
        <4> QED BY <1>1, <2>1, <3>1, <4>1
      <3> QED BY <1>3, <3>1, <3>2, ListIsOrdered
    <2>3. PICK b \in Listed \ Top(k) : \A g \in (Listed \ Top(k)) \ {b} : Ahead(b, g)
      <3>1. Listed \ Top(k) \in SUBSET Listed /\ Listed \ Top(k) # {}
        BY <1>3
      <3> QED BY <3>1, FirstAndLast
    <2>4. ListedBefore(b) \subseteq Top(k)
      BY <2>3, ListIsFinite, ListIsOrdered
    <2>5. Cardinality(ListedBefore(b)) >= k
      BY <1>1, <2>3 DEF Top
    <2>6. Cardinality(ListedBefore(b)) =< Cardinality(Top(k))
      BY <1>1, <2>4, FS_Subset
    <2> QED BY <1>1, <1>2, <2>2, <2>5, <2>6
  <1> QED BY <1>2, <1>3

(* A page is what lies between two offsets, so it is full if anything comes *)
(* after it.                                                                *)
LEMMA FullPage ==
  ASSUME FindingsInv, SerialsDiffer, Offset \in Nat, NEW f \in Listed \ Top(Offset + PageSize)
  PROVE  Cardinality(Page) >= PageSize
  <1>1. PageSize \in Nat /\ Offset + PageSize \in Nat
    BY PageSizeAssumption
  <1>2. Cardinality(Top(Offset)) =< Offset /\ Cardinality(Top(Offset + PageSize)) = Offset + PageSize
    BY <1>1, TopIsCounted
  <1>3. Top(Offset + PageSize) = Top(Offset) \cup Page
    <2>1. \A g : Cardinality(ListedBefore(g)) \in Nat
      BY ListIsFinite
    <2> QED BY <1>1, <2>1 DEF Top, Page
  <1>4. /\ Top(Offset) \in SUBSET Listed /\ Page \in SUBSET Listed
        /\ Top(Offset) \cap Page \in SUBSET Listed
    BY DEF Top, Page
  <1>5. /\ IsFiniteSet(Top(Offset)) /\ Cardinality(Top(Offset)) \in Nat
        /\ IsFiniteSet(Page) /\ Cardinality(Page) \in Nat
        /\ Cardinality(Top(Offset) \cap Page) \in Nat
    BY <1>4, ListIsFinite
  <1>6. Cardinality(Top(Offset) \cup Page)
          = Cardinality(Top(Offset)) + Cardinality(Page) - Cardinality(Top(Offset) \cap Page)
    BY <1>5, FS_Union
  <1>7. Cardinality(Top(Offset) \cup Page) = Offset + PageSize
    BY <1>2, <1>3
  <1> QED BY <1>1, <1>2, <1>5, <1>6, <1>7

(* A client that reads a page has passed over it, and over all before it. *)
LEMMA ReadPageKeepsList ==
  ASSUME FindingsInv, ListInv, ReadPage
  PROVE  ListInv'
  <1>0. reader \in Readers /\ SerialsDiffer /\ UnreadIsBehind /\ PageSize \in Nat
    BY PageSizeAssumption DEF FindingsInv, FindingsTypeOK, ListInv
  <1>1. /\ reader.pc = "reading" /\ UNCHANGED <<minute, findings, analysis, serial>>
        /\ reader' = [reader EXCEPT !.seen = @ \cup Page, !.page = @ + 1,
                        !.pc = IF Cardinality(Page) < PageSize THEN "done" ELSE "reading"]
    BY DEF ReadPage
  <1>2. /\ reader'.seen = reader.seen \cup Page /\ reader'.page = reader.page + 1
        /\ reader'.pc = IF Cardinality(Page) < PageSize THEN "done" ELSE "reading"
        /\ reader'.order = reader.order /\ reader'.filter = reader.filter
        /\ reader'.untouched = reader.untouched
        /\ reader'.changed = reader.changed /\ reader'.rewound = reader.rewound
    BY <1>0, <1>1 DEF Readers
  <1>3. reader.page \in Nat /\ reader.page >= 1
    BY <1>0 DEF Readers, UnreadIsBehind
  <1>4. Offset \in Nat /\ Offset' = Offset + PageSize
    <2> DEFINE p == reader.page
    <2>1. p \in Nat /\ p - 1 \in Nat /\ (p + 1) - 1 = (p - 1) + 1
      BY <1>3
    <2>2. \A q \in Nat : q * PageSize \in Nat /\ (q + 1) * PageSize = q * PageSize + PageSize
      BY <1>0
    <2>3. Offset = (p - 1) * PageSize /\ Offset' = ((p - 1) + 1) * PageSize
      BY <1>2, <2>1 DEF Offset
    <2> HIDE DEF p
    <2> QED BY <2>1, <2>2, <2>3
  <1>5. Listed' = Listed /\ \A f : ListedBefore(f)' = ListedBefore(f)
    BY <1>1, <1>2 DEF Listed, ListedBefore, Newer
  <1>6. Undisturbed' = Undisturbed
    BY <1>2 DEF Undisturbed
  <1>7. ASSUME Undisturbed, NEW f \in reader.untouched \ (reader.seen \cup Page)
        PROVE  f \in Listed \ Top(Offset + PageSize)
    <2>1. f \in Listed /\ Cardinality(ListedBefore(f)) >= Offset
      BY <1>0, <1>1, <1>7 DEF UnreadIsBehind
    <2>2. Cardinality(ListedBefore(f)) \in Nat
      BY ListIsFinite
    <2>3. Cardinality(ListedBefore(f)) \notin Offset .. Offset + PageSize - 1
      BY <1>7, <2>1 DEF Page
    <2> QED BY <1>0, <1>4, <2>1, <2>2, <2>3 DEF Top
  <1>8. UnreadIsBehind'
    <2>1. reader'.page >= 1
      BY <1>2, <1>3
    <2>2. reader'.pc = "reading" => reader'.untouched \subseteq Listed'
      BY <1>0, <1>1, <1>2, <1>5 DEF UnreadIsBehind
    <2>3. ASSUME Undisturbed', NEW f \in reader'.untouched \ reader'.seen
          PROVE  Cardinality(ListedBefore(f)') >= Offset'
      <3>1. f \in Listed /\ ~(Cardinality(ListedBefore(f)) < Offset + PageSize)
        BY <1>2, <1>6, <1>7, <2>3 DEF Top
      <3>2. Cardinality(ListedBefore(f)) \in Nat /\ ListedBefore(f)' = ListedBefore(f)
        BY <1>5, ListIsFinite
      <3> QED BY <1>0, <1>4, <3>1, <3>2
    <2> QED BY <2>1, <2>2, <2>3 DEF UnreadIsBehind
  <1>9. ASSUME reader'.pc = "done", Undisturbed', NEW f \in reader'.untouched
        PROVE  f \in reader'.seen
    <2> SUFFICES ASSUME f \notin reader'.seen PROVE FALSE
      OBVIOUS
    <2>1. f \in Listed \ Top(Offset + PageSize)
      BY <1>2, <1>6, <1>7, <1>9
    <2>2. Cardinality(Page) >= PageSize
      BY <1>0, <1>4, <2>1, FullPage
    <2>3. Cardinality(Page) < PageSize
      BY <1>2, <1>9
    <2>4. Cardinality(Page) \in Nat
      BY ListIsFinite DEF Page
    <2> QED BY <1>0, <2>2, <2>3, <2>4
  <1>10. MissedFindingHasACause'
    BY <1>9 DEF MissedFindingHasACause, Undisturbed
  <1>11. SerialsDiffer'
    BY <1>0, <1>1 DEF SerialsDiffer
  <1> QED BY <1>8, <1>10, <1>11 DEF ListInv

(* While no row changes that has been passed over, or rows only move to the *)
(* front, a row that does not change keeps as many before it.               *)
LEMMA ChangeKeepsList ==
  ASSUME FindingsInv, FindingsInv', ListInv, reader' = Noticed(findings'), serial' = serial,
         \A f \in AllFindings : findings[f] # Absent => findings'[f] # Absent
  PROVE  ListInv'
  <1> DEFINE touched == {f \in AllFindings : findings'[f] # findings[f]}
             back == \E f \in touched \ {g \in AllFindings : findings[g] = Absent} :
                       findings'[f].last < findings[f].last
  <1>0. reader \in Readers /\ SerialsDiffer /\ UnreadIsBehind /\ MissedFindingHasACause
    BY DEF FindingsInv, FindingsTypeOK, ListInv
  <1>1. SerialsDiffer'
    BY <1>0 DEF SerialsDiffer
  <1>4. /\ \A f : IsFiniteSet(ListedBefore(f)')
        /\ \A f : Cardinality(ListedBefore(f)') \in Nat
    <2>1. (\A S \in SUBSET Listed : IsFiniteSet(S) /\ Cardinality(S) \in Nat)'
      BY ListIsFinite, PTL
    <2>2. (\A f : ListedBefore(f) \subseteq Listed /\ Cardinality(ListedBefore(f)) \in Nat)'
      BY ListIsFinite, PTL
    <2> QED BY <2>1, <2>2
  <1>2. CASE reader.pc # "reading"
    <2>1. reader' = reader
      BY <1>2 DEF Noticed
    <2>2. UnreadIsBehind' /\ MissedFindingHasACause'
      BY <1>0, <1>2, <2>1 DEF UnreadIsBehind, MissedFindingHasACause
    <2> QED BY <1>1, <2>2 DEF ListInv
  <1>3. CASE reader.pc = "reading"
    <2>1. reader' = [reader EXCEPT !.untouched = @ \ touched,
                                   !.changed = @ \/ touched \cap Passed # {},
                                   !.rewound = @ \/ back]
      BY <1>3 DEF Noticed
    <2> HIDE DEF back
    <2>2. /\ reader'.pc = "reading" /\ reader'.page = reader.page /\ reader'.seen = reader.seen
          /\ reader'.order = reader.order /\ reader'.filter = reader.filter
          /\ reader'.untouched = reader.untouched \ touched
          /\ reader'.changed = (reader.changed \/ touched \cap Passed # {})
          /\ reader'.rewound = (reader.rewound \/ back)
      BY <1>0, <1>3, <2>1 DEF Readers
    <2>3. reader.untouched \subseteq Listed /\ Listed \subseteq AllFindings /\ Offset' = Offset
      BY <1>0, <1>3, <2>2, ListIsFinite DEF UnreadIsBehind, Offset
    <2>4. ASSUME NEW f \in Listed \ touched PROVE f \in Listed' /\ findings'[f] = findings[f]
      <3>1. f \in AllFindings /\ findings'[f] = findings[f]
        BY <2>3, <2>4
      <3>2. findings[f] # Absent /\ findings[f].status \in reader.filter
        BY <2>4 DEF Listed
      <3> QED BY <2>2, <3>1, <3>2 DEF Listed
    <2>5. ASSUME Undisturbed', NEW f \in reader'.untouched \ reader'.seen
          PROVE  Cardinality(ListedBefore(f)') >= Offset'
      <3>1. Undisturbed
        BY <2>2, <2>5 DEF Undisturbed
      <3>2. f \in Listed \ touched /\ Cardinality(ListedBefore(f)) >= Offset
        BY <1>0, <1>3, <2>2, <2>3, <2>5, <3>1 DEF UnreadIsBehind
      <3>3. /\ IsFiniteSet(ListedBefore(f)) /\ Cardinality(ListedBefore(f)) \in Nat
            /\ IsFiniteSet(ListedBefore(f)') /\ Cardinality(ListedBefore(f)') \in Nat
        BY <1>4, ListIsFinite
      <3>4. Offset \in Nat
        <4>1. reader.page - 1 \in Nat /\ PageSize \in Nat
          BY <1>0, PageSizeAssumption DEF Readers, UnreadIsBehind
        <4>2. \A p, q \in Nat : p * q \in Nat
          OBVIOUS
        <4> QED BY <4>1, <4>2 DEF Offset
      <3>5. ASSUME NEW g \in Listed \ touched, g \in ListedBefore(f) PROVE g \in ListedBefore(f)'
        BY <2>2, <2>4, <3>2, <3>5 DEF ListedBefore, Newer
      <3>6. CASE ~reader'.changed
        <4>1. Passed = Top(Offset) /\ Passed \cap touched = {}
          BY <2>2, <3>6 DEF Passed, Top
        <4>2. f \notin Top(Offset)
          BY <3>2, <3>3, <3>4 DEF Top
        <4>3. Cardinality(Top(Offset)) = Offset /\ Top(Offset) \subseteq ListedBefore(f)
          BY <1>0, <3>2, <3>4, <4>2, TopIsCounted
        <4>4. Top(Offset) \subseteq ListedBefore(f)'
          BY <3>5, <4>1, <4>3 DEF Top
        <4>5. Cardinality(Top(Offset)) =< Cardinality(ListedBefore(f)')
          BY <3>3, <4>4, FS_Subset
        <4> QED BY <2>3, <3>3, <3>4, <4>3, <4>5
      <3>7. CASE reader'.order = "desc" /\ reader'.filter = Statuses /\ ~reader'.rewound
        <4>1. ASSUME NEW g \in ListedBefore(f) PROVE g \in ListedBefore(f)'
          <5>1. /\ g \in Listed \ {f} /\ g \in AllFindings /\ f \in AllFindings
                /\ findings[g] # Absent /\ findings'[g] # Absent
            BY <2>3, <3>2 DEF ListedBefore, Listed
          <5>2. /\ findings[g] \in FindingRows /\ findings'[g] \in FindingRows
                /\ findings[f] \in FindingRows
            <6>1. findings \in [AllFindings -> FindingRows \cup {Absent}]
              BY DEF FindingsInv, FindingsTypeOK
            <6>2. findings' \in [AllFindings -> FindingRows \cup {Absent}]
              BY DEF FindingsInv, FindingsTypeOK
            <6>3. findings[f] # Absent
              BY <3>2 DEF Listed
            <6> QED BY <5>1, <6>1, <6>2, <6>3
          <5>3. findings'[g].status \in Statuses
            BY <5>2 DEF FindingRows
          <5>4. g \in Listed'
            BY <3>7, <5>1, <5>3 DEF Listed
          <5>5. findings'[g].last >= findings[g].last
            <6>1. findings'[g].last \in Int /\ findings[g].last \in Int
              BY <5>2 DEF FindingRows, Minutes
            <6>2. CASE g \in touched
              <7>1. ~back
                BY <2>2, <3>7
              <7>2. g \in touched \ {h \in AllFindings : findings[h] = Absent}
                BY <5>1, <6>2
              <7>3. ~(findings'[g].last < findings[g].last)
                BY <7>1, <7>2 DEF back
              <7> QED BY <6>1, <7>3
            <6>3. CASE g \notin touched
              BY <5>1, <6>1, <6>3
            <6> QED BY <6>2, <6>3
          <5>6. findings'[f] = findings[f] /\ Newer(g, f)
            BY <2>2, <2>4, <3>2, <3>7 DEF ListedBefore
          <5>7. /\ findings[g].last \in Int /\ findings'[g].last \in Int /\ findings[f].last \in Int
                /\ serial[g] \in Int /\ serial[f] \in Int
            BY <5>1, <5>2 DEF FindingRows, Minutes, FindingsInv, FindingsTypeOK, Ids
          <5>8. Newer(g, f)'
            BY <5>5, <5>6, <5>7 DEF Newer
          <5> QED BY <3>7, <5>1, <5>4, <5>8 DEF ListedBefore
        <4>2. Cardinality(ListedBefore(f)) =< Cardinality(ListedBefore(f)')
          BY <3>3, <4>1, FS_Subset
        <4> QED BY <2>3, <3>2, <3>3, <3>4, <4>2
      <3> QED BY <2>5, <3>6, <3>7 DEF Undisturbed
    <2>6. UnreadIsBehind'
      <3>1. reader'.untouched \subseteq Listed'
        BY <2>2, <2>3, <2>4
      <3> QED BY <1>0, <2>2, <2>5, <3>1 DEF UnreadIsBehind
    <2>7. MissedFindingHasACause'
      BY <2>2 DEF MissedFindingHasACause
    <2> QED BY <1>1, <2>6, <2>7 DEF ListInv
  <1> QED BY <1>2, <1>3

(* Every step keeps what the client has not read behind the next page. *)
LEMMA ListStep ==
  ASSUME FindingsInv, FindingsInv', ListInv, [FindingsNext]_findingVars
  PROVE  ListInv'
  <1>0. FindingsTypeOK
    BY DEF FindingsInv
  <1>1. ASSUME UNCHANGED <<findings, serial, reader>> PROVE ListInv'
    BY <1>1 DEF ListInv, SerialsDiffer, UnreadIsBehind, MissedFindingHasACause, Undisturbed,
                Listed, ListedBefore, Newer, Offset
  <1>2. ASSUME NEW a \in Analysts, CommitAnalysis(a) PROVE ListInv'
    <2> DEFINE new == [f \in AllFindings |-> IF analysis[a].written[f] = Absent
                                             THEN findings[f] ELSE analysis[a].written[f]]
    <2>1. findings' = new /\ reader' = Noticed(new) /\ serial' = serial
      BY <1>2 DEF CommitAnalysis
    <2>2. reader' = Noticed(findings')
      BY <2>1
    <2>3. \A f \in AllFindings : findings[f] # Absent => findings'[f] # Absent
      BY <2>1
    <2> HIDE DEF new
    <2> QED BY <2>1, <2>2, <2>3, ChangeKeepsList
  <1>3. ASSUME NEW f \in AllFindings, NEW status \in Statuses, TriageFinding(f, status)
        PROVE  ListInv'
    <2> DEFINE new == [findings EXCEPT ![f].status = status]
    <2>1. findings' = new /\ reader' = Noticed(new) /\ serial' = serial /\ findings[f] # Absent
      BY <1>3 DEF TriageFinding
    <2>2. reader' = Noticed(findings')
      BY <2>1
    <2>3. findings'[f] \in FindingRows
      <3>1. findings[f] \in FindingRows
        BY <1>0, <2>1 DEF FindingsTypeOK
      <3>2. [findings[f] EXCEPT !.status = status] \in FindingRows
        BY <3>1 DEF FindingRows
      <3> QED BY <1>0, <2>1, <3>2 DEF FindingsTypeOK
    <2>4. \A g \in AllFindings \ {f} : findings'[g] = findings[g]
      BY <1>0, <2>1 DEF FindingsTypeOK
    <2>5. \A g \in AllFindings : findings[g] # Absent => findings'[g] # Absent
      BY <2>3, <2>4, AbsentAssumption
    <2> HIDE DEF new
    <2> QED BY <2>1, <2>2, <2>5, ChangeKeepsList
  <1>4. ASSUME NEW read \in Reads, ReadFirst(read.order, read.filter) PROVE ListInv'
    <2> DEFINE listed == {f \in AllFindings : findings[f] # Absent
                                                 /\ findings[f].status \in read.filter}
    <2>1. /\ reader' = [NoReader EXCEPT !.pc = "reading", !.order = read.order,
                                        !.filter = read.filter, !.untouched = listed]
          /\ UNCHANGED <<minute, findings, analysis, serial>>
      BY <1>4 DEF ReadFirst
    <2>2. /\ reader'.pc = "reading" /\ reader'.page = 1 /\ reader'.filter = read.filter
          /\ reader'.untouched = listed
      BY <2>1 DEF NoReader
    <2>3. Listed' = listed
      BY <2>1, <2>2 DEF Listed
    <2>4. Offset' = 0
      BY <2>2, PageSizeAssumption DEF Offset
    <2>5. \A f : Cardinality(ListedBefore(f)') \in Nat
      <3>1. (\A f : ListedBefore(f) \subseteq Listed /\ Cardinality(ListedBefore(f)) \in Nat)'
        BY ListIsFinite, PTL
      <3> QED BY <3>1
    <2> HIDE DEF listed
    <2>6. UnreadIsBehind'
      BY <2>2, <2>3, <2>4, <2>5 DEF UnreadIsBehind
    <2> QED BY <2>1, <2>2, <2>6 DEF ListInv, SerialsDiffer, MissedFindingHasACause
  <1>5. CASE ReadPage
    BY <1>5, ReadPageKeepsList
  <1>6. CASE EndRead
    <2>1. reader'.pc = "idle" /\ reader'.page = 1 /\ UNCHANGED serial
      BY <1>6 DEF EndRead, NoReader
    <2> QED BY <2>1 DEF ListInv, SerialsDiffer, UnreadIsBehind, MissedFindingHasACause
  <1> QED BY <1>1, <1>2, <1>3, <1>4, <1>5, <1>6
          DEF FindingsNext, Analyze, UpsertFinding, RollbackAnalysis, PassMinute, findingVars

(* A client that reads the list by pages misses an unchanged finding only    *)
(* for the causes that are named, with any number of findings, any size of   *)
(* the pages and any analyses and triage in between.                         *)
THEOREM MissedFindingsHaveCauses == FindingsSpec => []MissedFindingHasACause
  <1>1. FindingsInit => ListInv
    <2> SUFFICES ASSUME FindingsInit PROVE ListInv
      OBVIOUS
    <2>1. reader.pc = "idle" /\ reader.page = 1
      BY DEF FindingsInit, NoReader
    <2>2. SerialsDiffer
      BY DEF FindingsInit, SerialsDiffer
    <2> QED BY <2>1, <2>2 DEF ListInv, UnreadIsBehind, MissedFindingHasACause
  <1>2. FindingsInv /\ FindingsInv' /\ ListInv /\ [FindingsNext]_findingVars => ListInv'
    BY ListStep
  <1>3. ListInv => MissedFindingHasACause
    BY DEF ListInv
  <1> QED BY <1>1, <1>2, <1>3, LocksAreHeld, PTL DEF FindingsSpec
=============================================================================
