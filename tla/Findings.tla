------------------------------- MODULE Findings -------------------------------
(***************************************************************************)
(* What python/aggregator.py makes of a raw security event, and            *)
(* python/observer_agent.py of a finding: which scanner an event is taken  *)
(* to come from, which findings it yields and under which identity, and    *)
(* which entity and weight a finding stands for.                           *)
(*                                                                         *)
(* A name is a sequence of the parts between its dashes; an asset is a set *)
(* of <<field, name>> pairs, without those that are missing or empty.      *)
(* Titles, descriptions, evidence, labels and signal types, which no code  *)
(* decides by, are left out.                                               *)
(***************************************************************************)
EXTENDS Integers, FiniteSets, Sequences

CONSTANTS
    MaxFindings,    \* MAX_FINDINGS_PER_EVENT
    Respelled       \* spellings of sources other than their canonical form

(* Canonical forms are spelt as they are. *)
ASSUME FindingsAssumption ==
    /\ MaxFindings \in Nat \ {0}
    /\ DOMAIN Respelled \cap {"", "falco", "trivy", "prowler", "security-command-center",
                              "cloud-logging", "mcp-server", "mcp-audit", "pubsub"} = {}

Null == <<"null">>      \* a field that is present and null

Field == {"namespace", "pod", "deployment", "image", "resource", "project"}

(* What an event reports, item by item: a vulnerability, a check, a rule.  *)
(* "named" says whether the item carries the id its scanner gives it.      *)
ItemType ==
    [ name : STRING, kind : STRING, level : STRING, named : BOOLEAN,
      asset : SUBSET (Field \X Seq(STRING)) ]
Item(name, kind, level, named, asset) ==
    [ name |-> name, kind |-> kind, level |-> level, named |-> named, asset |-> asset ]

(* A raw event.  "keys" are the keys of the object, or of the first object *)
(* of a list, that the code looks for ("mcp" when its source is            *)
(* "mcp-server"); "parts" are the reports of a Trivy list, one part        *)
(* otherwise; "from" is who produced the event, which the code must find   *)
(* out from the attribute, or the path of the POST, and the keys.          *)
RawEventType ==
    [ from : STRING, attribute : STRING, form : {"object", "list"},
      keys : SUBSET STRING, parts : Seq(Seq(ItemType)), malformed : BOOLEAN ]
RawEvent(from, attribute, form, keys, parts) ==
    [ from |-> from, attribute |-> attribute, form |-> form, keys |-> keys,
      parts |-> parts, malformed |-> FALSE ]

(* Where the items of a raw event stand, and which stands where. *)
Places(raw) == UNION {{i} \X DOMAIN raw.parts[i] : i \in DOMAIN raw.parts}
At(raw, p) == raw.parts[p[1]][p[2]]

-----------------------------------------------------------------------------
(* Which source: infer_source and the dispatch of normalize *)

(* The first rule that applies. *)
FirstOf(rules, default) ==
    LET hits == {i \in DOMAIN rules : rules[i].when}
    IN  IF hits = {} THEN default
        ELSE rules[CHOOSE i \in hits : \A j \in hits : i <= j].take

IsObject(raw) == raw.form = "object"
Has(raw, keys) == keys \subseteq raw.keys
HasLogKey(raw) == {"logName", "protoPayload"} \cap raw.keys # {}

SourceRules(raw) ==
    << [when |-> IsObject(raw) /\ Has(raw, {"finding"}), take |-> "security-command-center"],
       [when |-> IsObject(raw) /\ HasLogKey(raw), take |-> "cloud-logging"],
       [when |-> IsObject(raw) /\ Has(raw, {"rule"}), take |-> "falco"],
       [when |-> IsObject(raw) /\ Has(raw, {"mcp", "tool"}), take |-> "mcp-server"] >>

InferSource(raw) ==
    IF raw.attribute # "" THEN raw.attribute ELSE FirstOf(SourceRules(raw), "pubsub")

(* source.lower().replace("_", "-") *)
Canonical(source) == IF source \in DOMAIN Respelled THEN Respelled[source] ELSE source

(* Mistake: only the names of the sources are known, not the shapes. *)
NormalizerByName(source, raw) ==
    LET known == {"falco", "trivy", "prowler", "security-command-center",
                  "cloud-logging", "mcp-server"}
    IN  IF Canonical(source) \in known THEN Canonical(source) ELSE "unclassified"

(* By name where one is known and fits the form, by shape otherwise. *)
NormalizerRules(name, raw) ==
    << [when |-> name = "falco" /\ IsObject(raw), take |-> "falco"],
       [when |-> name = "trivy", take |-> "trivy"],
       [when |-> name = "prowler", take |-> "prowler"],
       [when |-> name \in {"scc", "security-command-center"} /\ IsObject(raw),
        take |-> "security-command-center"],
       [when |-> name \in {"cloud-logging", "gcp-logging"} /\ IsObject(raw),
        take |-> "cloud-logging"],
       [when |-> name \in {"mcp", "mcp-server"} /\ IsObject(raw), take |-> "mcp-server"],
       [when |-> IsObject(raw) /\ Has(raw, {"finding"}), take |-> "security-command-center"],
       [when |-> IsObject(raw) /\ HasLogKey(raw), take |-> "cloud-logging"],
       [when |-> IsObject(raw) /\ Has(raw, {"rule", "priority"}), take |-> "falco"],
       [when |-> IsObject(raw) /\ Has(raw, {"SchemaVersion", "Results"}), take |-> "trivy"],
       [when |-> IsObject(raw) /\ Has(raw, {"finding_info"}), take |-> "prowler"],
       [when |-> IsObject(raw) /\ Has(raw, {"mcp", "tool"}), take |-> "mcp-server"],
       [when |-> raw.form = "list" /\ Has(raw, {"finding_info"}), take |-> "prowler"],
       [when |-> raw.form = "list" /\ Has(raw, {"SchemaVersion", "Results"}),
        take |-> "trivy"] >>

(* The normaliser an event goes to. *)
Normalizer(source, raw) ==
    FirstOf(NormalizerRules(Canonical(source), raw), "unclassified")

-----------------------------------------------------------------------------
(* Severity, finding and the six normalisers *)

Alias ==
    [ INFO |-> "INFORMATIONAL", NOTICE |-> "MEDIUM", WARN |-> "MEDIUM",
      WARNING |-> "MEDIUM", ERR |-> "HIGH", ERROR |-> "HIGH", FATAL |-> "CRITICAL",
      SEVERE |-> "CRITICAL", EMERGENCY |-> "CRITICAL", ALERT |-> "CRITICAL" ]
Level == {"INFORMATIONAL", "LOW", "MEDIUM", "HIGH", "CRITICAL"}

Severity(value) ==
    LET name == IF value \in DOMAIN Alias THEN Alias[value] ELSE value
    IN  IF name \in Level THEN name ELSE "UNKNOWN"

(* A finding as normalisation leaves it.  One whose identity is not stable *)
(* draws a random id each time it is made.                                 *)
Finding(source, category, level, item, stable, fields) ==
    [ source |-> source, category |-> category, severity |-> Severity(level),
      item |-> item.name, stable |-> stable,
      asset |-> {a \in item.asset : a[1] \in fields} ]

(* A null namespace or pod counts as missing, a null image does not.  No   *)
(* id of Falco's own is taken over.                                        *)
Falco(item) ==
    LET names == item.asset \ {<<"namespace", Null>>, <<"pod", Null>>}
    IN  Finding("falco", "runtime-security", item.level, [item EXCEPT !.asset = names],
                FALSE, {"namespace", "pod", "image"})

Vulnerability(item) ==
    Finding("trivy", "container-vulnerability", item.level, item, item.named, {"image"})
Misconfiguration(item) ==
    Finding("trivy", "configuration-misconfiguration", item.level, item, item.named, {"image"})
(* A secret without a severity counts as HIGH. *)
Secret(item) ==
    Finding("trivy", "embedded-secret", IF item.level = "" THEN "HIGH" ELSE item.level,
            item, item.named, {"image"})
ScanSummary(item) ==
    Finding("trivy", "scan-summary", "INFORMATIONAL", item, FALSE, {"image"})

Trivy(item) ==
    CASE item.kind = "vulnerability"    -> Vulnerability(item)
      [] item.kind = "misconfiguration" -> Misconfiguration(item)
      [] item.kind = "secret"           -> Secret(item)
      [] item.kind = "summary"          -> ScanSummary(item)

(* The uid, the activity id or a digest of the item. *)
Prowler(item) == Finding("prowler", "cloud-posture", item.level, item, TRUE, {})

Scc(item) ==
    Finding("security-command-center", "security-command-center", item.level, item, TRUE,
            {"resource", "project"})

(* The insert id or a digest of the entry. *)
Logging(item) ==
    Finding("cloud-logging", "gke-log-event", item.level, item, TRUE,
            {"namespace", "pod", "project"})

McpAudit(item) ==
    Finding("mcp-server",
            IF item.kind = "restart_deployment" THEN "automated-remediation"
                                                ELSE "mcp-control-plane",
            item.level, item, TRUE, {"namespace", "deployment"})

Unclassified(source, item) ==
    Finding(Canonical(source), "unclassified-security-event", item.level, item, FALSE, {})

-----------------------------------------------------------------------------
(* The findings of an event *)

(* Where a part yields findings.  Things that are no objects are skipped,  *)
(* and so are checks that passed.  Each Trivy report holds a "summary"     *)
(* item, which stands for it when it has no other.                         *)
Reported(normalizer, part) ==
    LET found == {j \in DOMAIN part : part[j].kind \notin {"junk", "summary", "passed"}}
    IN  CASE normalizer = "trivy" /\ found = {} ->
                {j \in DOMAIN part : part[j].kind = "summary"}
          [] normalizer = "trivy" /\ found # {} -> found
          [] normalizer = "prowler" -> found
          [] OTHER -> DOMAIN part

Precedes(p, q) == p[1] < q[1] \/ (p[1] = q[1] /\ p[2] < q[2])

(* At most MaxFindings of them, in their order; the rest is dropped. *)
Kept(places) ==
    {p \in places : Cardinality({q \in places : Precedes(q, p)}) < MaxFindings}

FindingOf(normalizer, source, item) ==
    CASE normalizer = "falco"                   -> Falco(item)
      [] normalizer = "trivy"                   -> Trivy(item)
      [] normalizer = "prowler"                 -> Prowler(item)
      [] normalizer = "security-command-center" -> Scc(item)
      [] normalizer = "cloud-logging"           -> Logging(item)
      [] normalizer = "mcp-server"              -> McpAudit(item)
      [] OTHER                                  -> Unclassified(source, item)

Normalize(source, raw) ==
    LET normalizer == Normalizer(source, raw)
        places == UNION {{i} \X Reported(normalizer, raw.parts[i]) : i \in DOMAIN raw.parts}
    IN  {FindingOf(normalizer, source, At(raw, p)) : p \in Kept(places)}

-----------------------------------------------------------------------------
(* The observer: entity and weight of a finding *)

(* str() of a field: a null that is present becomes a name. *)
Text(name) == IF name = Null THEN <<"None">> ELSE name

(* The last two parts of a pod's name are its ReplicaSet's and its own. *)
PodOwner(pod) == IF Len(pod) >= 3 THEN SubSeq(pod, 1, Len(pod) - 2) ELSE pod

(* Mistake: the pod comes before the deployment it belongs to, as it is. *)
EntityKeyOfPod(f, id) ==
    LET pods == {a[2] : a \in {b \in f.asset : b[1] = "pod"}}
    IN  IF pods # {} THEN <<"pod", pods>> ELSE <<"finding", id>>

(* The most specific name the finding offers; without one, its own id. *)
EntityKey(f, id) ==
    LET named == {a[1] : a \in f.asset}
        The(field) == Text((CHOOSE a \in f.asset : a[1] = field)[2])
    IN  CASE {"namespace", "deployment"} \subseteq named ->
                <<"deployment", The("namespace"), The("deployment")>>
          [] {"namespace", "pod"} \subseteq named /\ "deployment" \notin named ->
                <<"pod-owner", The("namespace"), PodOwner(The("pod"))>>
          [] OTHER ->
                LET field == FirstOf(<<[when |-> "image" \in named, take |-> "image"],
                                       [when |-> "resource" \in named, take |-> "resource"],
                                       [when |-> "project" \in named, take |-> "project"]>>,
                                     "finding")
                IN  <<field, IF field = "finding" THEN id ELSE The(field)>>

SeverityWeight ==
    [ UNKNOWN |-> 5, INFORMATIONAL |-> 2, LOW |-> 8, MEDIUM |-> 18, HIGH |-> 35,
      CRITICAL |-> 55 ]

SourceBonus(source) ==
    CASE source \in {"falco", "security-command-center"} -> 12
      [] source \in {"trivy", "prowler"}                 -> 6
      [] source \in {"mcp-audit", "mcp-server"}          -> 8
      [] source = "cloud-logging"                        -> 4
      [] OTHER                                           -> 0

(* The largest sum, 55 + 12, stays below the cap of 100 in the code. *)
Weight(f) == SeverityWeight[f.severity] + SourceBonus(f.source)

(* What the correlation agent sees of the observation. *)
Observed(f, id) ==
    [ id |-> id, entity |-> EntityKey(f, id), source |-> f.source,
      category |-> f.category, weight |-> Weight(f),
      critical |-> f.severity = "CRITICAL" ]
=============================================================================
