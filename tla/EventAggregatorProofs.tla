------------------------ MODULE EventAggregatorProofs ------------------------
(***************************************************************************)
(* Theorems about EventAggregator, for any events and scans the producers  *)
(* send, any limits, batch size, replicas and handlers.                    *)
(***************************************************************************)
EXTENDS EventAggregator, FiniteSetTheorems, SequenceTheorems,
        WellFoundedInduction, TLAPS

-----------------------------------------------------------------------------
(* Order *)

NatLess == {ss \in Nat \X Nat : ss[1] < ss[2]}

LEMMA LeastNumber ==
    ASSUME NEW S \in SUBSET Nat, S # {}
    PROVE  \E m \in S : \A n \in S : m <= n
<1>1. IsWellFoundedOn(NatLess, Nat)
  BY NatLessThanWellFounded DEF OpToRel, NatLess
<1>2. PICK m \in S : \A n \in S : <<n, m>> \notin NatLess
  BY <1>1, WFMin
<1>3. ASSUME NEW n \in S  PROVE m <= n
  <2>1. <<n, m>> \notin NatLess
    BY <1>2
  <2>. QED  BY <2>1 DEF NatLess
<1>. QED  BY <1>3

(* The first of a set of places, or of batches. *)
LEMMA FirstPlace ==
    ASSUME NEW S \in SUBSET (Nat \X Nat), S # {}
    PROVE  \E p \in S : \A q \in S : p = q \/ Precedes(p, q)
<1>1. PICK i \in {p[1] : p \in S} : \A k \in {p[1] : p \in S} : i <= k
  <2>1. {p[1] : p \in S} \in SUBSET Nat /\ {p[1] : p \in S} # {}
    OBVIOUS
  <2>. QED  BY <2>1, LeastNumber
<1>2. PICK j \in {p[2] : p \in {q \in S : q[1] = i}} :
         \A k \in {p[2] : p \in {q \in S : q[1] = i}} : j <= k
  <2>1. /\ {p[2] : p \in {q \in S : q[1] = i}} \in SUBSET Nat
        /\ {p[2] : p \in {q \in S : q[1] = i}} # {}
    BY <1>1
  <2>. QED  BY <2>1, LeastNumber
<1>3. PICK p \in S : p[1] = i /\ p[2] = j
  BY <1>2
<1>4. ASSUME NEW q \in S  PROVE p = q \/ Precedes(p, q)
  <2>1. p = <<i, j>> /\ q = <<q[1], q[2]>> /\ q[1] \in Nat /\ q[2] \in Nat /\ i \in Nat /\ j \in Nat
    BY <1>3
  <2>2. i <= q[1]
    BY <1>1
  <2>3. CASE q[1] = i
    <3>1. j <= q[2]
      BY <1>2, <2>3
    <3>. QED  BY <2>1, <2>3, <3>1 DEF Precedes
  <2>4. CASE q[1] # i
    BY <2>1, <2>2, <2>4 DEF Precedes
  <2>. QED  BY <2>3, <2>4
<1>. QED  BY <1>4

(* A function on a finite set has finitely many values, and as many as     *)
(* arguments when no two arguments share one.                              *)
LEMMA FiniteRange ==
    ASSUME NEW S, IsFiniteSet(S), NEW f, DOMAIN f = S
    PROVE  LET R == {f[x] : x \in S}
           IN  /\ IsFiniteSet(R) /\ Cardinality(R) <= Cardinality(S)
               /\ (\A x, y \in S : f[x] = f[y] => x = y) => Cardinality(R) = Cardinality(S)
<1> DEFINE R == {f[x] : x \in S}
           g == [x \in S |-> f[x]]
<1>1. g \in Surjection(S, R)
  BY DEF Surjection
<1>2. (\A x, y \in S : f[x] = f[y] => x = y) => g \in Injection(S, R)
  BY DEF Injection, IsInjective
<1>. QED  BY <1>1, <1>2, FS_Surjection

LEMMA Segment ==
    ASSUME NEW n \in Nat  PROVE IsFiniteSet(1 .. n) /\ Cardinality(1 .. n) = n
BY FS_Interval

(* The first rule that applies decides. *)
LEMMA FirstRule ==
    ASSUME NEW rules, NEW n \in Nat, DOMAIN rules = 1 .. n, NEW default,
           NEW i \in 1 .. n, rules[i].when,
           \A j \in 1 .. n : j < i => ~rules[j].when
    PROVE  FirstOf(rules, default) = rules[i].take
<1> DEFINE hits == {k \in DOMAIN rules : rules[k].when}
<1>1. i \in hits /\ \A j \in hits : i <= j
  OBVIOUS
<1>2. \A k \in hits : (\A j \in hits : k <= j) => k = i
  BY <1>1
<1>3. (CHOOSE k \in hits : \A j \in hits : k <= j) = i
  BY <1>1, <1>2
<1>. QED  BY <1>1, <1>3 DEF FirstOf

-----------------------------------------------------------------------------
(* Where an event comes from *)

Scanner ==
    {"falco", "trivy", "prowler", "security-command-center", "cloud-logging", "mcp-server"}

LEMMA SpeltAsIs ==
    ASSUME NEW s \in {"", "mcp-audit", "security-command-center", "cloud-logging"}
    PROVE  Canonical(s) = s
BY FindingsAssumption DEF Canonical

LEMMA Inferred ==
    ASSUME NEW raw, Produced(raw)
    PROVE  Canonical(InferSource(raw)) =
              IF raw.from = "mcp-server" THEN "mcp-audit" ELSE raw.from
<1>0. DOMAIN SourceRules(raw) = 1 .. 4
  BY DEF SourceRules
<1>1. CASE Canonical(raw.attribute) = raw.from /\ raw.from \in {"trivy", "prowler", "falco"}
  <2>1. raw.attribute # ""
    BY <1>1, SpeltAsIs
  <2>. QED  BY <1>1, <2>1 DEF InferSource
<1>2. CASE raw.from = "mcp-server" /\ raw.attribute = "mcp-audit"
  BY <1>2, SpeltAsIs DEF InferSource
<1>3. CASE /\ raw.from = "security-command-center" /\ raw.attribute = ""
           /\ IsObject(raw) /\ Has(raw, {"finding"})
  <2>1. SourceRules(raw)[1].when /\ SourceRules(raw)[1].take = "security-command-center"
    BY <1>3 DEF SourceRules
  <2>2. \A j \in 1 .. 4 : j < 1 => ~SourceRules(raw)[j].when
    OBVIOUS
  <2>3. \E i \in 1 .. 4 : /\ SourceRules(raw)[i].when
                           /\ SourceRules(raw)[i].take = "security-command-center"
                           /\ \A j \in 1 .. 4 : j < i => ~SourceRules(raw)[j].when
    BY <2>1, <2>2
  <2>4. FirstOf(SourceRules(raw), "pubsub") = "security-command-center"
    BY <1>0, <2>3, FirstRule
  <2>5. InferSource(raw) = "security-command-center"
    BY <1>3, <2>4 DEF InferSource
  <2>. QED  BY <1>3, <2>5, SpeltAsIs
<1>4. CASE /\ raw.from = "cloud-logging" /\ raw.attribute = ""
           /\ IsObject(raw) /\ HasLogKey(raw) /\ ~Has(raw, {"finding"})
  <2>1. /\ SourceRules(raw)[2].when /\ ~SourceRules(raw)[1].when
        /\ SourceRules(raw)[2].take = "cloud-logging"
    BY <1>4 DEF SourceRules
  <2>2. \A j \in 1 .. 4 : j < 2 => ~SourceRules(raw)[j].when
    BY <2>1
  <2>3. \E i \in 1 .. 4 : /\ SourceRules(raw)[i].when
                           /\ SourceRules(raw)[i].take = "cloud-logging"
                           /\ \A j \in 1 .. 4 : j < i => ~SourceRules(raw)[j].when
    BY <2>1, <2>2
  <2>4. FirstOf(SourceRules(raw), "pubsub") = "cloud-logging"
    BY <1>0, <2>3, FirstRule
  <2>5. InferSource(raw) = "cloud-logging"
    BY <1>4, <2>4 DEF InferSource
  <2>. QED  BY <1>4, <2>5, SpeltAsIs
<1>. QED  BY <1>1, <1>2, <1>3, <1>4 DEF Produced

(* normalize 1216-1363: what the producers send goes to the normaliser of  *)
(* the scanner it is from, by its name or by its shape.                    *)
LEMMA OwnNormalizer ==
    ASSUME NEW raw, Produced(raw)
    PROVE  raw.from \in Scanner /\ Normalizer(InferSource(raw), raw) = raw.from
<1> DEFINE name == Canonical(InferSource(raw))
           rules == NormalizerRules(name, raw)
<1>1. raw.from \in Scanner
  BY DEF Produced, Scanner
<1>2. DOMAIN rules = 1 .. 14
  BY DEF NormalizerRules
<1>3. \E i \in 1 .. 14 : /\ rules[i].when /\ rules[i].take = raw.from
                         /\ \A j \in 1 .. 14 : j < i => ~rules[j].when
  <2>1. CASE raw.from = "trivy" \/ raw.from = "prowler"
    <3>1. name = raw.from
      BY <2>1, Inferred
    <3>2. /\ ~rules[1].when
          /\ rules[2].when <=> raw.from = "trivy"
          /\ rules[3].when <=> raw.from = "prowler"
          /\ rules[2].take = "trivy" /\ rules[3].take = "prowler"
      BY <2>1, <3>1 DEF NormalizerRules
    <3>. QED  BY <2>1, <3>2
  <2>2. CASE raw.from = "falco"
    <3>1. name = "falco" /\ IsObject(raw)
      BY <2>2, Inferred DEF Produced
    <3>2. rules[1].when /\ rules[1].take = "falco"
      BY <3>1 DEF NormalizerRules
    <3>. QED  BY <2>2, <3>2
  <2>3. CASE raw.from = "security-command-center"
    <3>1. name = "security-command-center" /\ IsObject(raw)
      BY <2>3, Inferred DEF Produced
    <3>2. /\ ~rules[1].when /\ ~rules[2].when /\ ~rules[3].when
          /\ rules[4].when /\ rules[4].take = "security-command-center"
      BY <3>1 DEF NormalizerRules
    <3>. QED  BY <2>3, <3>2
  <2>4. CASE raw.from = "cloud-logging"
    <3>1. name = "cloud-logging" /\ IsObject(raw)
      BY <2>4, Inferred DEF Produced
    <3>2. /\ ~rules[1].when /\ ~rules[2].when /\ ~rules[3].when /\ ~rules[4].when
          /\ rules[5].when /\ rules[5].take = "cloud-logging"
      BY <3>1 DEF NormalizerRules
    <3>. QED  BY <2>4, <3>2
  <2>5. CASE raw.from = "mcp-server"
    <3>1. name = "mcp-audit" /\ IsObject(raw) /\ raw.keys = {"mcp", "tool"}
          /\ raw.form # "list"
      BY <2>5, Inferred DEF Produced, IsObject
    <3>2. /\ ~rules[1].when /\ ~rules[2].when /\ ~rules[3].when /\ ~rules[4].when
          /\ ~rules[5].when /\ ~rules[6].when
      BY <3>1 DEF NormalizerRules
    <3>3. /\ ~rules[7].when /\ ~rules[8].when /\ ~rules[9].when /\ ~rules[10].when
          /\ ~rules[11].when /\ rules[12].when /\ rules[12].take = "mcp-server"
      BY <3>1 DEF NormalizerRules, Has, HasLogKey
    <3>. QED  BY <2>5, <3>2, <3>3
  <2>. QED  BY <1>1, <2>1, <2>2, <2>3, <2>4, <2>5 DEF Scanner
<1>4. FirstOf(rules, "unclassified") = raw.from
  BY <1>2, <1>3, FirstRule
<1>. QED  BY <1>1, <1>4 DEF Normalizer

-----------------------------------------------------------------------------
(* The findings of an event *)

LEMMA FindingNames ==
    ASSUME NEW who \in Scanner, NEW source, NEW item \in ItemType,
           who = "trivy" =>
              item.kind \in {"vulnerability", "misconfiguration", "secret", "summary"}
    PROVE  /\ FindingOf(who, source, item).item = item.name
           /\ FindingOf(who, source, item).source = who
<1>1. CASE who = "trivy"
  <2>1. Trivy(item).item = item.name /\ Trivy(item).source = "trivy"
    BY <1>1 DEF Trivy, Vulnerability, Misconfiguration, Secret, ScanSummary, Finding
  <2>. QED  BY <1>1, <2>1 DEF FindingOf
<1>2. CASE who = "falco"
  BY <1>2 DEF FindingOf, Falco, Finding, ItemType
<1>3. CASE who \notin {"trivy", "falco"}
  BY <1>3 DEF FindingOf, Prowler, Scc, Logging, McpAudit, Finding, Scanner
<1>. QED  BY <1>1, <1>2, <1>3

LEMMA PlacesTyped ==
    ASSUME NEW raw \in RawEventType
    PROVE  /\ Places(raw) \in SUBSET (Nat \X Nat)
           /\ IsFiniteSet(Places(raw))
           /\ \A p \in Places(raw) :
                 /\ p = <<p[1], p[2]>> /\ p[1] \in DOMAIN raw.parts
                 /\ p[2] \in DOMAIN raw.parts[p[1]]
                 /\ At(raw, p) \in ItemType
           /\ \A i \in DOMAIN raw.parts : \A j \in DOMAIN raw.parts[i] :
                 <<i, j>> \in Places(raw)
<1> DEFINE column == [i \in DOMAIN raw.parts |-> {i} \X DOMAIN raw.parts[i]]
<1>1. raw.parts \in Seq(Seq(ItemType))
  BY DEF RawEventType
<1>2. \A i \in DOMAIN raw.parts : raw.parts[i] \in Seq(ItemType)
  BY <1>1
<1>3. /\ DOMAIN raw.parts = 1 .. Len(raw.parts) /\ Len(raw.parts) \in Nat
      /\ \A i \in DOMAIN raw.parts : /\ DOMAIN raw.parts[i] = 1 .. Len(raw.parts[i])
                                      /\ Len(raw.parts[i]) \in Nat
  BY <1>1, <1>2
<1>4. ASSUME NEW p \in Places(raw)
      PROVE  /\ p = <<p[1], p[2]>> /\ p[1] \in DOMAIN raw.parts
             /\ p[2] \in DOMAIN raw.parts[p[1]]
             /\ At(raw, p) \in ItemType
             /\ p \in Nat \X Nat
  <2>1. PICK i \in DOMAIN raw.parts : p \in {i} \X DOMAIN raw.parts[i]
    BY DEF Places
  <2>2. p = <<p[1], p[2]>> /\ p[1] = i /\ p[2] \in DOMAIN raw.parts[i]
    BY <2>1
  <2>3. raw.parts[p[1]][p[2]] \in ItemType
    BY <1>2, <2>1, <2>2
  <2>. QED  BY <1>3, <2>2, <2>3 DEF At
<1>5. \A i \in DOMAIN raw.parts : \A j \in DOMAIN raw.parts[i] : <<i, j>> \in Places(raw)
  BY DEF Places
<1>6. IsFiniteSet(Places(raw))
  <2> DEFINE columns == {column[i] : i \in DOMAIN raw.parts}
  <2>1. ASSUME NEW i \in DOMAIN raw.parts  PROVE IsFiniteSet(column[i])
    <3>1. IsFiniteSet({i})
      BY FS_Singleton
    <3>2. IsFiniteSet(1 .. Len(raw.parts[i]))
      BY <1>3, Segment
    <3>3. IsFiniteSet({i} \X (1 .. Len(raw.parts[i])))
      BY <3>1, <3>2, FS_Product
    <3>. QED  BY <1>3, <3>3
  <2>2. IsFiniteSet(columns)
    <3>1. IsFiniteSet(DOMAIN raw.parts) /\ DOMAIN column = DOMAIN raw.parts
      BY <1>3, Segment
    <3>. HIDE DEF column
    <3>. QED  BY <3>1, FiniteRange
  <2>3. \A S \in columns : IsFiniteSet(S)
    BY <2>1
  <2>4. IsFiniteSet(UNION columns)
    BY <2>2, <2>3, FS_UNION
  <2>5. Places(raw) = UNION columns
    BY DEF Places
  <2>. QED  BY <2>4, <2>5
<1>. QED  BY <1>4, <1>5, <1>6

LEMMA Limits == MaxFindings \in Nat /\ BatchSize \in Nat /\ 1 <= BatchSize /\ BatchSize <= MaxFindings
<1>1. MaxFindings \in Nat \ {0}
  BY FindingsAssumption
<1>2. BatchSize \in Nat \ {0} /\ BatchSize <= MaxFindings
  BY AggregatorAssumption
<1>. QED  BY <1>1, <1>2

(* Unless all are kept, MaxFindings of them are at least: those before the *)
(* first that is dropped.                                                  *)
LEMMA KeptAreMany ==
    ASSUME NEW places \in SUBSET (Nat \X Nat), IsFiniteSet(places), Kept(places) # places
    PROVE  \E S \in SUBSET Kept(places) : IsFiniteSet(S) /\ Cardinality(S) >= MaxFindings
<1> DEFINE before(p) == {q \in places : Precedes(q, p)}
<1>1. Kept(places) = {p \in places : Cardinality(before(p)) < MaxFindings}
  BY DEF Kept
<1>2. places \ Kept(places) # {} /\ places \ Kept(places) \in SUBSET (Nat \X Nat)
  BY <1>1
<1>3. PICK p \in places \ Kept(places) :
         \A q \in places \ Kept(places) : p = q \/ Precedes(p, q)
  BY <1>2, FirstPlace
<1>4. IsFiniteSet(before(p)) /\ Cardinality(before(p)) \in Nat
  BY FS_Subset, FS_CardinalityType
<1>5. Cardinality(before(p)) >= MaxFindings
  <2>1. p \in places /\ ~(Cardinality(before(p)) < MaxFindings)
    BY <1>3 DEF Kept
  <2>. HIDE DEF before
  <2>. QED  BY <1>4, <2>1, Limits
<1>6. before(p) \subseteq Kept(places)
  <2> SUFFICES ASSUME NEW q \in places, Precedes(q, p), q \notin Kept(places)
               PROVE  FALSE
    OBVIOUS
  <2>1. p = q \/ Precedes(p, q)
    BY <1>3
  <2>2. p[1] \in Nat /\ p[2] \in Nat /\ q[1] \in Nat /\ q[2] \in Nat
    OBVIOUS
  <2>. QED  BY <2>1, <2>2 DEF Precedes
<1>. QED  BY <1>4, <1>5, <1>6

(* Of a single part that is short enough nothing is dropped. *)
LEMMA KeptAreAll ==
    ASSUME NEW n \in Nat, n <= MaxFindings, NEW places \in SUBSET ({1} \X (1 .. n))
    PROVE  Kept(places) = places
<1> SUFFICES ASSUME NEW p \in places
             PROVE  Cardinality({q \in places : Precedes(q, p)}) < MaxFindings
  BY DEF Kept
<1> DEFINE before == {q \in places : Precedes(q, p)}
<1>1. p[1] = 1 /\ p[2] \in 1 .. n
  OBVIOUS
<1>2. before \subseteq {1} \X (1 .. (p[2] - 1))
  <2> SUFFICES ASSUME NEW q \in places, Precedes(q, p)
               PROVE  q \in {1} \X (1 .. (p[2] - 1))
    OBVIOUS
  <2>1. q = <<1, q[2]>> /\ q[1] = 1 /\ q[2] \in 1 .. n
    OBVIOUS
  <2>2. q[2] < p[2]
    BY <1>1, <2>1 DEF Precedes
  <2>3. q[2] \in 1 .. (p[2] - 1)
    BY <1>1, <2>1, <2>2
  <2>. QED  BY <2>1, <2>3
<1>3. /\ IsFiniteSet({1} \X (1 .. (p[2] - 1)))
      /\ Cardinality({1} \X (1 .. (p[2] - 1))) = p[2] - 1
  <2>1. IsFiniteSet({1}) /\ Cardinality({1}) = 1
    BY FS_Singleton
  <2>2. IsFiniteSet(1 .. (p[2] - 1)) /\ Cardinality(1 .. (p[2] - 1)) = p[2] - 1
    <3>1. p[2] - 1 \in Nat
      BY <1>1
    <3>. QED  BY <3>1, Segment
  <2>3. /\ IsFiniteSet({1} \X (1 .. (p[2] - 1)))
        /\ Cardinality({1} \X (1 .. (p[2] - 1))) = 1 * (p[2] - 1)
    BY <2>1, <2>2, FS_Product
  <2>. QED  BY <1>1, <2>3
<1>4. Cardinality(before) <= p[2] - 1
  BY <1>2, <1>3, FS_Subset
<1>5. Cardinality(before) \in Nat
  BY <1>2, <1>3, FS_Subset, FS_CardinalityType
<1>6. Cardinality(before) < MaxFindings
  <2>. HIDE DEF before
  <2>. QED  BY <1>1, <1>4, <1>5, Limits
<1>. QED  BY <1>6

(* Where a raw event yields findings, before the limit, and which. *)
Yield(raw) == UNION {{i} \X Reported(raw.from, raw.parts[i]) : i \in DOMAIN raw.parts}
FindingAt(raw, p) == FindingOf(raw.from, InferSource(raw), At(raw, p))
Result(raw) == Normalize(InferSource(raw), raw)

LEMMA YieldTyped ==
    ASSUME NEW raw, Produced(raw)
    PROVE  /\ Yield(raw) \subseteq Places(raw)
           /\ \A p \in Places(raw) :
                 At(raw, p).kind \notin {"junk", "summary", "passed"} => p \in Yield(raw)
           /\ \A p \in Yield(raw) : /\ FindingAt(raw, p).item = At(raw, p).name
                                     /\ FindingAt(raw, p).source = raw.from
<1>1. raw \in RawEventType /\ raw.from \in Scanner
  BY OwnNormalizer DEF Produced
<1>2. \A i \in DOMAIN raw.parts :
         /\ Reported(raw.from, raw.parts[i]) \subseteq DOMAIN raw.parts[i]
         /\ \A j \in DOMAIN raw.parts[i] :
               raw.parts[i][j].kind \notin {"junk", "summary", "passed"}
               => j \in Reported(raw.from, raw.parts[i])
         /\ raw.from = "trivy" => \A j \in Reported(raw.from, raw.parts[i]) :
                                     raw.parts[i][j].kind # "junk"
  BY DEF Reported
<1>3. ASSUME NEW p \in Yield(raw)
      PROVE  p \in Places(raw) /\ (raw.from = "trivy" => At(raw, p).kind # "junk")
  <2>1. PICK i \in DOMAIN raw.parts : p \in {i} \X Reported(raw.from, raw.parts[i])
    BY DEF Yield
  <2>2. p = <<i, p[2]>> /\ p[1] = i /\ p[2] \in Reported(raw.from, raw.parts[i])
    BY <2>1
  <2>3. p \in {i} \X DOMAIN raw.parts[i]
    BY <1>2, <2>1
  <2>. QED  BY <1>2, <2>2, <2>3 DEF Places, At
<1>4. ASSUME NEW p \in Places(raw),
             At(raw, p).kind \notin {"junk", "summary", "passed"}
      PROVE  p \in Yield(raw)
  <2>1. /\ p = <<p[1], p[2]>> /\ p[1] \in DOMAIN raw.parts
        /\ p[2] \in DOMAIN raw.parts[p[1]]
    BY <1>1, PlacesTyped
  <2>2. p[2] \in Reported(raw.from, raw.parts[p[1]])
    BY <1>2, <1>4, <2>1 DEF At
  <2>3. p \in {p[1]} \X Reported(raw.from, raw.parts[p[1]])
    BY <2>1, <2>2
  <2>. QED  BY <2>1, <2>3 DEF Yield
<1>5. ASSUME NEW p \in Yield(raw)
      PROVE  FindingAt(raw, p).item = At(raw, p).name /\ FindingAt(raw, p).source = raw.from
  <2>1. At(raw, p) \in ItemType
    BY <1>1, <1>3, PlacesTyped
  <2>2. raw.from = "trivy" => At(raw, p).kind \in
           {"vulnerability", "misconfiguration", "secret", "summary"}
    BY <1>3 DEF Produced
  <2>. QED  BY <1>1, <2>1, <2>2, FindingNames DEF FindingAt
<1>. QED  BY <1>3, <1>4, <1>5

LEMMA Normalized ==
    ASSUME NEW raw, Produced(raw)
    PROVE  Result(raw) = {FindingAt(raw, p) : p \in Kept(Yield(raw))}
BY OwnNormalizer DEF Result, Normalize, Yield, FindingAt

LEMMA FindingFrom ==
    ASSUME NEW raw, Produced(raw), NEW f \in Result(raw)
    PROVE  \E p \in Places(raw) : /\ f = FindingAt(raw, p)
                                  /\ f.item = At(raw, p).name /\ f.source = raw.from
<1>1. PICK p \in Kept(Yield(raw)) : f = FindingAt(raw, p)
  BY Normalized
<1>2. p \in Yield(raw)
  BY DEF Kept
<1>. QED  BY <1>1, <1>2, YieldTyped

OwnNames(raw) == \A x, y \in Places(raw) : At(raw, x).name = At(raw, y).name => x = y

(* Once the findings of an event are out, all it reports is, or as many as *)
(* an event may have.                                                      *)
LEMMA WholeEvent ==
    ASSUME NEW raw, Produced(raw), OwnNames(raw), NEW names,
           \A f \in Result(raw) : f.item \in names
    PROVE  LET out == names \cap {i.name : i \in Items(raw)}
           IN  Reports(raw) \subseteq out \/ Cardinality(out) >= MaxFindings
<1> DEFINE own == {i.name : i \in Items(raw)}
           out == names \cap own
<1>1. raw \in RawEventType
  BY DEF Produced
<1>2. ASSUME NEW p \in Kept(Yield(raw))
      PROVE  At(raw, p).name \in out
  <2>1. p \in Yield(raw) /\ p \in Places(raw)
    BY YieldTyped DEF Kept
  <2>2. At(raw, p).name \in names
    BY <2>1, Normalized, YieldTyped
  <2>3. At(raw, p) \in Items(raw)
    BY <2>1 DEF Items
  <2>. QED  BY <2>2, <2>3
<1>3. CASE Kept(Yield(raw)) = Yield(raw)
  <2>1. ASSUME NEW r \in Reports(raw)  PROVE r \in out
    <3>1. PICK i \in Items(raw) : i.kind \notin {"junk", "summary", "passed"} /\ r = i.name
      BY DEF Reports
    <3>2. PICK p \in Places(raw) : i = At(raw, p)
      BY DEF Items
    <3>. QED  BY <1>2, <1>3, <3>1, <3>2, YieldTyped
  <2>. QED  BY <2>1
<1>4. CASE Kept(Yield(raw)) # Yield(raw)
  <2>1. Yield(raw) \in SUBSET (Nat \X Nat) /\ IsFiniteSet(Yield(raw))
    BY <1>1, YieldTyped, PlacesTyped, FS_Subset
  <2>2. PICK S \in SUBSET Kept(Yield(raw)) : IsFiniteSet(S) /\ Cardinality(S) >= MaxFindings
    BY <1>4, <2>1, KeptAreMany
  <2> DEFINE name == [p \in S |-> At(raw, p).name]
  <2>3. \A x, y \in S : name[x] = name[y] => x = y
    BY YieldTyped DEF Kept, OwnNames
  <2>4. Cardinality({name[x] : x \in S}) = Cardinality(S)
    <3>1. DOMAIN name = S
      OBVIOUS
    <3>. HIDE DEF name
    <3>. QED  BY <2>2, <2>3, <3>1, FiniteRange
  <2>5. {name[x] : x \in S} \subseteq out
    BY <1>2
  <2>6. IsFiniteSet(out)
    <3> DEFINE all == [p \in Places(raw) |-> At(raw, p).name]
    <3>1. DOMAIN all = Places(raw) /\ own = {all[p] : p \in Places(raw)}
      BY DEF Items
    <3>2. IsFiniteSet(own)
      <4>. HIDE DEF all, own
      <4>. QED  BY <1>1, <3>1, PlacesTyped, FiniteRange
    <3>. QED  BY <3>2, FS_Subset
  <2>7. Cardinality({name[x] : x \in S}) <= Cardinality(out) /\ Cardinality(out) \in Nat
    BY <2>5, <2>6, FS_Subset, FS_CardinalityType
  <2>8. Cardinality(S) \in Nat
    BY <2>2, FS_CardinalityType
  <2>9. Cardinality(out) >= MaxFindings
    <3>. HIDE DEF name, out
    <3>. QED  BY <2>2, <2>4, <2>7, <2>8, Limits
  <2>. QED  BY <2>9
<1>. QED  BY <1>3, <1>4

-----------------------------------------------------------------------------
(* The batches of a report *)

LEMMA CeilingDivision ==
    ASSUME NEW n \in Nat, NEW b \in Nat, 1 <= b
    PROVE  LET c == (n + b - 1) \div b
           IN  c \in Nat /\ n <= c * b /\ c * b <= n + b - 1
OBVIOUS

LEMMA ProductGrows ==
    ASSUME NEW b \in Nat, NEW x \in Nat, NEW y \in Nat, x <= y
    PROVE  x * b <= y * b /\ x * b \in Nat /\ (x + 1) * b = x * b + b
OBVIOUS

(* A long list of checks is all of what its scan reports. *)
LEMMA SplitIsProwler ==
    ASSUME NEW raw, Produced(raw), Split(raw)
    PROVE  raw.from = "prowler" /\ Len(raw.parts) = 1 /\ raw.parts[1] \in Seq(ItemType)
<1>1. raw.from = "prowler"
  <2>1. Canonical("prowler") = "prowler"
    BY FindingsAssumption DEF Canonical
  <2>. QED  BY <2>1 DEF Produced, Split
<1>. QED  BY <1>1 DEF Produced, RawEventType

(* Where the k-th batch starts, and how long it is. *)
Offset(k) == (k - 1) * BatchSize
Extent(raw, k) ==
    IF k * BatchSize <= Len(raw.parts[1]) THEN BatchSize
    ELSE Len(raw.parts[1]) - Offset(k)

LEMMA BatchShape ==
    ASSUME NEW raw, Produced(raw), Split(raw), NEW k \in 1 .. Chunks(raw)
    PROVE  /\ Offset(k) \in Nat /\ Extent(raw, k) \in 1 .. BatchSize
           /\ Offset(k) + Extent(raw, k) <= Len(raw.parts[1])
           /\ BatchPayload(raw, k) =
                 [raw EXCEPT !.parts =
                    <<SubSeq(@[1], Offset(k) + 1, Offset(k) + Extent(raw, k))>>]
<1> DEFINE n == Len(raw.parts[1])
           c == Chunks(raw)
<1>1. n \in Nat
  BY SplitIsProwler
<1>2. c = (n + BatchSize - 1) \div BatchSize
  BY DEF Chunks
<1>3. c \in Nat /\ c * BatchSize <= n + BatchSize - 1
  <2>. HIDE DEF n
  <2>. QED  BY <1>1, <1>2, Limits, CeilingDivision
<1>. HIDE DEF n, c
<1>4. k \in 1 .. c
  BY DEF c
<1>5. /\ (k - 1) * BatchSize \in Nat /\ k * BatchSize \in Nat
      /\ k * BatchSize = (k - 1) * BatchSize + BatchSize
      /\ k * BatchSize <= c * BatchSize
  <2>1. k - 1 \in Nat /\ k \in Nat /\ k <= c /\ (k - 1) + 1 = k
    BY <1>3, <1>4
  <2>2. k * BatchSize <= c * BatchSize
    BY <1>3, <2>1, Limits, ProductGrows
  <2>3. (k - 1) * BatchSize \in Nat /\ ((k - 1) + 1) * BatchSize = (k - 1) * BatchSize + BatchSize
    BY <2>1, Limits, ProductGrows
  <2>. QED  BY <2>1, <2>2, <2>3, Limits
<1>6. (k - 1) * BatchSize < n
  <2> DEFINE x == (k - 1) * BatchSize
             y == k * BatchSize
             z == c * BatchSize
  <2>1. x \in Nat /\ y = x + BatchSize /\ y <= z /\ z <= n + BatchSize - 1
    BY <1>3, <1>5
  <2>2. z \in Int
    BY <1>3, Limits
  <2>. HIDE DEF x, y, z
  <2>3. x < n
    BY <1>1, <2>1, <2>2, Limits
  <2>. QED  BY <2>3 DEF x
<1>7. Offset(k) \in Nat /\ Offset(k) < n /\ k * BatchSize = Offset(k) + BatchSize
  BY <1>5, <1>6 DEF Offset
<1>8. /\ Extent(raw, k) \in 1 .. BatchSize
      /\ Offset(k) + Extent(raw, k) = IF k * BatchSize <= n THEN k * BatchSize ELSE n
      /\ Offset(k) + Extent(raw, k) <= n
  <2>1. Extent(raw, k) = IF k * BatchSize <= n THEN BatchSize ELSE n - Offset(k)
    BY DEF Extent, n
  <2>. QED  BY <1>1, <1>7, <2>1, Limits
<1>9. BatchPayload(raw, k) =
        [raw EXCEPT !.parts = <<SubSeq(@[1], (k - 1) * BatchSize + 1,
                                   IF k * BatchSize <= n THEN k * BatchSize ELSE n)>>]
  BY DEF BatchPayload, n
<1>. QED  BY <1>7, <1>8, <1>9 DEF Offset, n

(* A batch is an event of its scan again, and holds a stretch of its list. *)
LEMMA BatchItems ==
    ASSUME NEW raw, Produced(raw), Split(raw), NEW k \in 1 .. Chunks(raw)
    PROVE  LET b == BatchPayload(raw, k)
           IN  /\ Produced(b) /\ b.from = raw.from
               /\ Places(b) = {1} \X (1 .. Extent(raw, k))
               /\ \A q \in 1 .. Extent(raw, k) :
                     /\ <<1, Offset(k) + q>> \in Places(raw)
                     /\ At(b, <<1, q>>) = At(raw, <<1, Offset(k) + q>>)
<1> DEFINE b == BatchPayload(raw, k)
           list == raw.parts[1]
           m == Offset(k)
           n == Extent(raw, k)
           short == SubSeq(list, m + 1, m + n)
<1>1. /\ m \in Nat /\ n \in 1 .. BatchSize /\ m + n <= Len(list)
      /\ b = [raw EXCEPT !.parts = <<short>>]
  BY BatchShape
<1>2. raw.from = "prowler" /\ Len(raw.parts) = 1 /\ list \in Seq(ItemType)
      /\ raw \in RawEventType
  BY SplitIsProwler DEF Produced
<1>. HIDE DEF b, m, n
<1>3. n \in Nat /\ 1 <= n
  BY <1>1, Limits
<1>4. short \in Seq(ItemType) /\ Len(short) = n /\ \A q \in 1 .. n : short[q] = list[m + q]
  <2>. HIDE DEF list
  <2>1. \A q \in 1 .. n : m + q \in 1 .. Len(list)
    BY <1>1, <1>2, <1>3
  <2>2. m + 1 \in Int /\ m + n \in Int
    BY <1>1, <1>3
  <2>3. ASSUME NEW i \in (m + 1) .. (m + n)  PROVE list[i] \in ItemType
    <3>1. i \in 1 .. Len(list)
      BY <1>1, <1>2, <1>3
    <3>. QED  BY <1>2, <3>1
  <2>4. /\ SubSeq(list, m + 1, m + n) \in Seq(ItemType)
        /\ Len(SubSeq(list, m + 1, m + n)) =
              IF m + 1 <= m + n THEN (m + n) - (m + 1) + 1 ELSE 0
        /\ \A i \in 1 .. ((m + n) - (m + 1) + 1) :
              SubSeq(list, m + 1, m + n)[i] = list[(m + 1) + i - 1]
    BY <2>2, <2>3, SubSeqProperties
  <2>5. (m + n) - (m + 1) + 1 = n /\ \A q \in 1 .. n : (m + 1) + q - 1 = m + q
    BY <1>1, <1>3
  <2>6. m + 1 <= m + n
    BY <1>1, <1>3
  <2>7. short \in Seq(ItemType) /\ Len(short) = n
    BY <2>4, <2>5, <2>6
  <2>8. ASSUME NEW q \in 1 .. n  PROVE short[q] = list[m + q]
    <3>1. short[q] = list[(m + 1) + q - 1]
      BY <2>4, <2>5
    <3>. QED  BY <2>5, <3>1
  <2>. QED  BY <2>7, <2>8
<1>. HIDE DEF short, list
<1>5. b \in RawEventType /\ b.parts = <<short>> /\ b.from = raw.from
      /\ b.attribute = raw.attribute
  <2>1. <<short>> \in Seq(Seq(ItemType))
    BY <1>4
  <2>. QED  BY <1>1, <1>2, <2>1 DEF RawEventType
<1>6. Produced(b)
  <2>1. Len(b.parts) = 1
    BY <1>5
  <2>2. Canonical(raw.attribute) = "prowler"
    BY <1>2 DEF Produced
  <2>. QED  BY <1>2, <1>5, <2>1, <2>2 DEF Produced
<1>7. DOMAIN b.parts = {1} /\ DOMAIN b.parts[1] = 1 .. n
  BY <1>4, <1>5
<1>8. Places(b) = {1} \X (1 .. n)
  BY <1>7 DEF Places
<1>9. ASSUME NEW q \in 1 .. n
      PROVE  /\ <<1, m + q>> \in Places(raw)
             /\ At(b, <<1, q>>) = At(raw, <<1, m + q>>)
  <2>1. m + q \in DOMAIN list /\ 1 \in DOMAIN raw.parts
    BY <1>1, <1>2, <1>3 DEF RawEventType
  <2>2. <<1, m + q>> \in Places(raw)
    BY <1>2, <2>1, PlacesTyped DEF list
  <2>3. At(b, <<1, q>>) = short[q] /\ At(raw, <<1, m + q>>) = list[m + q]
    BY <1>5 DEF At, list
  <2>. QED  BY <1>4, <2>2, <2>3
<1>. QED  BY <1>5, <1>6, <1>8, <1>9 DEF b, m, n

(* Every check is in a batch. *)
LEMMA BatchesCover ==
    ASSUME NEW raw, Produced(raw), Split(raw), NEW j \in 1 .. Len(raw.parts[1])
    PROVE  \E k \in 1 .. Chunks(raw) : \E q \in 1 .. Extent(raw, k) : j = Offset(k) + q
<1> DEFINE n == Len(raw.parts[1])
           c == (n + BatchSize - 1) \div BatchSize
           k == (j + BatchSize - 1) \div BatchSize
<1>1. n \in Nat /\ j \in 1 .. n
  BY SplitIsProwler
<1>2. Chunks(raw) = c
  BY DEF Chunks
<1>. HIDE DEF n
<1>3. c \in Nat /\ n <= c * BatchSize /\ k \in Nat /\ j <= k * BatchSize
      /\ k * BatchSize <= j + BatchSize - 1
  <2>1. c \in Nat /\ n <= c * BatchSize
    BY <1>1, Limits, CeilingDivision
  <2>2. j \in Nat
    BY <1>1
  <2>3. k \in Nat /\ j <= k * BatchSize /\ k * BatchSize <= j + BatchSize - 1
    BY <2>2, Limits, CeilingDivision
  <2>. QED  BY <2>1, <2>3
<1>. HIDE DEF c, k
<1>4. k # 0
  BY <1>1, <1>3, Limits
<1>5. k <= c
  <2> SUFFICES ASSUME c + 1 <= k  PROVE FALSE
    BY <1>3
  <2>1. c + 1 \in Nat
    BY <1>3
  <2>2. (c + 1) * BatchSize <= k * BatchSize /\ k * BatchSize \in Nat
    BY <1>3, <2>1, Limits, ProductGrows
  <2>3. (c + 1) * BatchSize = c * BatchSize + BatchSize /\ c * BatchSize \in Nat
    BY <1>3, Limits, ProductGrows
  <2> DEFINE x == c * BatchSize
             y == k * BatchSize
  <2>4. /\ x \in Nat /\ y \in Nat /\ x + BatchSize <= y
        /\ n <= x /\ y <= j + BatchSize - 1
    BY <1>3, <2>2, <2>3
  <2>. HIDE DEF x, y
  <2>. QED  BY <1>1, <2>4, Limits
<1>6. k * BatchSize = Offset(k) + BatchSize /\ Offset(k) \in Nat
  <2>1. k - 1 \in Nat /\ (k - 1) + 1 = k
    BY <1>3, <1>4
  <2>2. ((k - 1) + 1) * BatchSize = (k - 1) * BatchSize + BatchSize
        /\ (k - 1) * BatchSize \in Nat
    BY <2>1, Limits, ProductGrows
  <2>. QED  BY <2>1, <2>2 DEF Offset
<1>7. k \in 1 .. Chunks(raw)
  BY <1>2, <1>3, <1>4, <1>5
<1>8. j - Offset(k) \in 1 .. Extent(raw, k)
  <2>1. Extent(raw, k) = IF Offset(k) + BatchSize <= n THEN BatchSize ELSE n - Offset(k)
    BY <1>6 DEF Extent, n
  <2>2. j <= Offset(k) + BatchSize /\ Offset(k) + BatchSize <= j + BatchSize - 1
    BY <1>3, <1>6
  <2>. QED  BY <1>1, <1>6, <2>1, <2>2, Limits
<1>9. j = Offset(k) + (j - Offset(k))
  BY <1>1, <1>6
<1>. QED  BY <1>7, <1>8, <1>9

(* No check is in two batches. *)
LEMMA BatchesApart ==
    ASSUME NEW k \in Nat, 1 <= k, NEW l \in Nat, 1 <= l,
           NEW q \in 1 .. BatchSize, NEW r \in 1 .. BatchSize,
           Offset(k) + q = Offset(l) + r
    PROVE  k = l /\ q = r
<1>1. ASSUME NEW x \in Nat, 1 <= x, NEW y \in Nat, x < y
      PROVE  /\ Offset(x) \in Nat /\ Offset(y) \in Nat
             /\ Offset(x) + BatchSize <= Offset(y)
  <2>1. x - 1 \in Nat /\ y - 1 \in Nat /\ (x - 1) + 1 = x /\ x <= y - 1
    BY <1>1
  <2>2. /\ (x - 1) * BatchSize \in Nat
        /\ ((x - 1) + 1) * BatchSize = (x - 1) * BatchSize + BatchSize
        /\ x * BatchSize <= (y - 1) * BatchSize
        /\ (y - 1) * BatchSize \in Nat
    BY <2>1, Limits, ProductGrows
  <2>. QED  BY <2>1, <2>2 DEF Offset
<1>2. ~(k < l)
  <2> SUFFICES ASSUME k < l  PROVE FALSE
    OBVIOUS
  <2>1. Offset(k) \in Nat /\ Offset(l) \in Nat /\ Offset(k) + BatchSize <= Offset(l)
    BY <1>1
  <2>. QED  BY <2>1, Limits
<1>3. ~(l < k)
  <2> SUFFICES ASSUME l < k  PROVE FALSE
    OBVIOUS
  <2>1. Offset(k) \in Nat /\ Offset(l) \in Nat /\ Offset(l) + BatchSize <= Offset(k)
    BY <1>1
  <2>. QED  BY <2>1, Limits
<1>4. k = l
  BY <1>2, <1>3
<1>5. Offset(k) \in Int
  BY <1>1, Limits DEF Offset
<1>. QED  BY <1>4, <1>5

(* scanner_publisher.py payloads 135-162: a long list of checks is split so *)
(* that each check is in one batch, unchanged, and in no other.            *)
THEOREM BatchesPartition ==
    ASSUME NEW raw, Produced(raw), Split(raw), NEW j \in 1 .. Len(raw.parts[1])
    PROVE  LET Holds(k, q) == /\ k \in 1 .. Chunks(raw) /\ q \in 1 .. Extent(raw, k)
                              /\ Offset(k) + q = j
           IN  /\ \E k, q : /\ Holds(k, q)
                            /\ At(BatchPayload(raw, k), <<1, q>>) = At(raw, <<1, j>>)
               /\ \A k, q, l, r : Holds(k, q) /\ Holds(l, r) => k = l /\ q = r
<1> DEFINE Holds(k, q) == /\ k \in 1 .. Chunks(raw) /\ q \in 1 .. Extent(raw, k)
                          /\ Offset(k) + q = j
<1>1. \E k, q : Holds(k, q) /\ At(BatchPayload(raw, k), <<1, q>>) = At(raw, <<1, j>>)
  <2>1. PICK k \in 1 .. Chunks(raw) : \E q \in 1 .. Extent(raw, k) : j = Offset(k) + q
    BY BatchesCover
  <2>2. PICK q \in 1 .. Extent(raw, k) : j = Offset(k) + q
    BY <2>1
  <2>3. At(BatchPayload(raw, k), <<1, q>>) = At(raw, <<1, j>>)
    BY <2>2, BatchItems
  <2>. QED  BY <2>2, <2>3
<1>2. ASSUME NEW k, NEW q, NEW l, NEW r, Holds(k, q), Holds(l, r)
      PROVE  k = l /\ q = r
  <2>1. /\ k \in Nat /\ 1 <= k /\ l \in Nat /\ 1 <= l /\ Offset(k) + q = Offset(l) + r
        /\ k \in 1 .. Chunks(raw) /\ l \in 1 .. Chunks(raw)
    <3>1. Chunks(raw) \in Nat
      <4> DEFINE n == Len(raw.parts[1])
      <4>1. n \in Nat /\ Chunks(raw) = (n + BatchSize - 1) \div BatchSize
        BY SplitIsProwler DEF Chunks
      <4>. HIDE DEF n
      <4>2. n + BatchSize - 1 \in Nat
        BY <4>1, Limits
      <4>3. Chunks(raw) \in Nat
        BY <4>1, <4>2, Limits
      <4>. QED  BY <4>3
    <3>. HIDE DEF Offset
    <3>. QED  BY <1>2, <3>1
  <2>2. q \in 1 .. BatchSize /\ r \in 1 .. BatchSize
    <3>1. Extent(raw, k) \in 1 .. BatchSize /\ Extent(raw, l) \in 1 .. BatchSize
      BY <2>1, BatchShape
    <3>. HIDE DEF Extent
    <3>. QED  BY <1>2, <3>1, Limits
  <2>. QED  BY <2>1, <2>2, BatchesApart
<1>. QED  BY <1>1, <1>2

-----------------------------------------------------------------------------
(* Events and batches *)

(* What comes in is an input. *)
InputInv == \E i \in Inputs : sent = i.sent /\ upload = i.upload

Raw(o) == IF o \in Event THEN sent[o] ELSE upload[o]

LEMMA InputFacts ==
    ASSUME InputInv
    PROVE  /\ Event \subseteq Pulled \cup Hooked /\ Event \cap Nat = {}
           /\ DOMAIN upload \subseteq Nat
           /\ \A o \in Event \cup DOMAIN upload : Produced(Raw(o))
           /\ \A o, q \in Event \cup DOMAIN upload :
                 \A x \in Places(Raw(o)), y \in Places(Raw(q)) :
                    At(Raw(o), x).name = At(Raw(q), y).name => o = q /\ x = y
<1>1. PICK i \in Inputs : sent = i.sent /\ upload = i.upload
  BY DEF InputInv
<1>2. /\ Event \subseteq Pulled \cup Hooked
      /\ \A e \in Event : Produced(sent[e])
      /\ upload \in Seq(RawEventType) /\ \A d \in DOMAIN upload : Produced(upload[d])
      /\ NamesApart(i)
  BY <1>1, InputAssumption DEF Event
<1>3. Event \cap Nat = {}
  BY <1>2, AggregatorAssumption
<1>4. DOMAIN upload = 1 .. Len(upload)
  BY <1>2
<1>5. \A o \in Event \cup DOMAIN upload : Produced(Raw(o))
  BY <1>2 DEF Raw
<1>6. ASSUME NEW o \in Event \cup DOMAIN upload, NEW q \in Event \cup DOMAIN upload,
             NEW x \in Places(Raw(o)), NEW y \in Places(Raw(q)),
             At(Raw(o), x).name = At(Raw(q), y).name
      PROVE  o = q /\ x = y
  <2> DEFINE raw(a) == IF a \in DOMAIN i.sent THEN i.sent[a] ELSE i.upload[a]
  <2>1. \A a, b \in DOMAIN i.sent \cup DOMAIN i.upload :
           \A u \in Places(raw(a)), v \in Places(raw(b)) :
              At(raw(a), u).name = At(raw(b), v).name => a = b /\ u = v
    BY <1>2 DEF NamesApart
  <2>2. /\ Raw(o) = raw(o) /\ Raw(q) = raw(q)
        /\ o \in DOMAIN i.sent \cup DOMAIN i.upload
        /\ q \in DOMAIN i.sent \cup DOMAIN i.upload
    BY <1>1 DEF Raw, Event
  <2>. HIDE DEF raw
  <2>3. At(raw(o), x).name = At(raw(q), y).name
    BY <1>6, <2>2
  <2>. QED  BY <2>1, <2>2, <2>3
<1>. QED  BY <1>2, <1>3, <1>4, <1>5, <1>6

LEMMA BatchFacts ==
    ASSUME InputInv
    PROVE  /\ \A b \in Batch :
                 /\ b = <<b[1], b[2]>> /\ b \in Nat \X Nat
                 /\ b[1] \in DOMAIN upload /\ b[2] \in 1 .. Chunks(upload[b[1]])
                 /\ b \notin Event /\ b \notin Pulled \cup Hooked \cup {NoJob}
           /\ \A d \in DOMAIN upload : \A k \in 1 .. Chunks(upload[d]) : <<d, k>> \in Batch
<1>1. ASSUME NEW b \in Batch
      PROVE  /\ b = <<b[1], b[2]>> /\ b \in Nat \X Nat
             /\ b[1] \in DOMAIN upload /\ b[2] \in 1 .. Chunks(upload[b[1]])
  <2>1. PICK d \in DOMAIN upload : b \in {<<d, k>> : k \in 1 .. Chunks(upload[d])}
    BY DEF Batch
  <2>2. PICK k \in 1 .. Chunks(upload[d]) : b = <<d, k>>
    BY <2>1
  <2>3. d \in Nat /\ Chunks(upload[d]) \in Int
    <3>1. Produced(upload[d]) /\ d \in Nat
      BY InputFacts DEF Raw
    <3>2. CASE Split(upload[d])
      <4>1. Len(upload[d].parts[1]) \in Nat
        BY <3>1, <3>2, SplitIsProwler
      <4>2. (Len(upload[d].parts[1]) + BatchSize - 1) \div BatchSize \in Nat
        BY <4>1, Limits, CeilingDivision
      <4>. QED  BY <3>1, <3>2, <4>2 DEF Chunks
    <3>. QED  BY <3>1, <3>2 DEF Chunks
  <2>. QED  BY <2>2, <2>3
<1>2. \A b \in Batch : b \notin Pulled \cup Hooked \cup {NoJob}
  BY <1>1, AggregatorAssumption
<1>3. \A d \in DOMAIN upload : \A k \in 1 .. Chunks(upload[d]) : <<d, k>> \in Batch
  BY DEF Batch
<1>. QED  BY <1>1, <1>2, <1>3, InputFacts

LEMMA PayloadFacts ==
    ASSUME InputInv, NEW j \in Event \cup Batch
    PROVE  Produced(Payload(j)) /\ FindingsOf(j) = Result(Payload(j))
<1>1. PICK i \in Inputs : sent = i.sent /\ upload = i.upload
  BY DEF InputInv
<1>2. Produced(Payload(j)) /\ Payload(j) \in Arrival
  <2>1. CASE j \in Event
    <3>1. Payload(j) = i.sent[j] /\ j \in DOMAIN i.sent
      BY <1>1, <2>1 DEF Payload, Event
    <3>2. Payload(j) \in Arrival
      BY <3>1 DEF Arrival
    <3>. QED  BY <1>1, <2>1, <3>1, <3>2, InputFacts DEF Raw
  <2>2. CASE j \notin Event
    <3>1. /\ j[1] \in DOMAIN upload /\ j[2] \in 1 .. Chunks(upload[j[1]])
          /\ Payload(j) = BatchPayload(upload[j[1]], j[2])
      BY <2>2, BatchFacts DEF Payload
    <3>2. Payload(j) \in Arrival
      BY <1>1, <3>1 DEF Arrival
    <3>3. Produced(upload[j[1]])
      BY <3>1, InputFacts DEF Raw
    <3>4. Produced(Payload(j))
      <4>1. CASE Split(upload[j[1]])
        BY <3>1, <3>3, <4>1, BatchItems
      <4>2. CASE ~Split(upload[j[1]])
        BY <3>1, <3>3, <4>2 DEF BatchPayload
      <4>. QED  BY <4>1, <4>2
    <3>. QED  BY <3>2, <3>4
  <2>. QED  BY <2>1, <2>2
<1>3. \E m \in Made : m.payload = Payload(j)
  <2> DEFINE made(a) == [payload |-> a, findings |-> Normalize(InferSource(a), a)]
  <2>1. Made = {made(a) : a \in Arrival}
    BY DEF Made
  <2>2. made(Payload(j)).payload = Payload(j)
    OBVIOUS
  <2>. HIDE DEF made
  <2>. QED  BY <1>2, <2>1, <2>2
<1>4. \A m \in Made : m.payload = Payload(j) => m.findings = Result(Payload(j))
  BY DEF Made, Result
<1>5. FindingsOf(j) = Result(Payload(j))
  BY <1>3, <1>4 DEF FindingsOf
<1>. QED  BY <1>2, <1>5

(* The raw event a batch is of, and where its items stand there. *)
Origin(j) == IF j \in Event THEN j ELSE j[1]
Home(j, p) ==
    IF j \in Event \/ ~Split(upload[j[1]]) THEN p ELSE <<1, Offset(j[2]) + p[2]>>

LEMMA HomeHoldsIt ==
    ASSUME InputInv, NEW j \in Event \cup Batch, NEW p \in Places(Payload(j))
    PROVE  /\ Origin(j) \in Event \cup DOMAIN upload
           /\ Home(j, p) \in Places(Raw(Origin(j)))
           /\ At(Payload(j), p) = At(Raw(Origin(j)), Home(j, p))
<1>1. CASE j \in Event
  BY <1>1 DEF Origin, Home, Raw, Payload
<1>2. CASE j \notin Event
  <2>1. /\ j[1] \in DOMAIN upload /\ j[2] \in 1 .. Chunks(upload[j[1]])
        /\ Payload(j) = BatchPayload(upload[j[1]], j[2]) /\ Origin(j) = j[1]
    BY <1>2, BatchFacts DEF Payload, Origin
  <2>2. Raw(j[1]) = upload[j[1]] /\ Produced(upload[j[1]])
    BY <2>1, InputFacts DEF Raw
  <2>3. CASE Split(upload[j[1]])
    <3>1. p \in {1} \X (1 .. Extent(upload[j[1]], j[2]))
      BY <2>1, <2>2, <2>3, BatchItems
    <3>2. p = <<1, p[2]>> /\ p[2] \in 1 .. Extent(upload[j[1]], j[2])
      BY <3>1
    <3>3. Home(j, p) = <<1, Offset(j[2]) + p[2]>>
      BY <1>2, <2>3 DEF Home
    <3>. QED  BY <2>1, <2>2, <2>3, <3>2, <3>3, BatchItems
  <2>4. CASE ~Split(upload[j[1]])
    BY <1>2, <2>1, <2>2, <2>4 DEF Home, BatchPayload
  <2>. QED  BY <2>3, <2>4
<1>. QED  BY <1>1, <1>2

(* The name of an item tells the event or batch, and the place in it. *)
LEMMA NameTells ==
    ASSUME InputInv, NEW j \in Event \cup Batch, NEW k \in Event \cup Batch,
           NEW p \in Places(Payload(j)), NEW q \in Places(Payload(k)),
           At(Payload(j), p).name = At(Payload(k), q).name
    PROVE  j = k /\ p = q
<1>1. Origin(j) = Origin(k) /\ Home(j, p) = Home(k, q)
  BY HomeHoldsIt, InputFacts
<1>2. CASE j \in Event
  <2>1. k \in Event
    BY <1>1, <1>2, BatchFacts, InputFacts DEF Origin
  <2>. QED  BY <1>1, <1>2, <2>1 DEF Origin, Home
<1>3. CASE k \in Event
  <2>1. j \in Event
    BY <1>1, <1>3, BatchFacts, InputFacts DEF Origin
  <2>. QED  BY <1>1, <1>3, <2>1 DEF Origin, Home
<1>4. CASE j \notin Event /\ k \notin Event
  <2>1. /\ j = <<j[1], j[2]>> /\ k = <<k[1], k[2]>> /\ j[1] = k[1]
        /\ j[1] \in DOMAIN upload /\ j \in Batch /\ k \in Batch
        /\ j[2] \in 1 .. Chunks(upload[j[1]]) /\ k[2] \in 1 .. Chunks(upload[j[1]])
    BY <1>1, <1>4, BatchFacts DEF Origin
  <2> DEFINE raw == upload[j[1]]
  <2>2. Produced(raw) /\ Payload(j) = BatchPayload(raw, j[2]) /\ Payload(k) = BatchPayload(raw, k[2])
    BY <1>4, <2>1, InputFacts DEF Raw, Payload
  <2>3. CASE Split(raw)
    <3>1. /\ p \in {1} \X (1 .. Extent(raw, j[2]))
          /\ q \in {1} \X (1 .. Extent(raw, k[2]))
      BY <2>1, <2>2, <2>3, BatchItems
    <3>2. /\ Extent(raw, j[2]) \in 1 .. BatchSize /\ Extent(raw, k[2]) \in 1 .. BatchSize
      BY <2>1, <2>2, <2>3, BatchShape
    <3>3. /\ p = <<1, p[2]>> /\ q = <<1, q[2]>>
          /\ p[2] \in 1 .. BatchSize /\ q[2] \in 1 .. BatchSize
      <4>1. /\ p = <<1, p[2]>> /\ q = <<1, q[2]>>
            /\ p[2] \in 1 .. Extent(raw, j[2]) /\ q[2] \in 1 .. Extent(raw, k[2])
        BY <3>1
      <4>. QED  BY <3>2, <4>1, Limits
    <3>4. Offset(j[2]) + p[2] = Offset(k[2]) + q[2]
      BY <1>1, <1>4, <2>1, <2>3 DEF Home
    <3>5. j[2] \in Nat /\ 1 <= j[2] /\ k[2] \in Nat /\ 1 <= k[2]
      BY <2>1, BatchFacts
    <3>6. j[2] = k[2] /\ p[2] = q[2]
      BY <3>3, <3>4, <3>5, BatchesApart
    <3>. QED  BY <2>1, <3>3, <3>6
  <2>4. CASE ~Split(raw)
    <3>1. j[2] = 1 /\ k[2] = 1
      BY <2>1, <2>4 DEF Chunks
    <3>. QED  BY <1>1, <1>4, <2>1, <2>4, <3>1 DEF Home
  <2>. QED  BY <2>3, <2>4
<1>. QED  BY <1>2, <1>3, <1>4

-----------------------------------------------------------------------------
(* The inductive invariant *)

(* While the publisher waits there is a batch it waits for. *)
WaitInv == caller # NoHandler => Batch \ accepted # {}

(* A handler at work is an attempt that has been counted. *)
AttemptInv == \A h \in Handler : pc[h] # "idle" => attempt[h] \in 1 .. tries[job[h]]

(* What is on the topic comes from an attempt that was made. *)
TopicInv ==
    \A x \in topic : \E j \in Event \cup Batch : \E t \in 1 .. tries[j] :
        \E f \in FindingsOf(j) : x = Publication(f, j, t)

(* Who says that an event or batch is published has published all of it. *)
OnTopic(j) == \A f \in FindingsOf(j) : \E x \in topic : x.finding = f
PublishedInv ==
    /\ \A h \in Handler : pc[h] = "published" => OnTopic(job[h])
    /\ \A e \in Event : queue[e] = "acked" => OnTopic(e)
    /\ \A b \in accepted : OnTopic(b)
    /\ scanner = "done" => Batch \ accepted = {}

AggregatorInv ==
    InputInv /\ TypeOK /\ WaitInv /\ AttemptInv /\ TopicInv /\ PublishedInv

LEMMA CurrentIsOpen ==
    ASSUME InputInv, Batch \ accepted # {}
    PROVE  Current \in Batch \ accepted
<1>1. Batch \ accepted \in SUBSET (Nat \X Nat)
  BY BatchFacts
<1>2. \E b \in Batch \ accepted : \A c \in Batch \ accepted : b = c \/ Precedes(b, c)
  BY <1>1, FirstPlace
<1>. QED  BY <1>2 DEF Current

(* The events and the scan stay as they came. *)
LEMMA Frame ==
    ASSUME [Next]_vars
    PROVE  /\ sent' = sent /\ upload' = upload /\ Event' = Event /\ Batch' = Batch
           /\ \A j : FindingsOf(j)' = FindingsOf(j)
           /\ InputInv => InputInv'
           /\ accepted' = accepted => Current' = Current
<1>1. sent' = sent /\ upload' = upload
  BY DEF Next, vars, inputVars, Scan, ScanAgain, WaitForScan, LoadDocuments,
         AllReportsPublished, PostRefused, PostTimesOut, Post, Subscribe, MarkStarted,
         StreamEnds, StreamBreaks, Probe, Shutdown, Restart, DeadLetter, HookRefused,
         Work, Publish, ProcessFails, Ack, Nack, AnswerHook, AnswerScan, Deliver, Hook
<1>2. Event' = Event /\ Batch' = Batch
  BY <1>1 DEF Event, Batch, Chunks
<1>3. \A j : Payload(j)' = Payload(j)
  BY <1>1 DEF Payload, Event
<1>4. \A j : FindingsOf(j)' = FindingsOf(j)
  BY <1>3 DEF FindingsOf
<1>5. InputInv => InputInv'
  BY <1>1 DEF InputInv
<1>6. accepted' = accepted => Current' = Current
  BY <1>2 DEF Current
<1>. QED  BY <1>1, <1>2, <1>4, <1>5, <1>6

(* A handler takes an event or batch, or is done with its own. *)
LEMMA TakeStep ==
    ASSUME InputInv, TypeOK, [Next]_vars, NEW h \in Handler, NEW j \in Event \cup Batch,
           Take(h, j)
    PROVE  /\ tries' \in [Event' \cup Batch' -> Nat]
           /\ pc' \in [Handler -> {"idle", "received", "published", "failed"}]
           /\ job' \in [Handler -> Event' \cup Batch' \cup {NoJob}]
           /\ \A g \in Handler : pc'[g] = "idle" <=> job'[g] = NoJob
           /\ attempt' \in [Handler -> Nat]
           /\ pc'[h] = "received" /\ job'[h] = j /\ tries'[j] = tries[j] + 1
           /\ attempt'[h] = tries'[j]
           /\ \A g \in Handler \ {h} :
                 pc'[g] = pc[g] /\ job'[g] = job[g] /\ attempt'[g] = attempt[g]
           /\ \A k \in (Event \cup Batch) \ {j} : tries'[k] = tries[k]
           /\ pc[h] = "idle" /\ job[h] = NoJob
<1>1. j # NoJob
  BY BatchFacts, InputFacts, AggregatorAssumption
<1>2. Event' = Event /\ Batch' = Batch
  BY Frame
<1>. QED  BY <1>1, <1>2 DEF Take, TypeOK

LEMMA ReleaseStep ==
    ASSUME TypeOK, [Next]_vars, NEW h \in Handler, Release(h)
    PROVE  /\ pc' \in [Handler -> {"idle", "received", "published", "failed"}]
           /\ job' \in [Handler -> Event' \cup Batch' \cup {NoJob}]
           /\ \A g \in Handler : pc'[g] = "idle" <=> job'[g] = NoJob
           /\ attempt' \in [Handler -> Nat]
           /\ pc'[h] = "idle" /\ job'[h] = NoJob
           /\ \A g \in Handler \ {h} :
                 pc'[g] = pc[g] /\ job'[g] = job[g] /\ attempt'[g] = attempt[g]
<1>1. Event' = Event /\ Batch' = Batch
  BY Frame
<1>. QED  BY <1>1 DEF Release, TypeOK

(* The parts of TypeOK that an action changes or leaves alone. *)
QueueOK == queue \in [Event -> {"pending", "acked", "dead-lettered", "lost"}]
TriesOK == tries \in [Event \cup Batch -> Nat]
HandlerOK ==
    /\ pc \in [Handler -> {"idle", "received", "published", "failed"}]
    /\ job \in [Handler -> Event \cup Batch \cup {NoJob}]
    /\ attempt \in [Handler -> Nat]
    /\ \A h \in Handler : pc[h] = "idle" <=> job[h] = NoJob
PodOK ==
    /\ thread \in [Pod -> {"subscribing", "marking", "waiting", "ended"}]
    /\ stream \in [Pod -> {"none", "open", "failed", "closed"}]
    /\ started \in [Pod -> BOOLEAN] /\ endpoint \in [Pod -> BOOLEAN]
ScanOK ==
    /\ scanner \in {"waiting", "loading", "sending", "awaiting", "done", "failed"}
    /\ accepted \subseteq Batch
    /\ posts \in 0 .. MaxRetries
    /\ caller \in Handler \cup {NoHandler}
CallerOK == caller # NoHandler => scanner = "awaiting" /\ job[caller] = Current

LEMMA TypeParts ==
    TypeOK <=> QueueOK /\ TriesOK /\ HandlerOK /\ PodOK /\ ScanOK /\ CallerOK
BY DEF TypeOK, QueueOK, TriesOK, HandlerOK, PodOK, ScanOK, CallerOK

LEMMA PrimedParts ==
    QueueOK' /\ TriesOK' /\ HandlerOK' /\ PodOK' /\ ScanOK' /\ CallerOK' => TypeOK'
BY TypeParts, PTL

LEMMA UnchangedParts ==
    ASSUME TypeOK, [Next]_vars
    PROVE  /\ UNCHANGED queue => QueueOK'
           /\ UNCHANGED tries => TriesOK'
           /\ UNCHANGED handlerVars => HandlerOK'
           /\ UNCHANGED podVars => PodOK'
           /\ UNCHANGED scanVars => ScanOK'
           /\ UNCHANGED <<handlerVars, scanVars>> => CallerOK'
<1>1. /\ Event' = Event /\ Batch' = Batch
      /\ accepted' = accepted => Current' = Current
  BY Frame
<1>. QED  BY <1>1, TypeParts DEF QueueOK, TriesOK, HandlerOK, PodOK, ScanOK, CallerOK,
             handlerVars, podVars, scanVars

LEMMA PodStep ==
    ASSUME TypeOK, WaitInv, InputInv, [Next]_vars, NEW p \in Pod,
           \/ Subscribe(p) \/ MarkStarted(p) \/ StreamEnds(p) \/ StreamBreaks(p)
           \/ Probe(p) \/ Shutdown(p)
    PROVE  /\ PodOK' /\ UNCHANGED <<queueVars, handlerVars, topic, scanVars>>
<1>1. CASE Subscribe(p)
  BY <1>1 DEF Subscribe, TypeOK, PodOK
<1>2. CASE MarkStarted(p)
  BY <1>2 DEF MarkStarted, TypeOK, PodOK
<1>3. CASE StreamEnds(p)
  BY <1>3 DEF StreamEnds, TypeOK, PodOK
<1>4. CASE StreamBreaks(p)
  BY <1>4 DEF StreamBreaks, TypeOK, PodOK
<1>5. CASE Probe(p)
  BY <1>5 DEF Probe, TypeOK, PodOK
<1>6. CASE Shutdown(p)
  BY <1>6 DEF Shutdown, TypeOK, PodOK
<1>. QED  BY <1>1, <1>2, <1>3, <1>4, <1>5, <1>6

(* The caller of an attempt is at work on the current batch. *)
LEMMA CallerWorks ==
    ASSUME TypeOK, WaitInv, InputInv, caller # NoHandler
    PROVE  /\ caller \in Handler /\ job[caller] \in Batch \ accepted
           /\ job[caller] = Current /\ pc[caller] # "idle"
           /\ job[caller] \notin Pulled \cup Hooked \cup {NoJob}
<1>1. Current \in Batch \ accepted
  BY CurrentIsOpen DEF WaitInv
<1>2. job[caller] = Current /\ caller \in Handler
  BY DEF TypeOK
<1>3. job[caller] \notin Pulled \cup Hooked \cup {NoJob}
  BY <1>1, <1>2, BatchFacts
<1>. QED  BY <1>1, <1>2, <1>3 DEF TypeOK

(* The actions that only move the publisher. *)
LEMMA ScanStep ==
    ASSUME TypeOK, [Next]_vars,
           \/ WaitForScan \/ LoadDocuments \/ AllReportsPublished \/ PostRefused
           \/ PostTimesOut \/ ScanAgain
    PROVE  /\ ScanOK' /\ CallerOK' /\ (WaitInv => WaitInv')
           /\ UNCHANGED <<queueVars, handlerVars, topic, podVars>>
<1>1. Batch' = Batch /\ (accepted' = accepted => Current' = Current)
  BY Frame
<1>2. MaxRetries \in Nat \ {0} /\ NoHandler \notin Handler
  BY AggregatorAssumption
<1>3. CASE WaitForScan
  BY <1>1, <1>3 DEF WaitForScan, TypeOK, ScanOK, CallerOK, WaitInv, handlerVars
<1>4. CASE LoadDocuments
  BY <1>1, <1>4 DEF LoadDocuments, TypeOK, ScanOK, CallerOK, WaitInv, handlerVars
<1>5. CASE AllReportsPublished
  BY <1>1, <1>5 DEF AllReportsPublished, TypeOK, ScanOK, CallerOK, WaitInv, handlerVars
<1>6. CASE PostRefused
  BY <1>1, <1>2, <1>6 DEF PostRefused, TypeOK, ScanOK, CallerOK, WaitInv, handlerVars
<1>7. CASE PostTimesOut
  BY <1>1, <1>2, <1>7 DEF PostTimesOut, AttemptFails, TypeOK, ScanOK, CallerOK, WaitInv,
                          handlerVars
<1>8. CASE ScanAgain
  BY <1>1, <1>2, <1>8 DEF ScanAgain, TypeOK, ScanOK, CallerOK, WaitInv, handlerVars
<1>. QED  BY <1>3, <1>4, <1>5, <1>6, <1>7, <1>8

(* Outside Post and AnswerScan the publisher waits for its caller as long  *)
(* as that caller works on.                                                *)
LEMMA CallerStays ==
    ASSUME TypeOK, WaitInv, InputInv, [Next]_vars, UNCHANGED scanVars,
           caller # NoHandler => job'[caller] = job[caller]
    PROVE  CallerOK' /\ WaitInv'
<1>1. Batch' = Batch /\ Current' = Current
  BY Frame DEF scanVars
<1>. QED  BY <1>1 DEF TypeOK, CallerOK, WaitInv, scanVars

LEMMA TypeStep ==
    ASSUME TypeOK, WaitInv, InputInv, [Next]_vars
    PROVE  TypeOK' /\ WaitInv'
<1>0. /\ Event' = Event /\ Batch' = Batch
      /\ accepted' = accepted => Current' = Current
      /\ Event \subseteq Pulled \cup Hooked /\ NoHandler \notin Handler
      /\ PodOf \in [Handler -> Pod] /\ MaxRetries \in Nat \ {0}
  BY Frame, InputFacts, AggregatorAssumption
<1>1. CASE UNCHANGED vars
  BY <1>0, <1>1, UnchangedParts, PrimedParts DEF vars, queueVars, WaitInv, scanVars
<1>2. CASE \/ WaitForScan \/ LoadDocuments \/ AllReportsPublished \/ PostRefused
           \/ PostTimesOut \/ ScanAgain
  BY <1>2, ScanStep, UnchangedParts, PrimedParts DEF queueVars
<1>3. ASSUME NEW h \in Handler, Post(h)  PROVE TypeOK' /\ WaitInv'
  <2>1. /\ Current \in Batch \ accepted /\ Take(h, Current)
        /\ scanner' = "awaiting" /\ posts' = posts + 1 /\ posts < MaxRetries
        /\ caller' = h /\ UNCHANGED <<queue, podVars, accepted>>
    BY <1>3, CurrentIsOpen DEF Post
  <2>2. TriesOK' /\ HandlerOK' /\ job'[h] = Current
    BY <2>1, TakeStep DEF TriesOK, HandlerOK
  <2>3. ScanOK' /\ CallerOK' /\ WaitInv'
    BY <1>0, <2>1, <2>2 DEF TypeOK, ScanOK, CallerOK, WaitInv
  <2>4. QueueOK' /\ PodOK'
    BY <2>1, UnchangedParts
  <2>. QED  BY <2>2, <2>3, <2>4, PrimedParts
<1>4. ASSUME NEW p \in Pod, \/ Subscribe(p) \/ MarkStarted(p) \/ StreamEnds(p)
                            \/ StreamBreaks(p) \/ Probe(p) \/ Shutdown(p)
      PROVE  TypeOK' /\ WaitInv'
  <2>1. PodOK' /\ UNCHANGED <<queueVars, handlerVars, topic, scanVars>>
    BY <1>4, PodStep
  <2>2. WaitInv'
    BY <1>0, <2>1 DEF WaitInv, scanVars
  <2>. QED  BY <2>1, <2>2, UnchangedParts, PrimedParts DEF queueVars
<1>5. ASSUME NEW p \in Pod, Restart(p)  PROVE TypeOK' /\ WaitInv'
  <2>1. TriesOK' /\ PodOK'
    BY <1>5, UnchangedParts DEF Restart, TypeOK, PodOK
  <2>2. QueueOK'
    BY <1>0, <1>5 DEF Restart, TypeOK, QueueOK
  <2>3. HandlerOK'
    BY <1>0, <1>5 DEF Restart, TypeOK, HandlerOK
  <2>4. ScanOK'
    BY <1>0, <1>5 DEF Restart, TypeOK, ScanOK
  <2>5. CallerOK' /\ WaitInv'
    <3> SUFFICES ASSUME caller' # NoHandler
                 PROVE  /\ scanner' = "awaiting" /\ job'[caller'] = Current'
                        /\ Batch' \ accepted' # {}
      BY DEF CallerOK, WaitInv
    <3>1. caller' = caller /\ PodOf[caller] # p /\ caller # NoHandler
      BY <1>5 DEF Restart
    <3>2. caller \in Handler /\ job'[caller] = job[caller]
      BY <1>5, <3>1 DEF Restart, TypeOK
    <3>. QED  BY <1>0, <1>5, <3>1, <3>2 DEF Restart, TypeOK, WaitInv
  <2>. QED  BY <2>1, <2>2, <2>3, <2>4, <2>5, PrimedParts
<1>6. ASSUME NEW e \in Event, DeadLetter(e) \/ HookRefused(e)  PROVE TypeOK' /\ WaitInv'
  <2>1. QueueOK' /\ UNCHANGED <<tries, handlerVars, podVars, scanVars>>
    BY <1>0, <1>6 DEF DeadLetter, HookRefused, TypeOK, QueueOK
  <2>2. WaitInv'
    BY <1>0, <2>1 DEF WaitInv, scanVars
  <2>. QED  BY <2>1, <2>2, UnchangedParts, PrimedParts
<1>7. ASSUME NEW h \in Handler, NEW e \in Event, Deliver(h, e) \/ Hook(h, e)
      PROVE  TypeOK' /\ WaitInv'
  <2>1. Take(h, e) /\ UNCHANGED <<queue, podVars, scanVars>>
    BY <1>7 DEF Deliver, Hook
  <2>2. TriesOK' /\ HandlerOK' /\ \A g \in Handler \ {h} : job'[g] = job[g]
    BY <2>1, TakeStep DEF TriesOK, HandlerOK
  <2>3. pc[h] = "idle"
    BY <2>1 DEF Take
  <2>4. CallerOK' /\ WaitInv'
    BY <2>1, <2>2, <2>3, CallerWorks, CallerStays
  <2>. QED  BY <2>1, <2>2, <2>4, UnchangedParts, PrimedParts
<1>8. ASSUME NEW h \in Handler, Publish(h) \/ ProcessFails(h)  PROVE TypeOK' /\ WaitInv'
  <2>1. /\ pc[h] = "received" /\ pc' = [pc EXCEPT ![h] = pc'[h]]
        /\ pc'[h] \in {"published", "failed"} /\ UNCHANGED <<queueVars, job, attempt, podVars, scanVars>>
    BY <1>8 DEF Publish, ProcessFails, TypeOK
  <2>2. HandlerOK'
    BY <1>0, <2>1 DEF HandlerOK, TypeOK
  <2>3. CallerOK' /\ WaitInv'
    BY <2>1, CallerStays
  <2>. QED  BY <2>1, <2>2, <2>3, UnchangedParts, PrimedParts DEF queueVars
<1>9. ASSUME NEW h \in Handler, Ack(h) \/ Nack(h) \/ AnswerHook(h)
      PROVE  TypeOK' /\ WaitInv'
  <2>1. /\ job[h] \in Pulled \cup Hooked /\ Release(h)
        /\ UNCHANGED <<tries, podVars, scanVars>>
    BY <1>9 DEF Ack, Nack, AnswerHook, queueVars
  <2>2. HandlerOK' /\ \A g \in Handler \ {h} : job'[g] = job[g]
    BY <2>1, ReleaseStep DEF HandlerOK
  <2>3. QueueOK'
    BY <1>0, <1>9, UnchangedParts DEF Ack, Nack, AnswerHook, queueVars, TypeOK, QueueOK
  <2>4. CallerOK' /\ WaitInv'
    BY <2>1, <2>2, CallerWorks, CallerStays
  <2>. QED  BY <2>1, <2>2, <2>3, <2>4, UnchangedParts, PrimedParts
<1>10. ASSUME NEW h \in Handler, AnswerScan(h)  PROVE TypeOK' /\ WaitInv'
  <2>1. /\ job[h] \in Batch /\ Release(h) /\ UNCHANGED <<queueVars, podVars>>
    BY <1>10 DEF AnswerScan
  <2>2. HandlerOK' /\ \A g \in Handler \ {h} : job'[g] = job[g]
    BY <2>1, ReleaseStep DEF HandlerOK
  <2>3. ScanOK' /\ CallerOK' /\ WaitInv'
    <3>1. CASE caller = h /\ caller' = NoHandler
      BY <1>0, <1>10, <2>1, <3>1 DEF AnswerScan, AttemptFails, TypeOK, ScanOK, CallerOK, WaitInv
    <3>2. CASE caller # h /\ UNCHANGED scanVars
      BY <2>2, <3>2, CallerWorks, CallerStays, UnchangedParts
    <3>. QED  BY <1>10, <3>1, <3>2 DEF AnswerScan, AttemptFails
  <2>. QED  BY <2>1, <2>2, <2>3, UnchangedParts, PrimedParts DEF queueVars
<1>. QED  BY <1>1, <1>2, <1>3, <1>4, <1>5, <1>6, <1>7, <1>8, <1>9, <1>10
       DEF Next, Scan, Work

(* What a step may do to the topic, the attempts, the handlers, and to     *)
(* what counts as settled.                                                 *)
TopicGrows ==
    /\ topic \subseteq topic'
    /\ \A x \in topic' \ topic : \E h \in Handler : pc[h] # "idle" /\ x \in Out(h)
TriesGrow == \A k \in Event \cup Batch : tries'[k] \in Nat /\ tries'[k] >= tries[k]
HandlersMove ==
    \A h \in Handler :
        /\ pc'[h] # "idle" =>
              \/ pc[h] # "idle" /\ job'[h] = job[h] /\ attempt'[h] = attempt[h]
              \/ job'[h] \in Event \cup Batch /\ attempt'[h] \in 1 .. tries'[job'[h]]
        /\ pc'[h] = "published" => /\ job'[h] = job[h]
                                   /\ pc[h] = "published" \/ (Out(h) \subseteq topic')
BySomeHandler(j) == \E h \in Handler : pc[h] = "published" /\ job[h] = j
SettledMoves ==
    /\ \A e \in Event : queue'[e] = "acked" => queue[e] = "acked" \/ BySomeHandler(e)
    /\ \A b \in accepted' : b \in accepted \/ BySomeHandler(b)
    /\ scanner' = "done" => \/ scanner = "done" /\ accepted' = accepted
                            \/ Batch \ accepted' = {}

LEMMA Still ==
    ASSUME TypeOK, [Next]_vars
    PROVE  /\ UNCHANGED topic => TopicGrows
           /\ UNCHANGED tries => TriesGrow
           /\ UNCHANGED handlerVars => HandlersMove
           /\ UNCHANGED <<queue, scanVars>> => SettledMoves
<1>1. UNCHANGED topic => TopicGrows
  BY DEF TopicGrows
<1>2. UNCHANGED tries => TriesGrow
  BY DEF TriesGrow, TypeOK
<1>3. UNCHANGED handlerVars => HandlersMove
  BY DEF HandlersMove, handlerVars
<1>4. UNCHANGED <<queue, scanVars>> => SettledMoves
  BY DEF SettledMoves, scanVars
<1>. QED  BY <1>1, <1>2, <1>3, <1>4

LEMMA TakeMoves ==
    ASSUME TypeOK, InputInv, [Next]_vars, NEW h \in Handler, NEW j \in Event \cup Batch,
           Take(h, j)
    PROVE  TriesGrow /\ HandlersMove
<1>1. TriesGrow
  BY TakeStep DEF TriesGrow, TypeOK
<1>2. attempt'[h] \in 1 .. tries'[j]
  BY TakeStep DEF TypeOK
<1>3. HandlersMove
  BY <1>2, TakeStep DEF HandlersMove
<1>. QED  BY <1>1, <1>3

LEMMA ReleaseMoves ==
    ASSUME TypeOK, [Next]_vars, NEW h \in Handler, Release(h)
    PROVE  HandlersMove
BY ReleaseStep DEF HandlersMove

LEMMA Movement ==
    ASSUME TypeOK, WaitInv, InputInv, [Next]_vars
    PROVE  TopicGrows /\ TriesGrow /\ HandlersMove /\ SettledMoves
<1>1. CASE UNCHANGED vars
  BY <1>1, Still DEF vars, queueVars
<1>2. CASE \/ WaitForScan \/ LoadDocuments \/ AllReportsPublished \/ PostRefused
           \/ PostTimesOut \/ ScanAgain
  <2>1. UNCHANGED <<queueVars, handlerVars, topic>>
    BY <1>2, ScanStep
  <2>2. SettledMoves
    BY <1>2, <2>1 DEF SettledMoves, queueVars, WaitForScan, LoadDocuments,
                      AllReportsPublished, PostRefused, PostTimesOut, AttemptFails, ScanAgain
  <2>. QED  BY <2>1, <2>2, Still DEF queueVars
<1>3. ASSUME NEW h \in Handler, Post(h)
      PROVE  TopicGrows /\ TriesGrow /\ HandlersMove /\ SettledMoves
  <2>1. /\ Current \in Event \cup Batch /\ Take(h, Current) /\ UNCHANGED <<queue, topic, accepted>>
        /\ scanner' = "awaiting"
    BY <1>3, CurrentIsOpen DEF Post
  <2>2. SettledMoves
    BY <2>1 DEF SettledMoves
  <2>. QED  BY <2>1, <2>2, TakeMoves, Still
<1>4. ASSUME NEW p \in Pod, \/ Subscribe(p) \/ MarkStarted(p) \/ StreamEnds(p)
                            \/ StreamBreaks(p) \/ Probe(p) \/ Shutdown(p)
      PROVE  TopicGrows /\ TriesGrow /\ HandlersMove /\ SettledMoves
  <2>1. UNCHANGED <<queueVars, handlerVars, topic, scanVars>>
    BY <1>4, PodStep
  <2>. QED  BY <2>1, Still DEF queueVars
<1>5. ASSUME NEW p \in Pod, Restart(p)
      PROVE  TopicGrows /\ TriesGrow /\ HandlersMove /\ SettledMoves
  <2>1. UNCHANGED <<tries, topic, scanner, accepted>>
    BY <1>5 DEF Restart
  <2>2. HandlersMove
    BY <1>5 DEF Restart, HandlersMove
  <2>3. SettledMoves
    BY <1>5, <2>1 DEF Restart, SettledMoves
  <2>. QED  BY <2>1, <2>2, <2>3, Still
<1>6. ASSUME NEW e \in Event, DeadLetter(e) \/ HookRefused(e)
      PROVE  TopicGrows /\ TriesGrow /\ HandlersMove /\ SettledMoves
  <2>1. UNCHANGED <<tries, handlerVars, topic, scanVars>>
    BY <1>6 DEF DeadLetter, HookRefused
  <2>2. SettledMoves
    BY <1>6, <2>1 DEF DeadLetter, HookRefused, SettledMoves, TypeOK, scanVars
  <2>. QED  BY <2>1, <2>2, Still
<1>7. ASSUME NEW h \in Handler, NEW e \in Event, Deliver(h, e) \/ Hook(h, e)
      PROVE  TopicGrows /\ TriesGrow /\ HandlersMove /\ SettledMoves
  <2>1. Take(h, e) /\ UNCHANGED <<queue, topic, scanVars>>
    BY <1>7 DEF Deliver, Hook
  <2>. QED  BY <2>1, TakeMoves, Still
<1>8. ASSUME NEW h \in Handler, Publish(h) \/ ProcessFails(h)
      PROVE  TopicGrows /\ TriesGrow /\ HandlersMove /\ SettledMoves
  <2>1. pc[h] = "received" /\ UNCHANGED <<queueVars, job, attempt, scanVars>>
    BY <1>8 DEF Publish, ProcessFails
  <2>2. TopicGrows
    <3>1. PICK some \in SUBSET Out(h) : topic' = topic \cup some
      BY <1>8 DEF Publish, ProcessFails
    <3>. QED  BY <2>1, <3>1 DEF TopicGrows
  <2>3. HandlersMove
    <3>1. /\ pc' = [pc EXCEPT ![h] = pc'[h]]
          /\ pc'[h] = "published" => Out(h) \subseteq topic'
      BY <1>8 DEF Publish, ProcessFails, TypeOK
    <3>2. \A g \in Handler \ {h} : pc'[g] = pc[g]
      BY <3>1 DEF TypeOK
    <3>. QED  BY <2>1, <3>1, <3>2 DEF HandlersMove
  <2>. QED  BY <2>1, <2>2, <2>3, Still DEF queueVars
<1>9. ASSUME NEW h \in Handler, Ack(h) \/ Nack(h) \/ AnswerHook(h)
      PROVE  TopicGrows /\ TriesGrow /\ HandlersMove /\ SettledMoves
  <2>1. Release(h) /\ UNCHANGED <<tries, topic, scanVars>>
    BY <1>9 DEF Ack, Nack, AnswerHook, queueVars
  <2>2. \/ UNCHANGED queue
        \/ pc[h] = "published" /\ queue' = [queue EXCEPT ![job[h]] = queue'[job[h]]]
        \/ \E v \in {"lost", "acked"} : /\ queue' = [queue EXCEPT ![job[h]] = v]
                                        /\ v = "acked" => pc[h] = "published"
    <3>1. CASE Ack(h)
      BY <3>1 DEF Ack, TypeOK
    <3>2. CASE Nack(h)
      BY <3>2 DEF Nack, queueVars
    <3>3. CASE AnswerHook(h)
      BY <3>3 DEF AnswerHook
    <3>. QED  BY <1>9, <3>1, <3>2, <3>3
  <2>3. SettledMoves
    BY <2>1, <2>2 DEF SettledMoves, BySomeHandler, TypeOK, scanVars
  <2>. QED  BY <2>1, <2>3, ReleaseMoves, Still
<1>10. ASSUME NEW h \in Handler, AnswerScan(h)
       PROVE  TopicGrows /\ TriesGrow /\ HandlersMove /\ SettledMoves
  <2>1. Release(h) /\ UNCHANGED <<queueVars, topic>>
    BY <1>10 DEF AnswerScan
  <2>2. \/ UNCHANGED scanVars
        \/ scanner' # "done" /\ accepted' = accepted
        \/ /\ scanner' # "done" /\ pc[h] = "published"
           /\ accepted' = accepted \cup {job[h]}
    <3>1. AttemptFails => scanner' # "done" /\ accepted' = accepted
      BY DEF AttemptFails
    <3>. QED  BY <1>10, <3>1 DEF AnswerScan
  <2>3. SettledMoves
    BY <2>1, <2>2 DEF SettledMoves, BySomeHandler, scanVars, queueVars
  <2>. QED  BY <2>1, <2>3, ReleaseMoves, Still DEF queueVars
<1>. QED  BY <1>1, <1>2, <1>3, <1>4, <1>5, <1>6, <1>7, <1>8, <1>9, <1>10
          DEF Next, Scan, Work

NowOn(j) == \A f \in FindingsOf(j) : \E x \in topic' : x.finding = f

LEMMA OnTopicStays ==
    ASSUME TypeOK, WaitInv, InputInv, [Next]_vars, NEW j
    PROVE  /\ OnTopic(j) => NowOn(j)
           /\ \A h \in Handler : job[h] = j /\ Out(h) \subseteq topic' => NowOn(j)
<1>1. topic \subseteq topic'
  BY Movement DEF TopicGrows
<1>2. OnTopic(j) => NowOn(j)
  BY <1>1 DEF OnTopic, NowOn
<1>3. ASSUME NEW h \in Handler, job[h] = j, Out(h) \subseteq topic'  PROVE NowOn(j)
  <2>1. ASSUME NEW f \in FindingsOf(j)  PROVE \E x \in topic' : x.finding = f
    <3>1. Publication(f, job[h], attempt[h]) \in topic'
      BY <1>3 DEF Out
    <3>2. Publication(f, job[h], attempt[h]).finding = f
      BY DEF Publication
    <3>. QED  BY <3>1, <3>2
  <2>. QED  BY <2>1 DEF NowOn
<1>. QED  BY <1>2, <1>3

LEMMA AtWork ==
    ASSUME TypeOK, NEW h \in Handler, pc[h] # "idle"
    PROVE  job[h] \in Event \cup Batch /\ tries[job[h]] \in Nat
BY DEF TypeOK

LEMMA AttemptStep ==
    ASSUME AggregatorInv, [Next]_vars
    PROVE  AttemptInv' /\ TopicInv'
<1>1. /\ TypeOK /\ AttemptInv /\ TopicInv /\ TopicGrows /\ TriesGrow /\ HandlersMove
      /\ Event' = Event /\ Batch' = Batch /\ \A j : FindingsOf(j)' = FindingsOf(j)
  BY Movement, Frame DEF AggregatorInv
<1>2. AttemptInv'
  <2> SUFFICES ASSUME NEW h \in Handler, pc'[h] # "idle"
               PROVE  attempt'[h] \in 1 .. tries'[job'[h]]
    BY DEF AttemptInv
  <2>1. CASE pc[h] # "idle" /\ job'[h] = job[h] /\ attempt'[h] = attempt[h]
    <3>1. /\ job[h] \in Event \cup Batch /\ tries[job[h]] \in Nat
          /\ attempt[h] \in 1 .. tries[job[h]]
      BY <1>1, <2>1, AtWork DEF AttemptInv
    <3>2. tries'[job[h]] \in Nat /\ tries'[job[h]] >= tries[job[h]]
      BY <1>1, <3>1 DEF TriesGrow
    <3>. QED  BY <2>1, <3>1, <3>2
  <2>. QED  BY <1>1, <2>1 DEF HandlersMove
<1>3. ASSUME NEW x \in topic'
      PROVE  \E j \in Event' \cup Batch' : \E t \in 1 .. tries'[j] :
                \E f \in FindingsOf(j)' : x = Publication(f, j, t)
  <2>1. CASE x \in topic
    <3>0. PICK j \in Event \cup Batch :
             \E t \in 1 .. tries[j] : \E f \in FindingsOf(j) : x = Publication(f, j, t)
      BY <1>1, <2>1 DEF TopicInv
    <3>1. PICK t \in 1 .. tries[j] : \E f \in FindingsOf(j) : x = Publication(f, j, t)
      BY <3>0
    <3>2. t \in 1 .. tries'[j]
      <4>1. tries[j] \in Nat /\ tries'[j] \in Nat /\ tries'[j] >= tries[j]
        BY <1>1 DEF TriesGrow, TypeOK
      <4>. QED  BY <4>1
    <3>. QED  BY <1>1, <3>1, <3>2
  <2>2. CASE x \notin topic
    <3>1. PICK h \in Handler : pc[h] # "idle" /\ x \in Out(h)
      BY <1>1, <2>2 DEF TopicGrows
    <3>2. /\ job[h] \in Event \cup Batch /\ tries[job[h]] \in Nat
          /\ attempt[h] \in 1 .. tries[job[h]]
      BY <1>1, <3>1, AtWork DEF AttemptInv
    <3>3. PICK f \in FindingsOf(job[h]) : x = Publication(f, job[h], attempt[h])
      BY <3>1 DEF Out
    <3>5. attempt[h] \in 1 .. tries'[job[h]]
      <4>1. tries'[job[h]] \in Nat /\ tries'[job[h]] >= tries[job[h]]
        BY <1>1, <3>2 DEF TriesGrow
      <4>. QED  BY <3>2, <4>1
    <3>. QED  BY <1>1, <3>2, <3>3, <3>5
  <2>. QED  BY <2>1, <2>2
<1>4. TopicInv'
  BY <1>3 DEF TopicInv, Publication
<1>. QED  BY <1>2, <1>4

LEMMA PublishedStep ==
    ASSUME AggregatorInv, [Next]_vars
    PROVE  PublishedInv'
<1>1. /\ TypeOK /\ WaitInv /\ InputInv /\ PublishedInv /\ HandlersMove /\ SettledMoves
      /\ Event' = Event /\ Batch' = Batch /\ \A j : FindingsOf(j)' = FindingsOf(j)
  BY Movement, Frame DEF AggregatorInv
<1>2. /\ \A j : OnTopic(j) \/ BySomeHandler(j) => NowOn(j)
      /\ \A h \in Handler : Out(h) \subseteq topic' => NowOn(job[h])
  BY <1>1, OnTopicStays DEF BySomeHandler, PublishedInv
<1>3. \A h \in Handler : pc'[h] = "published" => NowOn(job'[h])
  BY <1>1, <1>2 DEF HandlersMove, PublishedInv
<1>4. \A e \in Event : queue'[e] = "acked" => NowOn(e)
  BY <1>1, <1>2 DEF SettledMoves, PublishedInv
<1>5. \A b \in accepted' : NowOn(b)
  BY <1>1, <1>2 DEF SettledMoves, PublishedInv
<1>6. scanner' = "done" => Batch' \ accepted' = {}
  BY <1>1 DEF SettledMoves, PublishedInv
<1>. QED  BY <1>1, <1>3, <1>4, <1>5, <1>6 DEF PublishedInv, OnTopic, NowOn

LEMMA AggregatorStep ==
    ASSUME AggregatorInv, [Next]_vars
    PROVE  AggregatorInv'
BY TypeStep, AttemptStep, PublishedStep, Frame DEF AggregatorInv

LEMMA AggregatorInit ==
    ASSUME Init
    PROVE  AggregatorInv
<1>1. MaxRetries \in Nat \ {0} /\ NoHandler \notin Handler
  BY AggregatorAssumption
<1>2. TypeOK
  BY <1>1 DEF Init, TypeOK
<1>3. InputInv /\ WaitInv /\ AttemptInv /\ TopicInv /\ PublishedInv
  BY DEF Init, InputInv, WaitInv, AttemptInv, TopicInv, PublishedInv
<1>. QED  BY <1>2, <1>3 DEF AggregatorInv

THEOREM AggregatorInvariant == Spec => []AggregatorInv
BY AggregatorInit, AggregatorStep, PTL DEF Spec

-----------------------------------------------------------------------------
(* What follows from it *)

(* Variables range over the values of the code. *)
THEOREM TypeCorrect == Spec => []TypeOK
<1>1. AggregatorInv => TypeOK
  BY DEF AggregatorInv
<1>. QED  BY <1>1, AggregatorInvariant, PTL

(* One event or batch that is all on the topic. *)
LEMMA EventIsPublished ==
    ASSUME AggregatorInv, NEW j \in Event \cup Batch, OnTopic(j)
    PROVE  IsPublished(Payload(j))
<1> DEFINE raw == Payload(j)
           names == {x.finding.item : x \in topic}
<1>1. InputInv
  BY DEF AggregatorInv
<1>2. Produced(raw) /\ FindingsOf(j) = Result(raw)
  BY <1>1, PayloadFacts
<1>3. OwnNames(raw)
  BY <1>1, NameTells DEF OwnNames
<1>4. \A f \in Result(raw) : f.item \in names
  BY <1>2 DEF OnTopic
<1>. HIDE DEF raw, names
<1>5. LET out == names \cap {i.name : i \in Items(raw)}
      IN  Reports(raw) \subseteq out \/ Cardinality(out) >= MaxFindings
  BY <1>2, <1>3, <1>4, WholeEvent
<1>. QED  BY <1>5 DEF IsPublished, raw, names

(* A report of which every batch is on the topic. *)
LEMMA UploadIsPublished ==
    ASSUME AggregatorInv, NEW d \in DOMAIN upload,
           \A k \in 1 .. Chunks(upload[d]) : OnTopic(<<d, k>>)
    PROVE  IsPublished(upload[d])
<1> DEFINE raw == upload[d]
<1>1. InputInv /\ Produced(raw)
  BY InputFacts DEF AggregatorInv, Raw
<1>2. \A k \in 1 .. Chunks(raw) :
         /\ <<d, k>> \in Batch /\ Payload(<<d, k>>) = BatchPayload(raw, k)
         /\ FindingsOf(<<d, k>>) = Result(BatchPayload(raw, k))
  <2> SUFFICES ASSUME NEW k \in 1 .. Chunks(raw)
               PROVE  /\ <<d, k>> \in Batch /\ Payload(<<d, k>>) = BatchPayload(raw, k)
                      /\ FindingsOf(<<d, k>>) = Result(BatchPayload(raw, k))
    OBVIOUS
  <2>1. <<d, k>> \in Batch /\ <<d, k>> \notin Event
    BY <1>1, BatchFacts
  <2>2. Payload(<<d, k>>) = BatchPayload(raw, k)
    BY <2>1 DEF Payload
  <2>. QED  BY <1>1, <2>1, <2>2, PayloadFacts
<1>3. CASE ~Split(raw)
  <2>1. 1 \in 1 .. Chunks(raw) /\ BatchPayload(raw, 1) = raw
    BY <1>3 DEF Chunks, BatchPayload
  <2>. QED  BY <1>2, <2>1, EventIsPublished
<1>4. CASE Split(raw)
  <2>1. ASSUME NEW r \in Reports(raw)  PROVE \E x \in topic : x.finding.item = r
    <3>1. PICK i \in Items(raw) : i.kind \notin {"junk", "summary", "passed"} /\ r = i.name
      BY DEF Reports
    <3>2. PICK p \in Places(raw) : i = At(raw, p)
      BY DEF Items
    <3>3. p = <<1, p[2]>> /\ p[2] \in 1 .. Len(raw.parts[1])
      <4>1. Len(raw.parts) = 1 /\ raw.parts[1] \in Seq(ItemType) /\ raw \in RawEventType
        BY <1>1, <1>4, SplitIsProwler DEF Produced
      <4>2. DOMAIN raw.parts = {1} /\ DOMAIN raw.parts[1] = 1 .. Len(raw.parts[1])
        BY <4>1 DEF RawEventType
      <4>. QED  BY <4>1, <4>2, PlacesTyped
    <3>4. PICK k \in 1 .. Chunks(raw) : \E q \in 1 .. Extent(raw, k) : p[2] = Offset(k) + q
      BY <1>1, <1>4, <3>3, BatchesCover
    <3>5. PICK q \in 1 .. Extent(raw, k) : p[2] = Offset(k) + q
      BY <3>4
    <3> DEFINE b == BatchPayload(raw, k)
               n == Extent(raw, k)
    <3>6. /\ Produced(b) /\ Places(b) = {1} \X (1 .. n) /\ At(b, <<1, q>>) = i
      BY <1>1, <1>4, <3>2, <3>3, <3>5, BatchItems
    <3>7. n \in Nat /\ n <= MaxFindings
      <4>1. n \in 1 .. BatchSize
        BY <1>1, <1>4, BatchShape
      <4>. QED  BY <4>1, Limits
    <3>8. Kept(Yield(b)) = Yield(b)
      <4>1. Yield(b) \in SUBSET ({1} \X (1 .. n))
        BY <3>6, YieldTyped
      <4>. HIDE DEF n, b
      <4>. QED  BY <3>7, <4>1, KeptAreAll
    <3>9. <<1, q>> \in Yield(b)
      BY <3>1, <3>6, YieldTyped
    <3>10. FindingAt(b, <<1, q>>) \in Result(b) /\ FindingAt(b, <<1, q>>).item = r
      BY <3>1, <3>6, <3>8, <3>9, Normalized, YieldTyped
    <3>11. FindingAt(b, <<1, q>>) \in FindingsOf(<<d, k>>) /\ OnTopic(<<d, k>>)
      BY <1>2, <3>10
    <3>. QED  BY <3>10, <3>11 DEF OnTopic
  <2>2. Reports(raw) \subseteq {i.name : i \in Items(raw)}
    BY DEF Reports
  <2>. QED  BY <2>1, <2>2 DEF IsPublished
<1>. QED  BY <1>3, <1>4

(* callback 1501-1557, ingest 1648-1717, scanner main 233-266: what is     *)
(* acknowledged, or uploaded with success, is on security-findings with    *)
(* everything it reports, up to the limit on findings of one event.        *)
THEOREM SettledIsPublishedHolds == Spec => []SettledIsPublished
<1>1. AggregatorInv => SettledIsPublished
  <2> SUFFICES ASSUME AggregatorInv  PROVE SettledIsPublished
    OBVIOUS
  <2>1. InputInv /\ PublishedInv
    BY DEF AggregatorInv
  <2>2. ASSUME NEW e \in Event, queue[e] = "acked"  PROVE IsPublished(sent[e])
    <3>1. OnTopic(e) /\ Payload(e) = sent[e]
      BY <2>1, <2>2 DEF PublishedInv, Payload
    <3>. QED  BY <3>1, EventIsPublished
  <2>3. ASSUME scanner = "done", NEW d \in DOMAIN upload  PROVE IsPublished(upload[d])
    <3>1. \A k \in 1 .. Chunks(upload[d]) : OnTopic(<<d, k>>)
      BY <2>1, <2>3, BatchFacts DEF PublishedInv
    <3>. QED  BY <3>1, UploadIsPublished
  <2>. QED  BY <2>2, <2>3 DEF SettledIsPublished
<1>. QED  BY <1>1, AggregatorInvariant, PTL

(* A finding on the topic that bears the name of an item is that item's,   *)
(* and its identity tells the attempt unless the item has one of its own.  *)
LEMMA CopyOf ==
    ASSUME AggregatorInv, NEW x \in topic, NEW j \in Event \cup Batch,
           NEW p \in Places(Payload(j)), x.finding.item = At(Payload(j), p).name
    PROVE  /\ x.finding = FindingAt(Payload(j), p)
           /\ x.finding.source = Payload(j).from
           /\ \E t \in 1 .. tries[j] :
                 x.id = IF x.finding.stable THEN <<x.finding.item>>
                                            ELSE <<x.finding.item, j, t>>
<1>1. InputInv /\ TopicInv
  BY DEF AggregatorInv
<1>2. PICK k \in Event \cup Batch :
         \E t \in 1 .. tries[k] : \E f \in FindingsOf(k) : x = Publication(f, k, t)
  BY <1>1 DEF TopicInv
<1>3. PICK t \in 1 .. tries[k] : \E f \in FindingsOf(k) : x = Publication(f, k, t)
  BY <1>2
<1>4. PICK f \in FindingsOf(k) : x = Publication(f, k, t)
  BY <1>3
<1>5. Produced(Payload(k)) /\ f \in Result(Payload(k))
  BY <1>1, PayloadFacts
<1>6. PICK q \in Places(Payload(k)) : /\ f = FindingAt(Payload(k), q)
                                      /\ f.item = At(Payload(k), q).name
                                      /\ f.source = Payload(k).from
  BY <1>5, FindingFrom
<1>7. x.finding = f /\ x.id = IF f.stable THEN <<f.item>> ELSE <<f.item, k, t>>
  BY <1>4 DEF Publication
<1>8. k = j /\ q = p
  BY <1>1, <1>6, <1>7, NameTells
<1>. QED  BY <1>6, <1>7, <1>8

LEMMA ReportedAt ==
    ASSUME NEW raw, NEW n \in Reports(raw)
    PROVE  \E p \in Places(raw) : n = At(raw, p).name
BY DEF Reports, Items

(* finding 209-256: an item is on the topic under two identities only if   *)
(* it has no stable one, and each of them is an attempt of its own.        *)
THEOREM CopiesOnlyOfUnnamedHolds == Spec => []CopiesOnlyOfUnnamed
<1>1. AggregatorInv => CopiesOnlyOfUnnamed
  <2> SUFFICES ASSUME AggregatorInv, NEW j \in Event \cup Batch, NEW n \in Reports(Payload(j))
               PROVE  LET copies == {x \in topic : x.finding.item = n}
                      IN  /\ Cardinality({x.id : x \in copies}) <= tries[j]
                          /\ Cardinality({x.id : x \in copies}) > 1
                             => \A x \in copies : ~x.finding.stable
    BY DEF CopiesOnlyOfUnnamed
  <2> DEFINE copies == {x \in topic : x.finding.item = n}
             ids == {x.id : x \in copies}
  <2>1. PICK p \in Places(Payload(j)) : n = At(Payload(j), p).name
    BY ReportedAt
  <2> DEFINE f == FindingAt(Payload(j), p)
  <2>2. tries[j] \in Nat
    BY DEF AggregatorInv, TypeOK
  <2>3. \A x \in copies :
           /\ x.finding = f
           /\ \E t \in 1 .. tries[j] : x.id = IF f.stable THEN <<n>> ELSE <<n, j, t>>
    BY <2>1, CopyOf
  <2>. HIDE DEF f
  <2>4. CASE copies = {}
    <3>1. ids = {}
      BY <2>4
    <3>2. Cardinality(ids) = 0
      BY <3>1, FS_EmptySet
    <3>. QED  BY <2>2, <2>4, <3>2
  <2>5. CASE copies # {} /\ f.stable
    <3>1. \A x \in copies : x.id = <<n>>
      BY <2>3, <2>5
    <3>2. ids = {<<n>>}
      BY <2>5, <3>1
    <3>3. tries[j] >= 1
      <4>1. PICK x \in copies : TRUE
        BY <2>5
      <4>2. \E t \in 1 .. tries[j] : TRUE
        BY <2>3, <4>1
      <4>. QED  BY <2>2, <4>2
    <3>4. Cardinality(ids) = 1
      BY <3>2, FS_Singleton
    <3>5. Cardinality(ids) <= tries[j] /\ ~(Cardinality(ids) > 1)
      <4>. HIDE DEF ids
      <4>. QED  BY <2>2, <3>3, <3>4
    <3>. QED  BY <3>5
  <2>6. CASE copies # {} /\ ~f.stable
    <3> DEFINE id == [t \in 1 .. tries[j] |-> <<n, j, t>>]
               all == {id[t] : t \in 1 .. tries[j]}
    <3>1. ids \subseteq all
      BY <2>3, <2>6
    <3>2. IsFiniteSet(1 .. tries[j]) /\ Cardinality(1 .. tries[j]) = tries[j]
      BY <2>2, Segment
    <3>3. IsFiniteSet(all) /\ Cardinality(all) <= Cardinality(1 .. tries[j])
      <4>1. DOMAIN id = 1 .. tries[j]
        OBVIOUS
      <4>. HIDE DEF id
      <4>. QED  BY <3>2, <4>1, FiniteRange
    <3>. HIDE DEF all
    <3>4. /\ Cardinality(ids) <= Cardinality(all)
          /\ Cardinality(ids) \in Nat /\ Cardinality(all) \in Nat
      BY <3>1, <3>3, FS_Subset, FS_CardinalityType
    <3>5. Cardinality(ids) <= tries[j]
      <4>. HIDE DEF ids
      <4>. QED  BY <2>2, <3>2, <3>3, <3>4
    <3>6. \A x \in copies : ~x.finding.stable
      BY <2>3, <2>6
    <3>. QED  BY <3>5, <3>6
  <2>. QED  BY <2>4, <2>5, <2>6
<1>. QED  BY <1>1, AggregatorInvariant, PTL

(* infer_source 1459-1498 and normalize 1216-1392: a finding bears the     *)
(* name of the system the event came from, whichever way it came in.       *)
THEOREM OwnSourceHolds == Spec => []OwnSource
<1>1. AggregatorInv => OwnSource
  BY CopyOf, ReportedAt DEF OwnSource
<1>. QED  BY <1>1, AggregatorInvariant, PTL

(* An entity that is named does not depend on the finding's identity. *)
LEMMA NamedEntity ==
    ASSUME NEW f, Located(f), NEW a, NEW b
    PROVE  EntityKey(f, a) = EntityKey(f, b)
<1> DEFINE named == {z[1] : z \in f.asset}
           rules == <<[when |-> "image" \in named, take |-> "image"],
                      [when |-> "resource" \in named, take |-> "resource"],
                      [when |-> "project" \in named, take |-> "project"]>>
<1>1. CASE {"image", "resource", "project"} \cap named # {}
  <2>1. \E i \in 1 .. 3 : /\ rules[i].when
                          /\ rules[i].take \in {"image", "resource", "project"}
                          /\ \A k \in 1 .. 3 : k < i => ~rules[k].when
    <3>1. /\ rules[1].when <=> "image" \in named
          /\ rules[2].when <=> "resource" \in named
          /\ rules[3].when <=> "project" \in named
          /\ rules[1].take = "image" /\ rules[2].take = "resource" /\ rules[3].take = "project"
      OBVIOUS
    <3>2. "image" \in named \/ "resource" \in named \/ "project" \in named
      BY <1>1
    <3>. HIDE DEF rules, named
    <3>3. \/ rules[1].when
          \/ ~rules[1].when /\ rules[2].when
          \/ ~rules[1].when /\ ~rules[2].when /\ rules[3].when
      BY <3>1, <3>2
    <3>4. \A k \in 1 .. 3 :
             (k < 2 => k = 1) /\ (k < 3 => k \in {1, 2}) /\ ~(k < 1)
      OBVIOUS
    <3>. QED  BY <3>1, <3>3, <3>4
  <2>2. DOMAIN rules = 1 .. 3
    OBVIOUS
  <2>3. FirstOf(rules, "finding") # "finding"
    <3>. HIDE DEF rules
    <3>1. FirstOf(rules, "finding") \in {"image", "resource", "project"}
      BY <2>1, <2>2, FirstRule
    <3>. QED  BY <3>1
  <2>. QED  BY <2>3 DEF EntityKey
<1>2. CASE "namespace" \in named /\ {"deployment", "pod"} \cap named # {}
  <2>1. CASE {"namespace", "deployment"} \subseteq named
    BY <2>1 DEF EntityKey
  <2>2. CASE {"namespace", "pod"} \subseteq named /\ "deployment" \notin named
    BY <2>2 DEF EntityKey
  <2>. QED  BY <1>2, <2>1, <2>2
<1>. QED  BY <1>1, <1>2 DEF Located

(* entity_key 91-174: copies of one item belong to one entity, where the   *)
(* correlation agent meets them together, unless the item names none.      *)
THEOREM CopiesShareEntityHolds == Spec => []CopiesShareEntity
<1>1. AggregatorInv => CopiesShareEntity
  <2> SUFFICES ASSUME AggregatorInv, NEW x \in topic, NEW y \in topic,
                      x.finding.item = y.finding.item, Located(x.finding)
               PROVE  EntityKey(x.finding, x.id) = EntityKey(y.finding, y.id)
    BY DEF CopiesShareEntity
  <2>1. \E j \in Event \cup Batch : \E p \in Places(Payload(j)) :
           x.finding.item = At(Payload(j), p).name
    <3>1. InputInv /\ TopicInv
      BY DEF AggregatorInv
    <3>2. PICK j \in Event \cup Batch :
             \E t \in 1 .. tries[j] : \E f \in FindingsOf(j) : x = Publication(f, j, t)
      BY <3>1 DEF TopicInv
    <3>3. PICK f \in FindingsOf(j) : \E t \in 1 .. tries[j] : x = Publication(f, j, t)
      BY <3>2
    <3>4. x.finding = f
      BY <3>3 DEF Publication
    <3>5. Produced(Payload(j)) /\ f \in Result(Payload(j))
      BY <3>1, PayloadFacts
    <3>. QED  BY <3>4, <3>5, FindingFrom
  <2>2. x.finding = y.finding
    BY <2>1, CopyOf
  <2>. QED  BY <2>2, NamedEntity
<1>. QED  BY <1>1, AggregatorInvariant, PTL
=============================================================================
