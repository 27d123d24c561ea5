-------------------------- MODULE FeedbackLoopProofs --------------------------
(***************************************************************************)
(* The accounts of the loop: for any seeds, warnings, weights, levels and  *)
(* bounds, and any number of entities.                                     *)
(*                                                                         *)
(* The argument counts.  What the correlation agent has had is seeds,      *)
(* warnings, audits of calls and repeats; a window that is active on the   *)
(* strength of its number has had one signal at least without an incident; *)
(* and a call takes an incident's first permit, a second one by the other  *)
(* verdict, a renewed request or a retry.  So the audit of a first permit  *)
(* alone never pays for a window, and whatever else does is counted.       *)
(***************************************************************************)
EXTENDS FeedbackLoop, FiniteSetTheorems, WellFoundedInduction, TLAPS

(* Everything that can be observed. *)
Observation ==
    Seed \cup Warning \cup {AuditSignal(x[1], x[2]) : x \in (0 .. MaxCalls) \X AuditOutcome}

Critical(S) == {o \in S : o.critical}

(* Windows that have had signals and made no incident. *)
Waiting == {e \in Entity : window[e].open /\ window[e].revision = 0}

Window ==
    [ open : BOOLEAN, started : {0}, signals : Seq(Observation),
      seen : Seq({o.id : o \in Observation}), rank : Nat, revision : Nat ]

(* A window without an incident holds no critical signal. *)
WindowOK(w) ==
    w.revision = 0 => w.rank = 0 /\ \A o \in Range(w.signals) : ~o.critical

Types ==
    /\ transit \subseteq Observation /\ IsFiniteSet(transit)
    /\ delivered \subseteq Observation
    /\ window \in [Entity -> Window]
    /\ \A e \in Entity : WindowOK(window[e])
    /\ permits \subseteq (1 .. incidents) \X Verdict
    /\ \A x \in orders : IF x[2] \in Verdict THEN x \in permits
                        ELSE <<x[1], 1>> \in permits /\ x[2] \in 2 .. renewals + 1
    /\ IsFiniteSet(orders)
    /\ calls \in 0 .. MaxCalls
    /\ incidents \in Nat /\ active \in Nat /\ hasty \in Nat
    /\ retries \in Nat /\ repeats \in Nat /\ reversals \in Nat
    /\ renewals \in Nat /\ warnings \in Nat /\ Mishaps <= MaxMishaps

(* Incidents that some verdict, or both, have permitted a restart for. *)
Once == {x[1] : x \in permits}
Twice == {n \in Once : \A v \in Verdict : <<n, v>> \in permits}

(* The accounts. *)
ObservationsAdd ==
    incidents + active + Cardinality(Waiting) + Cardinality(transit)
        <= Cardinality(Seed) + warnings + calls + repeats
CallsAdd ==
    /\ calls + Cardinality(orders) <= Cardinality(Once) + reversals + retries + renewals
    /\ reversals <= Cardinality(Twice)
CriticalAdd ==
    hasty + Cardinality(Critical(transit))
        <= Cardinality(Critical(Seed)) + warnings + repeats

IInv == Types /\ ObservationsAdd /\ CallsAdd /\ CriticalAdd

-----------------------------------------------------------------------------
(* Observations and windows *)

LEMMA AuditsAreNotCritical ==
  \A n \in 0 .. MaxCalls, r \in AuditOutcome : AuditSignal(n, r).critical = FALSE
<1> SUFFICES ASSUME NEW n \in 0 .. MaxCalls, NEW r \in AuditOutcome
             PROVE  AuditSignal(n, r).critical = FALSE
  OBVIOUS
<1>1. AuditLevel(r) \in {"MEDIUM", "HIGH"}
  BY DEF AuditLevel
<1>2. AuditSignal(n, r).critical = (Severity(AuditLevel(r)) = "CRITICAL")
  BY DEF AuditSignal, Observed, McpAudit, Finding, AuditItem, Item
<1>3. Severity(AuditLevel(r)) = AuditLevel(r)
  BY <1>1 DEF Severity, Alias, Level
<1>. QED  BY <1>1, <1>2, <1>3

LEMMA ObservationFacts ==
  ASSUME NEW o \in Observation
  PROVE  o.entity \in Entity /\ o.critical \in BOOLEAN
         /\ (o.critical => o \in Seed \cup Warning)
  BY AuditsAreNotCritical, LoopAssumption DEF Observation

LEMMA NewestFacts ==
  ASSUME NEW S, NEW s \in Seq(S), s # <<>>
  PROVE  /\ Newest(s) \in Seq(S) /\ Newest(s) # <<>>
         /\ Range(Newest(s)) \subseteq Range(s)
         /\ Len(s) = 1 => Newest(s) = s
<1>1. MaxSignals \in Nat \ {0} /\ Len(s) \in Nat /\ Len(s) > 0
  BY WindowAssumption
<1>2. CASE Len(s) <= MaxSignals
  BY <1>1, <1>2 DEF Newest
<1>3. CASE Len(s) > MaxSignals
  <2> DEFINE m == Len(s) - MaxSignals + 1
             t == SubSeq(s, m, Len(s))
  <2>1. Newest(s) = t /\ m \in 2 .. Len(s)
    BY <1>1, <1>3 DEF Newest
  <2>2. /\ t \in Seq(S) /\ Len(t) = MaxSignals
        /\ \A i \in 1 .. Len(t) : t[i] = s[m + i - 1] /\ m + i - 1 \in 1 .. Len(s)
    BY <1>1, <2>1
  <2>3. Range(t) \subseteq Range(s)
    BY <1>1, <2>2 DEF Range
  <2>. HIDE DEF t, m
  <2>4. t # <<>> /\ Len(s) # 1
    BY <1>1, <1>3, <2>2
  <2>. QED  BY <2>1, <2>2, <2>3, <2>4
<1>. QED  BY <1>1, <1>2, <1>3

(* An observation more, of which the newest are kept. *)
LEMMA AddFacts ==
  ASSUME NEW w \in Window, NEW o \in Observation
  PROVE  /\ Add(w, o) \in Window
         /\ Range(Add(w, o).signals) \subseteq Range(w.signals) \cup {o}
         /\ w.signals = <<>> => Len(Add(w, o).signals) = 1
         /\ Add(w, o).revision = w.revision /\ Add(w, o).rank = w.rank
         /\ Add(w, o).open = w.open
<1> DEFINE s == Append(w.signals, o)
           d == Append(w.seen, o.id)
<1>1. /\ s \in Seq(Observation) /\ s # <<>>
      /\ Range(s) \subseteq Range(w.signals) \cup {o}
      /\ w.signals = <<>> => Len(s) = 1
  BY DEF Window, Range
<1>2. d \in Seq({x.id : x \in Observation}) /\ d # <<>>
  <2> DEFINE Id == {x.id : x \in Observation}
  <2>1. w.seen \in Seq(Id) /\ o.id \in Id
    BY DEF Window
  <2>. HIDE DEF Id
  <2>2. d \in Seq(Id) /\ d # <<>>
    BY <2>1
  <2>. QED  BY <2>2 DEF Id
<1>3. Newest(s) \in Seq(Observation) /\ Newest(d) \in Seq({x.id : x \in Observation})
  BY <1>1, <1>2, NewestFacts
<1>4. Range(Newest(s)) \subseteq Range(s) /\ (Len(s) = 1 => Newest(s) = s)
  BY <1>1, NewestFacts
<1>5. Add(w, o) = [w EXCEPT !.signals = Newest(s), !.seen = Newest(d)]
  BY DEF Add, Window
<1>. HIDE DEF s, d
<1>. QED  BY <1>1, <1>3, <1>4, <1>5 DEF Window

LEMMA RankFacts == \A x : Rank(x) \in Nat /\ Rank(x) > 0
  BY DEF Rank

LEMMA CurrentFacts ==
  ASSUME Types, NEW e \in Entity
  PROVE  /\ CurrentOf(e) \in Window /\ WindowOK(CurrentOf(e)) /\ CurrentOf(e).open
         /\ ~window[e].open => CurrentOf(e).signals = <<>> /\ CurrentOf(e).revision = 0
         /\ window[e].open => CurrentOf(e) = window[e]
<1>1. Fresh(0) \in Window /\ Fresh(0).signals = <<>> /\ Fresh(0).revision = 0
      /\ Fresh(0).rank = 0 /\ Fresh(0).open
  BY DEF Fresh, Window
<1>2. Range(<<>>) = {}
  BY DEF Range
<1>. QED  BY <1>1, <1>2 DEF Types, CurrentOf, WindowOK

-----------------------------------------------------------------------------
(* An observation enters its window *)

(* What the step does to the accounts. *)
Gain(o) ==
    /\ incidents' + active' + Cardinality(Waiting)' <=
          incidents + active + Cardinality(Waiting) + 1
    /\ hasty' <= hasty + (IF o.critical THEN 1 ELSE 0)

EntryTypes ==
    /\ window' \in [Entity -> Window] /\ \A e \in Entity : WindowOK(window'[e])
    /\ incidents' \in Nat /\ active' \in Nat /\ hasty' \in Nat
    /\ incidents <= incidents'

LEMMA EnterFacts ==
  ASSUME Types, NEW o \in Observation, Enter(o)
  PROVE  EntryTypes /\ Gain(o)
<1> DEFINE e == o.entity
           added == Add(CurrentOf(e), o)
<1>1. e \in Entity /\ o.critical \in BOOLEAN
  BY ObservationFacts
<1>0. /\ CurrentOf(e) \in Window /\ WindowOK(CurrentOf(e)) /\ CurrentOf(e).open
      /\ ~window[e].open => CurrentOf(e).signals = <<>> /\ CurrentOf(e).revision = 0
      /\ window[e].open => CurrentOf(e) = window[e]
      /\ window[e].open \in BOOLEAN
  BY <1>1, CurrentFacts DEF Types, Window
<1>2. /\ added \in Window /\ added.open
      /\ Range(added.signals) \subseteq Range(CurrentOf(e).signals) \cup {o}
      /\ added.revision = CurrentOf(e).revision /\ added.rank = CurrentOf(e).rank
      /\ WindowOK(CurrentOf(e))
      /\ ~window[e].open => Len(added.signals) = 1
      /\ window[e].open => added.revision = window[e].revision
      /\ ~window[e].open => added.revision = 0
  BY <1>0, AddFacts
<1>3. MinSignals \in Nat /\ MinSignals >= 2 /\ IsFiniteSet(Entity)
  BY WindowAssumption, LoopAssumption
<1>4. IsFiniteSet(Waiting) /\ Waiting \subseteq Entity /\ Cardinality(Waiting) \in Nat
  BY <1>3, FS_Subset, FS_CardinalityType DEF Waiting
<1>. HIDE DEF added
<1>5. ASSUME IncidentDue(added.signals, added.rank),
             incidents' = incidents + 1,
             window' = [window EXCEPT ![e] = Promote(added)],
             CASE added.revision > 0 -> UNCHANGED <<active, hasty>>
               [] added.revision = 0 /\ Len(added.signals) >= MinSignals ->
                      active' = active + 1 /\ UNCHANGED hasty
               [] OTHER -> hasty' = hasty + 1 /\ UNCHANGED active
      PROVE  EntryTypes /\ Gain(o)
  <2>1. /\ window' \in [Entity -> Window] /\ \A f \in Entity : WindowOK(window'[f])
        /\ window'[e].open /\ window'[e].revision = added.revision + 1
        /\ \A f \in Entity \ {e} : window'[f] = window[f]
    <3>0. PICK n \in Nat : Promote(added) = [added EXCEPT !.rank = n, !.revision = @ + 1]
      BY <1>5, RankFacts DEF Promote
    <3>1. PICK k \in Nat : k = added.revision + 1 /\ k # 0
      BY <1>2 DEF Window
    <3>2. Promote(added) \in Window /\ Promote(added).revision = added.revision + 1
          /\ Promote(added).open /\ Promote(added).revision # 0
      <4>1. Promote(added) = [added EXCEPT !.rank = n, !.revision = k]
        BY <1>2, <3>0, <3>1 DEF Window
      <4>. QED  BY <1>2, <3>1, <4>1 DEF Window
    <3>3. window'[e] = Promote(added) /\ \A f \in Entity \ {e} : window'[f] = window[f]
      BY <1>1, <1>5 DEF Types
    <3>. QED  BY <1>1, <1>5, <3>2, <3>3 DEF Types, WindowOK
  <2>2. Waiting' = Waiting \ {e}
    BY <1>1, <1>2, <2>1 DEF Waiting, Window
  <2>3. /\ Cardinality(Waiting') = Cardinality(Waiting) - (IF e \in Waiting THEN 1 ELSE 0)
        /\ Cardinality(Waiting') \in Nat
    BY <1>4, <2>2, FS_RemoveElement, FS_CardinalityType, FS_Subset
  <2>5. incidents' \in Nat /\ incidents <= incidents'
    BY <1>5 DEF Types
  <2>6. /\ active' \in Nat /\ hasty' \in Nat
        /\ incidents' + active' + Cardinality(Waiting)' <=
              incidents + active + Cardinality(Waiting) + 1
        /\ hasty' <= hasty + (IF o.critical THEN 1 ELSE 0)
    <3>0. incidents \in Nat /\ active \in Nat /\ hasty \in Nat /\ added.revision \in Nat
          /\ Len(added.signals) \in Nat
      BY <1>2 DEF Types, Window
    <3>1. CASE added.revision > 0
      BY <1>1, <1>4, <1>5, <2>3, <3>0, <3>1
    <3>2. CASE added.revision = 0 /\ Len(added.signals) >= MinSignals
      <4>1. e \in Waiting
        <5>0. Len(added.signals) # 1
          <6>1. MinSignals \in Nat /\ MinSignals >= 2
            BY <1>3
          <6>2. Len(added.signals) \in Nat /\ Len(added.signals) >= MinSignals
            BY <3>0, <3>2
          <6>3. \A m \in Nat, l \in Nat : m >= 2 /\ l >= m => l # 1
            OBVIOUS
          <6>. QED  BY <6>1, <6>2, <6>3
        <5>1. window[e].open
          BY <1>2, <5>0
        <5>. QED  BY <1>1, <1>2, <3>2, <5>1 DEF Waiting
      <4>2. active' = active + 1 /\ hasty' = hasty
        BY <1>5, <3>0, <3>2
      <4>. QED  BY <1>1, <1>4, <1>5, <2>3, <3>0, <4>1, <4>2
    <3>3. CASE added.revision = 0 /\ Len(added.signals) < MinSignals
      <4>1. hasty' = hasty + 1 /\ active' = active
        BY <1>3, <1>5, <3>0, <3>3
      <4>2. \E x \in Range(added.signals) : x.critical
        BY <1>3, <1>5, <3>0, <3>3 DEF IncidentDue
      <4>3. o.critical
        BY <1>2, <3>3, <4>2 DEF WindowOK
      <4>. QED  BY <1>4, <1>5, <2>3, <3>0, <4>1, <4>3
    <3>. QED  BY <1>3, <3>0, <3>1, <3>2, <3>3
  <2>7. EntryTypes
    BY <2>1, <2>5, <2>6 DEF EntryTypes
  <2>. QED  BY <2>6, <2>7 DEF Gain
<1>6. ASSUME ~IncidentDue(added.signals, added.rank),
             window' = [window EXCEPT ![e] = added],
             UNCHANGED <<incidents, active, hasty>>
      PROVE  EntryTypes /\ Gain(o)
  <2>1. /\ window' \in [Entity -> Window] /\ window'[e] = added
        /\ \A f \in Entity \ {e} : window'[f] = window[f]
    BY <1>1, <1>2, <1>6 DEF Types
  <2>2. WindowOK(added)
    <3> SUFFICES ASSUME added.revision = 0
                 PROVE  added.rank = 0 /\ \A x \in Range(added.signals) : ~x.critical
      BY DEF WindowOK
    <3>1. added.rank = 0 /\ \A x \in Range(CurrentOf(e).signals) : ~x.critical
      BY <1>2 DEF WindowOK
    <3>2. ~(\E x \in Range(added.signals) : x.critical)
      BY <1>6, <3>1, RankFacts DEF IncidentDue
    <3>. QED  BY <3>1, <3>2
  <2>3. \A f \in Entity : WindowOK(window'[f])
    BY <2>1, <2>2 DEF Types
  <2>4. Waiting' \subseteq Waiting \cup {e}
    BY <2>1 DEF Waiting
  <2>5. Cardinality(Waiting') <= Cardinality(Waiting) + 1 /\ Cardinality(Waiting') \in Nat
    <3>1. /\ IsFiniteSet(Waiting \cup {e}) /\ Cardinality(Waiting \cup {e}) \in Nat
          /\ Cardinality(Waiting \cup {e}) <= Cardinality(Waiting) + 1
      BY <1>4, FS_AddElement, FS_CardinalityType
    <3>2. /\ Cardinality(Waiting') <= Cardinality(Waiting \cup {e})
          /\ Cardinality(Waiting') \in Nat
      BY <2>4, <3>1, FS_Subset, FS_CardinalityType
    <3>. QED  BY <1>4, <3>1, <3>2
  <2>6. EntryTypes
    BY <1>6, <2>1, <2>3 DEF EntryTypes, Types
  <2>7. incidents \in Nat /\ active \in Nat /\ hasty \in Nat
    BY DEF Types
  <2>. QED  BY <1>1, <1>4, <1>6, <2>5, <2>6, <2>7 DEF Gain
<1>. QED  BY <1>5, <1>6 DEF Enter, added

-----------------------------------------------------------------------------
(* The steps *)

LEMMA ClosedFacts == Closed \in Window /\ Closed.open = FALSE /\ WindowOK(Closed)
<1>1. Fresh(0) \in Window /\ Fresh(0).rank = 0 /\ Fresh(0).signals = <<>>
  BY DEF Fresh, Window
<1>2. /\ Closed \in Window /\ Closed.open = FALSE
      /\ Closed.rank = Fresh(0).rank /\ Closed.signals = Fresh(0).signals
  BY <1>1 DEF Closed, Window
<1>3. Range(<<>>) = {}
  BY DEF Range
<1>. QED  BY <1>1, <1>2, <1>3 DEF WindowOK

LEMMA InitInv == Init => IInv
<1> SUFFICES ASSUME Init PROVE IInv
  OBVIOUS
<1>1. Closed \in Window /\ Closed.open = FALSE
  BY ClosedFacts
<1>2. WindowOK(Closed)
  BY ClosedFacts
<1>3. Types
  BY <1>1, <1>2, LoopAssumption, FS_EmptySet DEF Init, Types, Observation, Mishaps
<1>4. Waiting = {} /\ Cardinality(Waiting) = 0
  BY <1>1, FS_EmptySet DEF Init, Waiting
<1>5. Cardinality(Seed) \in Nat /\ Cardinality(Critical(Seed)) \in Nat /\ Cardinality(orders) = 0
  BY LoopAssumption, FS_CardinalityType, FS_Subset, FS_EmptySet DEF Critical, Init
<1>9. Cardinality(Once) = 0 /\ Cardinality(Twice) = 0
  <2>1. Once = {} /\ Twice = {}
    BY DEF Init, Once, Twice
  <2>. QED  BY <2>1, FS_EmptySet
<1>6. ObservationsAdd
  BY <1>4, <1>5 DEF Init, ObservationsAdd
<1>7. CallsAdd
  BY <1>5, <1>9 DEF Init, CallsAdd
<1>8. CriticalAdd
  BY <1>5 DEF Init, CriticalAdd
<1>. QED  BY <1>3, <1>6, <1>7, <1>8 DEF IInv

LEMMA PermittedFacts ==
  ASSUME Types
  PROVE  /\ IsFiniteSet(Once) /\ Cardinality(Once) \in Nat /\ Cardinality(Once) <= incidents
         /\ IsFiniteSet(Twice) /\ Cardinality(Twice) \in Nat
         /\ Cardinality(Twice) <= Cardinality(Once)
<1>1. Once \subseteq 1 .. incidents /\ Twice \subseteq Once /\ incidents \in Nat
  BY DEF Types, Once, Twice
<1>2. PICK a \in Int : a = 1
  OBVIOUS
<1>3. IsFiniteSet(a .. incidents) /\ Cardinality(a .. incidents) = incidents
  BY <1>1, <1>2, FS_Interval
<1>4. Once \subseteq a .. incidents
  BY <1>1, <1>2
<1>. QED  BY <1>1, <1>3, <1>4, FS_Subset, FS_CardinalityType

(* The accounts are numbers. *)
Numeric ==
    /\ Cardinality(Seed) \in Nat /\ Cardinality(Critical(Seed)) \in Nat
    /\ Cardinality(transit) \in Nat
    /\ IsFiniteSet(Critical(transit)) /\ Cardinality(Critical(transit)) \in Nat
    /\ IsFiniteSet(Waiting) /\ Cardinality(Waiting) \in Nat
    /\ Cardinality(orders) \in Nat /\ Cardinality(Once) \in Nat /\ Cardinality(Twice) \in Nat
    /\ Cardinality(Twice) <= Cardinality(Once) /\ Cardinality(Once) <= incidents
    /\ calls \in Nat /\ incidents \in Nat /\ active \in Nat /\ hasty \in Nat
    /\ retries \in Nat /\ repeats \in Nat /\ reversals \in Nat
    /\ renewals \in Nat /\ warnings \in Nat

LEMMA TypesNumeric == Types => Numeric
<1> SUFFICES ASSUME Types PROVE Numeric
  OBVIOUS
<1>1. /\ Waiting \subseteq Entity /\ Critical(transit) \subseteq transit
      /\ Critical(Seed) \subseteq Seed
  BY DEF Waiting, Critical
<1>2. /\ IsFiniteSet(Waiting) /\ IsFiniteSet(Critical(transit))
      /\ IsFiniteSet(Critical(Seed)) /\ IsFiniteSet(transit) /\ IsFiniteSet(orders)
  BY <1>1, LoopAssumption, FS_Subset DEF Types
<1>. QED  BY <1>2, LoopAssumption, PermittedFacts, FS_CardinalityType DEF Types, Numeric

LEMMA Numbers ==
  ASSUME Types
  PROVE  /\ Cardinality(Seed) \in Nat /\ Cardinality(Critical(Seed)) \in Nat
         /\ Cardinality(transit) \in Nat
         /\ IsFiniteSet(Critical(transit)) /\ Cardinality(Critical(transit)) \in Nat
         /\ IsFiniteSet(Waiting) /\ Cardinality(Waiting) \in Nat
         /\ Cardinality(orders) \in Nat /\ Cardinality(Once) \in Nat /\ Cardinality(Twice) \in Nat
         /\ Cardinality(Twice) <= Cardinality(Once) /\ Cardinality(Once) <= incidents
         /\ calls \in Nat /\ incidents \in Nat /\ active \in Nat /\ hasty \in Nat
         /\ retries \in Nat /\ repeats \in Nat /\ reversals \in Nat
         /\ renewals \in Nat /\ warnings \in Nat
  BY TypesNumeric DEF Numeric

LEMMA PermitsKept ==
  ASSUME UNCHANGED permits
  PROVE  Once' = Once /\ Twice' = Twice
  BY DEF Once, Twice

LEMMA CorrelateStep ==
  ASSUME IInv, NEW o \in transit, Correlate(o)
  PROVE  IInv'
<1>1. Types /\ ObservationsAdd /\ CallsAdd /\ CriticalAdd /\ o \in Observation
  BY DEF IInv, Types
<1>2. EntryTypes /\ Gain(o)
  BY <1>1, EnterFacts DEF Correlate
<1>3. /\ transit' = transit \ {o} /\ delivered' = delivered \cup {o}
      /\ UNCHANGED <<permits, orders, reversals, renewals, calls, retries, repeats, warnings>>
  BY DEF Correlate, decisionVars
<1>4. /\ IsFiniteSet(transit') /\ Cardinality(transit') = Cardinality(transit) - 1
  BY <1>1, <1>3, FS_RemoveElement DEF Types
<1>5. Types'
  BY <1>1, <1>2, <1>3, <1>4 DEF Types, EntryTypes, Mishaps
<1>6. Cardinality(Critical(transit')) =
         Cardinality(Critical(transit)) - (IF o.critical THEN 1 ELSE 0)
  <2>1. Critical(transit') = Critical(transit) \ {o}
    BY <1>3 DEF Critical
  <2>2. o \in Critical(transit) <=> o.critical
    BY DEF Critical
  <2>3. IsFiniteSet(Critical(transit))
    BY <1>1, Numbers
  <2>4. CASE o.critical
    BY <2>1, <2>2, <2>3, <2>4, FS_RemoveElement
  <2>5. CASE ~o.critical
    <3>1. Critical(transit') = Critical(transit)
      BY <2>1, <2>2, <2>5
    <3>. QED  BY <1>1, <2>5, <3>1, Numbers
  <2>. QED  BY <2>4, <2>5
<1>7. Cardinality(Waiting)' \in Nat
      /\ incidents' \in Nat /\ active' \in Nat /\ hasty' \in Nat
  <2>1. Numeric'
    BY <1>5, TypesNumeric, PTL
  <2>. QED  BY <2>1 DEF Numeric
<1>8. ObservationsAdd'
  BY <1>1, <1>2, <1>3, <1>4, <1>7, Numbers DEF ObservationsAdd, Gain
<1>9. CallsAdd'
  BY <1>1, <1>3, PermitsKept DEF CallsAdd
<1>10. CriticalAdd'
  BY <1>1, <1>2, <1>3, <1>6, <1>7, Numbers, ObservationFacts DEF CriticalAdd, Gain
<1>. QED  BY <1>5, <1>8, <1>9, <1>10 DEF IInv

LEMMA RedeliverStep ==
  ASSUME IInv, NEW o \in delivered, Redeliver(o)
  PROVE  IInv'
<1>1. Types /\ ObservationsAdd /\ CallsAdd /\ CriticalAdd /\ o \in Observation
  BY DEF IInv, Types
<1>2. EntryTypes /\ Gain(o) /\ o.critical \in BOOLEAN
  BY <1>1, EnterFacts, ObservationFacts DEF Redeliver
<1>3. /\ repeats' = repeats + 1 /\ Mishaps < MaxMishaps
      /\ UNCHANGED <<transit, delivered, permits, orders, reversals, renewals, calls,
                     retries, warnings>>
  BY DEF Redeliver, decisionVars
<1>9. Mishaps' <= MaxMishaps
  BY <1>1, <1>3, LoopAssumption DEF Types, Mishaps
<1>4. Types'
  BY <1>1, <1>2, <1>3, <1>9 DEF Types, EntryTypes
<1>5. Cardinality(Waiting)' \in Nat
      /\ incidents' \in Nat /\ active' \in Nat /\ hasty' \in Nat
  <2>1. Numeric'
    BY <1>4, TypesNumeric, PTL
  <2>. QED  BY <2>1 DEF Numeric
<1>6. ObservationsAdd'
  BY <1>1, <1>2, <1>3, <1>5, Numbers DEF ObservationsAdd, Gain
<1>7. CallsAdd'
  BY <1>1, <1>3, PermitsKept DEF CallsAdd
<1>8. CriticalAdd'
  BY <1>1, <1>2, <1>3, <1>5, Numbers DEF CriticalAdd, Gain
<1>. QED  BY <1>4, <1>6, <1>7, <1>8 DEF IInv

LEMMA ExpireStep ==
  ASSUME IInv, NEW e \in Entity, WindowExpires(e)
  PROVE  IInv'
<1>1. Types /\ ObservationsAdd /\ CallsAdd /\ CriticalAdd
  BY DEF IInv
<1>2. Closed \in Window /\ Closed.open = FALSE /\ WindowOK(Closed)
  BY ClosedFacts
<1>3. /\ window' = [window EXCEPT ![e] = Closed]
      /\ UNCHANGED <<transit, delivered, permits, orders, calls, incidents, active, hasty,
                     retries, repeats, reversals, renewals, warnings>>
  BY DEF WindowExpires, historyVars
<1>4. Types'
  BY <1>1, <1>2, <1>3 DEF Types, Mishaps
<1>5. Cardinality(Waiting') \in Nat /\ Cardinality(Waiting') <= Cardinality(Waiting)
  <2>1. Waiting' \subseteq Waiting
    BY <1>1, <1>2, <1>3 DEF Waiting, Types
  <2>. QED  BY <1>1, <2>1, Numbers, FS_Subset, FS_CardinalityType
<1>6. ObservationsAdd'
  BY <1>1, <1>3, <1>5, Numbers DEF ObservationsAdd
<1>. QED  BY <1>1, <1>3, <1>4, <1>6, PermitsKept DEF IInv, CallsAdd, CriticalAdd

LEMMA OneMore ==
  ASSUME NEW S, IsFiniteSet(S), NEW x
  PROVE  /\ IsFiniteSet(S \cup {x}) /\ Cardinality(S \cup {x}) \in Nat
         /\ Cardinality(S \cup {x}) <= Cardinality(S) + 1
<1>1. /\ IsFiniteSet(S \cup {x})
      /\ \/ Cardinality(S \cup {x}) = Cardinality(S)
         \/ Cardinality(S \cup {x}) = Cardinality(S) + 1
  BY FS_AddElement
<1>. QED  BY <1>1, FS_CardinalityType

LEMMA LogWarningStep ==
  ASSUME IInv, NEW o \in Warning, LogWarning(o)
  PROVE  IInv'
<1>1. Types /\ ObservationsAdd /\ CallsAdd /\ CriticalAdd
  BY DEF IInv
<1>2. /\ o \notin transit /\ transit' = transit \cup {o} /\ o \in Observation
      /\ warnings' = warnings + 1 /\ Mishaps < MaxMishaps
      /\ UNCHANGED <<delivered, window, permits, orders, reversals, renewals, calls,
                     incidents, active, hasty, retries, repeats>>
  BY DEF LogWarning, decisionVars, Observation
<1>3. /\ IsFiniteSet(transit') /\ Cardinality(transit') = Cardinality(transit) + 1
  BY <1>1, <1>2, FS_AddElement DEF Types
<1>4. Mishaps' <= MaxMishaps /\ warnings' \in Nat
  BY <1>1, <1>2, LoopAssumption DEF Types, Mishaps
<1>5. Types'
  BY <1>1, <1>2, <1>3, <1>4 DEF Types
<1>6. /\ Cardinality(Critical(transit')) \in Nat
      /\ Cardinality(Critical(transit')) <= Cardinality(Critical(transit)) + 1
  <2>1. Critical(transit') \subseteq Critical(transit) \cup {o}
    BY <1>2 DEF Critical
  <2>2. IsFiniteSet(Critical(transit)) /\ Cardinality(Critical(transit)) \in Nat
    BY <1>1, Numbers
  <2>3. /\ IsFiniteSet(Critical(transit) \cup {o})
        /\ Cardinality(Critical(transit) \cup {o}) \in Nat
        /\ Cardinality(Critical(transit) \cup {o}) <= Cardinality(Critical(transit)) + 1
    BY <2>2, OneMore
  <2>4. /\ Cardinality(Critical(transit')) \in Nat
        /\ Cardinality(Critical(transit')) <= Cardinality(Critical(transit) \cup {o})
    BY <2>1, <2>3, FS_Subset, FS_CardinalityType
  <2>. QED  BY <2>2, <2>3, <2>4
<1>7. Cardinality(Waiting)' = Cardinality(Waiting)
  BY <1>2 DEF Waiting
<1>8. ObservationsAdd'
  BY <1>1, <1>2, <1>3, <1>7, Numbers DEF ObservationsAdd
<1>9. CallsAdd'
  BY <1>1, <1>2, PermitsKept DEF CallsAdd
<1>10. CriticalAdd'
  BY <1>1, <1>2, <1>6, Numbers DEF CriticalAdd
<1>. QED  BY <1>5, <1>8, <1>9, <1>10 DEF IInv

(* The first verdict on an incident, or the second by the other kind. *)
LEMMA PermitStep ==
  ASSUME IInv, NEW n \in 1 .. incidents, NEW v \in Verdict, Permit(n, v)
  PROVE  IInv'
<1>1. Types /\ ObservationsAdd /\ CallsAdd /\ CriticalAdd
  BY DEF IInv
<1>2. /\ <<n, v>> \notin permits /\ permits' = permits \cup {<<n, v>>}
      /\ orders' = orders \cup {<<n, v>>}
      /\ UNCHANGED <<transit, delivered, window, calls, incidents, active, hasty, retries,
                     repeats, renewals, warnings>>
      /\ IF <<n, 1 - v>> \in permits
         THEN Mishaps < MaxMishaps /\ reversals' = reversals + 1
         ELSE UNCHANGED reversals
  BY DEF Permit
<1>3. /\ IsFiniteSet(orders') /\ Cardinality(orders') \in Nat
      /\ Cardinality(orders') <= Cardinality(orders) + 1
  BY <1>1, <1>2, OneMore DEF Types
<1>4. permits' \subseteq (1 .. incidents') \X Verdict
  BY <1>1, <1>2 DEF Types
<1>5. \A x \in orders' : IF x[2] \in Verdict THEN x \in permits'
                        ELSE <<x[1], 1>> \in permits' /\ x[2] \in 2 .. renewals' + 1
  <2> SUFFICES ASSUME NEW x \in orders'
               PROVE  IF x[2] \in Verdict THEN x \in permits'
                      ELSE <<x[1], 1>> \in permits' /\ x[2] \in 2 .. renewals' + 1
    OBVIOUS
  <2>1. CASE x \in orders
    BY <1>1, <1>2, <2>1 DEF Types
  <2>2. CASE x = <<n, v>>
    BY <1>2, <2>2
  <2>. QED  BY <1>2, <2>1, <2>2
<1>6. reversals' \in Nat /\ Mishaps' <= MaxMishaps
  BY <1>1, <1>2, LoopAssumption DEF Types, Mishaps
<1>7. Types'
  BY <1>1, <1>2, <1>3, <1>4, <1>5, <1>6 DEF Types
<1>8. /\ Cardinality(Once)' \in Nat /\ Cardinality(Twice)' \in Nat
  <2>1. Numeric'
    BY <1>7, TypesNumeric, PTL
  <2>. QED  BY <2>1 DEF Numeric
<1>9. Once' = Once \cup {n} /\ Twice \subseteq Twice'
  BY <1>2 DEF Once, Twice
<1>10. CASE <<n, 1 - v>> \in permits
  <2>1. reversals' = reversals + 1 /\ n \in Once
    BY <1>2, <1>10 DEF Once
  <2>2. n \notin Twice /\ n \in Twice'
    BY <1>2, <1>9, <1>10, <2>1 DEF Twice, Verdict
  <2>3. Once' = Once
    BY <1>9, <2>1
  <2>4. Cardinality(Twice) + 1 <= Cardinality(Twice')
    <3>1. IsFiniteSet(Twice) /\ IsFiniteSet(Twice')
      <4>1. Once' = Once /\ Twice' \subseteq Once'
        BY <2>3 DEF Twice
      <4>. QED  BY <1>1, <4>1, PermittedFacts, FS_Subset
    <3>2. IsFiniteSet(Twice \cup {n}) /\ Cardinality(Twice \cup {n}) = Cardinality(Twice) + 1
      BY <2>2, <3>1, FS_AddElement
    <3>3. Twice \cup {n} \subseteq Twice'
      BY <1>9, <2>2
    <3>. QED  BY <3>1, <3>2, <3>3, FS_Subset
  <2>5. CallsAdd'
    BY <1>1, <1>2, <1>3, <1>8, <2>1, <2>3, <2>4, Numbers DEF CallsAdd
  <2>. QED  BY <2>5, <1>1, <1>2, <1>7 DEF IInv, ObservationsAdd, CriticalAdd, Waiting
<1>11. CASE <<n, 1 - v>> \notin permits
  <2>1. reversals' = reversals
    BY <1>2, <1>11
  <2>2. n \notin Once
    <3>1. \A x \in permits : x[1] = n => x = <<n, v>> \/ x = <<n, 1 - v>>
      BY <1>1 DEF Types, Verdict
    <3>. QED  BY <1>2, <1>11, <3>1 DEF Once
  <2>3. Cardinality(Once') = Cardinality(Once) + 1
    BY <1>1, <1>9, <2>2, PermittedFacts, FS_AddElement
  <2>4. Cardinality(Twice) <= Cardinality(Twice')
    <3>1. IsFiniteSet(Once') /\ Twice' \subseteq Once'
      BY <1>1, <1>9, PermittedFacts, FS_AddElement DEF Twice
    <3>. QED  BY <1>9, <3>1, FS_Subset
  <2>5. CallsAdd'
    BY <1>1, <1>2, <1>3, <1>8, <2>1, <2>3, <2>4, Numbers DEF CallsAdd
  <2>. QED  BY <2>5, <1>1, <1>2, <1>7 DEF IInv, ObservationsAdd, CriticalAdd, Waiting
<1>. QED  BY <1>10, <1>11

LEMMA PermitRenewedStep ==
  ASSUME IInv, NEW n \in 1 .. incidents, PermitRenewed(n)
  PROVE  IInv'
<1>1. Types /\ ObservationsAdd /\ CallsAdd /\ CriticalAdd
  BY DEF IInv
<1>2. /\ <<n, 1>> \in permits /\ Mishaps < MaxMishaps
      /\ renewals' = renewals + 1 /\ orders' = orders \cup {<<n, renewals + 2>>}
      /\ UNCHANGED <<transit, delivered, window, permits, calls, incidents, active, hasty,
                     retries, repeats, reversals, warnings>>
  BY DEF PermitRenewed
<1>3. /\ IsFiniteSet(orders') /\ Cardinality(orders') \in Nat
      /\ Cardinality(orders') <= Cardinality(orders) + 1
  BY <1>1, <1>2, OneMore DEF Types
<1>4. renewals \in Nat /\ renewals' \in Nat /\ Mishaps' <= MaxMishaps
  BY <1>1, <1>2, LoopAssumption DEF Types, Mishaps
<1>5. \A x \in orders' : IF x[2] \in Verdict THEN x \in permits'
                        ELSE <<x[1], 1>> \in permits' /\ x[2] \in 2 .. renewals' + 1
  <2> SUFFICES ASSUME NEW x \in orders'
               PROVE  IF x[2] \in Verdict THEN x \in permits'
                      ELSE <<x[1], 1>> \in permits' /\ x[2] \in 2 .. renewals' + 1
    OBVIOUS
  <2>1. CASE x \in orders
    BY <1>1, <1>2, <1>4, <2>1 DEF Types
  <2>2. CASE x = <<n, renewals + 2>>
    BY <1>2, <1>4, <2>2 DEF Verdict
  <2>. QED  BY <1>2, <2>1, <2>2
<1>6. Types'
  BY <1>1, <1>2, <1>3, <1>4, <1>5 DEF Types
<1>7. CallsAdd'
  BY <1>1, <1>2, <1>3, <1>4, Numbers, PermitsKept DEF CallsAdd
<1>. QED  BY <1>1, <1>2, <1>6, <1>7 DEF IInv, ObservationsAdd, CriticalAdd, Waiting

LEMMA CallStep ==
  ASSUME IInv, NEW d \in orders, CallEnds(d) \/ CallFails(d)
  PROVE  IInv'
<1>1. Types /\ ObservationsAdd /\ CallsAdd /\ CriticalAdd
  BY DEF IInv
<1>2. /\ calls < MaxCalls /\ calls' = calls + 1
      /\ UNCHANGED <<delivered, window, permits, incidents, active, hasty, repeats,
                     reversals, renewals, warnings>>
      /\ \/ UNCHANGED transit
         \/ \E r \in AuditOutcome : transit' = transit \cup {AuditSignal(calls, r)}
  BY DEF CallEnds, CallFails, Call
<1>3. /\ transit' \subseteq Observation /\ IsFiniteSet(transit')
      /\ Cardinality(transit') <= Cardinality(transit) + 1
      /\ Cardinality(transit') \in Nat
      /\ Critical(transit') = Critical(transit)
  <2>1. CASE UNCHANGED transit
    BY <1>1, <2>1, Numbers DEF Types
  <2>2. ASSUME NEW r \in AuditOutcome, transit' = transit \cup {AuditSignal(calls, r)}
        PROVE  <1>3
    <3>1. AuditSignal(calls, r) \in Observation /\ AuditSignal(calls, r).critical = FALSE
      <4>1. calls \in 0 .. MaxCalls
        BY <1>1 DEF Types
      <4>2. <<calls, r>> \in (0 .. MaxCalls) \X AuditOutcome
        BY <4>1
      <4>. QED  BY <4>1, <4>2, AuditsAreNotCritical DEF Observation
    <3>2. Critical(transit') = Critical(transit)
      BY <2>2, <3>1 DEF Critical
    <3>3. /\ IsFiniteSet(transit') /\ Cardinality(transit') \in Nat
          /\ Cardinality(transit') <= Cardinality(transit) + 1
      <4>1. IsFiniteSet(transit) /\ Cardinality(transit) \in Nat
        BY <1>1, Numbers DEF Types
      <4>. HIDE DEF AuditSignal
      <4>2. /\ IsFiniteSet(transit')
            /\ \/ Cardinality(transit') = Cardinality(transit)
               \/ Cardinality(transit') = Cardinality(transit) + 1
        BY <2>2, <4>1, FS_AddElement
      <4>. QED  BY <4>1, <4>2
    <3>. QED  BY <1>1, <2>2, <3>1, <3>2, <3>3 DEF Types
  <2>. QED  BY <1>2, <2>1, <2>2
<1>4. /\ orders' \subseteq orders
      /\ IsFiniteSet(orders') /\ Cardinality(orders') \in Nat
      /\ retries' \in Nat /\ Mishaps' <= MaxMishaps
      /\ calls' + Cardinality(orders') - retries' <= calls + Cardinality(orders) - retries
  <2>0. retries \in Nat /\ Cardinality(orders) \in Nat /\ calls \in Nat
    BY <1>1, Numbers
  <2>1. CASE CallEnds(d)
    <3>1. orders' = orders \ {d} /\ retries' = retries
      BY <2>1 DEF CallEnds
    <3>2. IsFiniteSet(orders') /\ Cardinality(orders') = Cardinality(orders) - 1
      BY <1>1, <3>1, FS_RemoveElement DEF Types
    <3>3. Cardinality(orders') \in Nat
      BY <3>2, FS_CardinalityType
    <3>4. Mishaps' <= MaxMishaps
      BY <1>1, <1>2, <3>1 DEF Types, Mishaps
    <3>. QED  BY <1>2, <2>0, <3>1, <3>2, <3>3, <3>4
  <2>2. CASE CallFails(d)
    <3>1. orders' = orders /\ retries' = retries + 1 /\ Mishaps < MaxMishaps
      BY <2>2 DEF CallFails
    <3>2. Mishaps' <= MaxMishaps
      BY <1>1, <1>2, <3>1, LoopAssumption DEF Types, Mishaps
    <3>. QED  BY <1>1, <1>2, <2>0, <3>1, <3>2 DEF Types
  <2>. QED  BY <2>1, <2>2
<1>5. Types'
  BY <1>1, <1>2, <1>3, <1>4, LoopAssumption DEF Types
<1>6. Cardinality(Waiting)' = Cardinality(Waiting)
  BY <1>2 DEF Waiting
<1>7. ObservationsAdd'
  BY <1>1, <1>2, <1>3, <1>6, Numbers DEF ObservationsAdd
<1>9. CallsAdd'
  BY <1>1, <1>2, <1>4, Numbers, PermitsKept DEF CallsAdd
<1>10. CriticalAdd'
  BY <1>1, <1>2, <1>3 DEF CriticalAdd
<1>. QED  BY <1>5, <1>7, <1>9, <1>10 DEF IInv

LEMMA StepInv == IInv /\ [Next]_vars => IInv'
<1> SUFFICES ASSUME IInv, [Next]_vars PROVE IInv'
  OBVIOUS
<1>1. CASE UNCHANGED vars
  <2>1. /\ UNCHANGED <<transit, delivered, window, permits, orders, calls>>
        /\ UNCHANGED historyVars /\ Once' = Once /\ Twice' = Twice
    BY <1>1 DEF vars, Once, Twice
  <2>. QED  BY <2>1 DEF historyVars, IInv, Types, Mishaps, ObservationsAdd, CallsAdd,
                       CriticalAdd, Waiting
<1>. QED  BY <1>1, CorrelateStep, RedeliverStep, ExpireStep, LogWarningStep, PermitStep,
             PermitRenewedStep, CallStep DEF Next

LEMMA Invariance == Spec => []IInv
  BY InitInv, StepInv, PTL DEF Spec

-----------------------------------------------------------------------------
(* Results *)

(* claim_execution 191-226 and persist_approval_request 176-205: the types *)
(* of the closed pipeline; whatever is about to be executed belongs to a   *)
(* verdict that permitted it, or to a request renewed after one.           *)
THEOREM TypeCorrect == Spec => []TypeOK
<1>1. IInv => TypeOK
  BY DEF IInv, Types, TypeOK, Window
<1>. QED  BY <1>1, Invariance, PTL

(* update_correlation_window 433-479 with audit_severity 140-156: each     *)
(* window that raises an incident is paid for by something else than the   *)
(* audit of an incident's first permit, for any scores and levels.         *)
THEOREM ActiveWindowsArePaidForHolds == Spec => []ActiveWindowsArePaidFor
<1>1. IInv => ActiveWindowsArePaidFor
  <2> SUFFICES ASSUME IInv PROVE ActiveWindowsArePaidFor
    OBVIOUS
  <2>1. Types /\ ObservationsAdd /\ CallsAdd /\ CriticalAdd
    BY DEF IInv
  <2>2. active <= Cardinality(Seed) + warnings + repeats + retries + reversals + renewals
    BY <2>1, Numbers DEF ObservationsAdd, CallsAdd
  <2>3. hasty <= Cardinality(Critical(Seed)) + warnings + repeats
    BY <2>1, Numbers DEF CriticalAdd
  <2>. QED  BY <2>2, <2>3 DEF ActiveWindowsArePaidFor, Critical
<1>. QED  BY <1>1, Invariance, PTL

-----------------------------------------------------------------------------
(* The score of a window with a critical signal *)

NatLess == {ss \in Nat \X Nat : ss[1] < ss[2]}

LEMMA LeastNumber ==
  ASSUME NEW S \in SUBSET Nat, S # {}
  PROVE  \E m \in S : \A n \in S : m <= n
<1>1. IsWellFoundedOn(NatLess, Nat)
  BY NatLessThanWellFounded DEF OpToRel, NatLess
<1>2. PICK m \in S : \A n \in S : <<n, m>> \notin NatLess
  BY <1>1, WFMin
<1>3. ASSUME NEW n \in S  PROVE m <= n
  <2>1. <<n, m>> \notin NatLess
    BY <1>2
  <2>. QED  BY <2>1 DEF NatLess
<1>. QED  BY <1>3

(* The running sum of weights is defined, and is a sum. *)
Sums(s, len, f) ==
  f = [n \in 0 .. len |-> IF n = 0 THEN 0 ELSE s[n].weight + f[n - 1]]

LEMMA SumsExist ==
  ASSUME NEW s, NEW len \in Nat
  PROVE  \E f : Sums(s, len, f)
<1> DEFINE bad == {n \in Nat : ~\E f : Sums(s, n, f)}
<1> SUFFICES ASSUME bad # {} PROVE FALSE
  OBVIOUS
<1>1. PICK m \in bad : \A n \in bad : m <= n
  BY LeastNumber
<1>2. m # 0
  <2>1. Sums(s, 0, [n \in 0 .. 0 |-> 0])
    BY DEF Sums
  <2>. QED  BY <2>1
<1>3. m - 1 \in Nat /\ m - 1 \notin bad
  BY <1>1, <1>2
<1>4. PICK f : Sums(s, m - 1, f)
  BY <1>3
<1> DEFINE g == [n \in 0 .. m |-> IF n = m THEN s[m].weight + f[m - 1] ELSE f[n]]
<1>5. ASSUME NEW n \in 0 .. m
      PROVE  g[n] = IF n = 0 THEN 0 ELSE s[n].weight + g[n - 1]
  <2>1. CASE n = m
    BY <1>2, <1>3, <2>1
  <2>2. CASE n # m
    <3>1. n \in 0 .. m - 1 /\ (n # 0 => n - 1 \in 0 .. m - 1 /\ n - 1 # m)
      BY <2>2
    <3>2. f[n] = IF n = 0 THEN 0 ELSE s[n].weight + f[n - 1]
      BY <1>4, <3>1 DEF Sums
    <3>. QED  BY <2>2, <3>1, <3>2
  <2>. QED  BY <2>1, <2>2
<1>6. Sums(s, m, g)
  BY <1>5 DEF Sums
<1>. QED  BY <1>1, <1>6

LEMMA BaseScoreFacts ==
  ASSUME NEW s, NEW len \in Nat, Len(s) = len, \A i \in 1 .. len : s[i].weight \in Nat
  PROVE  /\ BaseScore(s) \in Nat
         /\ \A i \in 1 .. len : s[i].weight <= BaseScore(s)
<1> DEFINE f == CHOOSE h : Sums(s, len, h)
<1>1. Sums(s, len, f)
  BY SumsExist
<1>2. BaseScore(s) = f[len]
  BY DEF BaseScore, Sums
<1>. HIDE DEF f
<1> DEFINE good(n) == f[n] \in Nat /\ \A i \in 1 .. n : s[i].weight <= f[n]
           bad == {n \in Nat : n <= len /\ ~good(n)}
<1>3. bad = {}
  <2> SUFFICES ASSUME bad # {} PROVE FALSE
    OBVIOUS
  <2>1. PICK m \in bad : \A n \in bad : m <= n
    BY LeastNumber
  <2>2. f[m] = IF m = 0 THEN 0 ELSE s[m].weight + f[m - 1]
    BY <1>1, <2>1 DEF Sums
  <2>3. m # 0
    <3>1. m = 0 => good(m)
      BY <2>2
    <3>. QED  BY <2>1, <3>1
  <2>4. m - 1 \in Nat /\ m - 1 <= len /\ m - 1 \notin bad /\ m \in 1 .. len
    BY <2>1, <2>3
  <2>5. good(m - 1)
    BY <2>4
  <2>6. f[m] = s[m].weight + f[m - 1] /\ s[m].weight \in Nat /\ f[m - 1] \in Nat
    BY <2>2, <2>3, <2>4, <2>5
  <2>7. ASSUME NEW i \in 1 .. m  PROVE s[i].weight <= f[m]
    <3>1. CASE i = m
      BY <2>6, <3>1
    <3>2. CASE i # m
      <4>1. i \in 1 .. (m - 1) /\ i \in 1 .. len
        BY <2>4, <3>2
      <4>2. s[i].weight <= f[m - 1] /\ s[i].weight \in Nat
        BY <2>5, <4>1
      <4>. QED  BY <2>6, <4>2
    <3>. QED  BY <3>1, <3>2
  <2>8. good(m)
    BY <2>6, <2>7
  <2>. QED  BY <2>1, <2>8
<1>4. good(len)
  BY <1>3
<1>. QED  BY <1>2, <1>4

(* A signal more adds its weight to the sum. *)
LEMMA BaseScoreAdds ==
  ASSUME NEW S, NEW s \in Seq(S), NEW o \in S
  PROVE  BaseScore(Append(s, o)) = o.weight + BaseScore(s)
<1> DEFINE len == Len(s)
           more == Append(s, o)
           f == CHOOSE h : Sums(s, len, h)
           g == CHOOSE h : Sums(more, len + 1, h)
<1>1. len \in Nat /\ Len(more) = len + 1 /\ more[len + 1] = o
      /\ \A i \in 1 .. len : more[i] = s[i]
  OBVIOUS
<1>. HIDE DEF more, len
<1>2. Sums(s, len, f) /\ Sums(more, len + 1, g)
  <2>1. len + 1 \in Nat
    BY <1>1
  <2>2. (\E h : Sums(s, len, h)) /\ \E h : Sums(more, len + 1, h)
    BY <1>1, <2>1, SumsExist
  <2>. QED  BY <2>2, Zenon
<1>3. BaseScore(s) = f[len] /\ BaseScore(more) = g[len + 1]
  BY <1>1 DEF BaseScore, Sums, len
<1>. HIDE DEF f, g
<1> DEFINE bad == {n \in Nat : n <= len /\ g[n] # f[n]}
<1>4. bad = {}
  <2> SUFFICES ASSUME bad # {} PROVE FALSE
    OBVIOUS
  <2>1. PICK m \in bad : \A n \in bad : m <= n
    BY LeastNumber
  <2>2. m \in 0 .. len /\ m \in 0 .. len + 1
    BY <1>1, <2>1
  <2>3. /\ f[m] = IF m = 0 THEN 0 ELSE s[m].weight + f[m - 1]
        /\ g[m] = IF m = 0 THEN 0 ELSE more[m].weight + g[m - 1]
    BY <1>2, <2>2 DEF Sums
  <2>4. CASE m = 0
    BY <2>1, <2>3, <2>4
  <2>5. CASE m # 0
    <3>1. m - 1 \in Nat /\ m - 1 <= len /\ m - 1 \notin bad /\ m \in 1 .. len
      BY <1>1, <2>1, <2>2, <2>5
    <3>2. g[m - 1] = f[m - 1] /\ more[m] = s[m]
      BY <1>1, <3>1
    <3>. QED  BY <2>1, <2>3, <2>5, <3>2
  <2>. QED  BY <2>4, <2>5
<1>5. g[len] = f[len]
  BY <1>1, <1>4
<1>6. g[len + 1] = more[len + 1].weight + g[len]
  <2>1. len + 1 \in 0 .. len + 1 /\ len + 1 # 0 /\ (len + 1) - 1 = len
    BY <1>1
  <2>. QED  BY <1>2, <2>1 DEF Sums
<1>. QED  BY <1>1, <1>3, <1>5, <1>6 DEF more

(* Observations have weights; critical ones weigh more than "MEDIUM" asks. *)
LEMMA WeightFacts ==
  ASSUME NEW o \in Observation
  PROVE  o.weight \in Nat /\ (o.critical => o.weight >= 55)
<1>1. CASE o \in Seed \cup Warning
  BY <1>1, WeightAssumption DEF SeverityWeight
<1>2. ASSUME NEW x \in (0 .. MaxCalls) \X AuditOutcome, o = AuditSignal(x[1], x[2])
      PROVE  o.weight \in Nat /\ ~o.critical
  <2>1. ~o.critical
    BY <1>2, AuditsAreNotCritical
  <2>2. AuditLevel(x[2]) \in {"MEDIUM", "HIGH"}
    BY DEF AuditLevel
  <2>3. Severity(AuditLevel(x[2])) = AuditLevel(x[2])
    BY <2>2 DEF Severity, Alias, Level
  <2>4. o.weight = SeverityWeight[AuditLevel(x[2])] + SourceBonus("mcp-server")
    BY <1>2, <2>3 DEF AuditSignal, Observed, Weight, McpAudit, Finding, AuditItem, Item
  <2>5. SeverityWeight[AuditLevel(x[2])] \in {18, 35} /\ SourceBonus("mcp-server") = 8
    BY <2>2 DEF SeverityWeight, SourceBonus
  <2>. QED  BY <2>1, <2>4, <2>5
<1>. QED  BY <1>1, <1>2 DEF Observation

LEMMA FiniteImage ==
  ASSUME NEW S, IsFiniteSet(S), NEW f, DOMAIN f = S
  PROVE  IsFiniteSet({f[x] : x \in S}) /\ Cardinality({f[x] : x \in S}) \in Nat
<1>1. [x \in S |-> f[x]] \in Surjection(S, {f[x] : x \in S})
  BY DEF Surjection
<1>. QED  BY <1>1, FS_Surjection, FS_CardinalityType

(* What may be due for a list of signals, whatever its window's level. *)
Worth(signals) ==
  \/ \E o \in Range(signals) : o.critical
  \/ Score(signals) >= Threshold /\ Len(signals) >= MinSignals

(* update_correlation_window 331-466: until its window is full, a signal   *)
(* more never lowers the score or the level of what is known of an entity, *)
(* and never makes it less worth an incident.                              *)
THEOREM ScoreGrows ==
  ASSUME NEW s \in Seq(Observation), NEW o \in Observation, Len(s) < MaxSignals
  PROVE  LET more == Newest(Append(s, o))
         IN  /\ Score(s) <= Score(more) /\ Rank(Score(s)) <= Rank(Score(more))
             /\ Worth(s) => Worth(more)
<1> DEFINE t == Append(s, o)
           sources(x) == {y.source : y \in Range(x)}
           categories(x) == {y.category : y \in Range(x)}
           Bonus(x) == IF Cardinality(sources(x)) >= 2 THEN 12 ELSE 0
           Many(x) == AtMost(12, 3 * (Len(x) - 1))
           Kinds(x) == AtMost(8, 4 * (Cardinality(categories(x)) - 1))
<1>1. /\ t \in Seq(Observation) /\ Len(s) \in Nat /\ Len(t) = Len(s) + 1
      /\ Range(s) \subseteq Range(t)
      /\ DOMAIN s = 1 .. Len(s) /\ DOMAIN t = 1 .. Len(t)
      /\ MaxSignals \in Nat /\ MinSignals \in Nat
  BY WindowAssumption DEF Range
<1>2. Newest(t) = t
  <2>1. Len(t) <= MaxSignals
    BY <1>1
  <2>. QED  BY <2>1 DEF Newest
<1>3. BaseScore(t) = o.weight + BaseScore(s)
  BY BaseScoreAdds
<1>4. BaseScore(s) \in Nat /\ o.weight \in Nat
  <2>1. \A i \in 1 .. Len(s) : s[i].weight \in Nat
    BY WeightFacts
  <2>. QED  BY <1>1, <2>1, BaseScoreFacts, WeightFacts
<1>. HIDE DEF t
<1>5. /\ IsFiniteSet(Range(t))
      /\ IsFiniteSet(sources(t)) /\ IsFiniteSet(categories(t))
  <2>1. IsFiniteSet(1 .. Len(t))
    BY <1>1, FS_Interval
  <2>2. Range(t) = {t[i] : i \in 1 .. Len(t)}
    BY <1>1 DEF Range
  <2>3. IsFiniteSet(Range(t))
    BY <1>1, <2>1, <2>2, FiniteImage
  <2> DEFINE source == [y \in Range(t) |-> y.source]
             category == [y \in Range(t) |-> y.category]
  <2>4. /\ sources(t) = {source[y] : y \in Range(t)} /\ DOMAIN source = Range(t)
        /\ categories(t) = {category[y] : y \in Range(t)} /\ DOMAIN category = Range(t)
    OBVIOUS
  <2>. HIDE DEF source, category, sources, categories
  <2>. QED  BY <2>3, <2>4, FiniteImage
<1>6. sources(s) \subseteq sources(t) /\ categories(s) \subseteq categories(t)
  BY <1>1
<1>. HIDE DEF sources, categories
<1>7. /\ Cardinality(sources(s)) \in Nat /\ Cardinality(categories(s)) \in Nat
      /\ Cardinality(sources(t)) \in Nat /\ Cardinality(categories(t)) \in Nat
      /\ Cardinality(sources(s)) <= Cardinality(sources(t))
      /\ Cardinality(categories(s)) <= Cardinality(categories(t))
  BY <1>5, <1>6, FS_Subset, FS_CardinalityType
<1>8. /\ Score(s) = AtMost(100, BaseScore(s) + Bonus(s) + Many(s) + Kinds(s))
      /\ Score(t) = AtMost(100, BaseScore(t) + Bonus(t) + Many(t) + Kinds(t))
  BY DEF Score, sources, categories
<1>9. /\ Bonus(s) \in Nat /\ Bonus(t) \in Nat /\ Bonus(s) <= Bonus(t)
      /\ Many(s) \in Int /\ Many(t) \in Int /\ Many(s) <= Many(t)
      /\ Kinds(s) \in Int /\ Kinds(t) \in Int /\ Kinds(s) <= Kinds(t)
  <2>1. ASSUME NEW m \in Int, NEW x \in Int, NEW y \in Int, x <= y
        PROVE  AtMost(m, x) \in Int /\ AtMost(m, y) \in Int /\ AtMost(m, x) <= AtMost(m, y)
    BY <2>1 DEF AtMost
  <2>2. Bonus(s) \in Nat /\ Bonus(t) \in Nat /\ Bonus(s) <= Bonus(t)
    BY <1>7
  <2>3. Many(s) \in Int /\ Many(t) \in Int /\ Many(s) <= Many(t)
    <3> DEFINE x == 3 * (Len(s) - 1)
               y == 3 * (Len(t) - 1)
    <3>1. x \in Int /\ y \in Int /\ x <= y /\ 12 \in Int
      BY <1>1
    <3>. HIDE DEF x, y
    <3>2. AtMost(12, x) \in Int /\ AtMost(12, y) \in Int /\ AtMost(12, x) <= AtMost(12, y)
      BY <2>1, <3>1
    <3>. QED  BY <3>2 DEF x, y
  <2>4. Kinds(s) \in Int /\ Kinds(t) \in Int /\ Kinds(s) <= Kinds(t)
    <3> DEFINE x == 4 * (Cardinality(categories(s)) - 1)
               y == 4 * (Cardinality(categories(t)) - 1)
    <3>1. x \in Int /\ y \in Int /\ x <= y /\ 8 \in Int
      BY <1>7
    <3>. HIDE DEF x, y
    <3>2. AtMost(8, x) \in Int /\ AtMost(8, y) \in Int /\ AtMost(8, x) <= AtMost(8, y)
      BY <2>1, <3>1
    <3>. QED  BY <3>2 DEF x, y
  <2>. HIDE DEF Bonus, Many, Kinds
  <2>. QED  BY <2>2, <2>3, <2>4
<1>10. Score(s) \in Int /\ Score(t) \in Int /\ Score(s) <= Score(t)
  <2> DEFINE a == BaseScore(s) + Bonus(s) + Many(s) + Kinds(s)
             b == BaseScore(t) + Bonus(t) + Many(t) + Kinds(t)
  <2>1. a \in Int /\ b \in Int /\ a <= b
    <3>1. BaseScore(t) \in Nat /\ BaseScore(s) <= BaseScore(t)
      BY <1>3, <1>4
    <3>. HIDE DEF Bonus, Many, Kinds
    <3>. QED  BY <1>4, <1>9, <3>1
  <2>2. Score(s) = AtMost(100, a) /\ Score(t) = AtMost(100, b)
    BY <1>8
  <2>. HIDE DEF a, b
  <2>. QED  BY <2>1, <2>2 DEF AtMost
<1>11. Rank(Score(s)) <= Rank(Score(t))
  BY <1>10 DEF Rank
<1>12. Worth(s) => Worth(t)
  <2>1. CASE \E x \in Range(s) : x.critical
    BY <1>1, <2>1 DEF Worth
  <2>2. CASE Score(s) >= Threshold /\ Len(s) >= MinSignals
    <3>1. Score(t) >= Threshold /\ Len(t) >= MinSignals
      BY <1>1, <1>10, <2>2, WeightAssumption
    <3>. QED  BY <3>1 DEF Worth
  <2>. QED  BY <2>1, <2>2 DEF Worth
<1>. QED  BY <1>2, <1>10, <1>11, <1>12 DEF t

(* update_correlation_window 433-466: whatever makes an incident scores    *)
(* enough for the level "MEDIUM".                                          *)
LEMMA IncidentLevels ==
  ASSUME NEW w \in Window, IncidentDue(w.signals, w.rank)
  PROVE  Rank(Score(w.signals)) \in 3 .. 5 /\ Rank(Score(w.signals)) > w.rank
<1> DEFINE s == w.signals
           sources == {o.source : o \in Range(s)}
           categories == {o.category : o \in Range(s)}
           bonus == IF Cardinality(sources) >= 2 THEN 12 ELSE 0
           many == AtMost(12, 3 * (Len(s) - 1))
           kinds == AtMost(8, 4 * (Cardinality(categories) - 1))
<1>1. s \in Seq(Observation) /\ Len(s) \in Nat /\ DOMAIN s = 1 .. Len(s)
      /\ \A i \in 1 .. Len(s) : s[i] \in Observation
  BY DEF Window
<1>2. Cardinality(categories) \in Nat
  <2> DEFINE f == [i \in 1 .. Len(s) |-> s[i].category]
  <2>1. categories = {f[i] : i \in 1 .. Len(s)}
    BY <1>1 DEF Range
  <2>2. IsFiniteSet(1 .. Len(s))
    BY <1>1, FS_Interval
  <2>3. DOMAIN f = 1 .. Len(s)
    OBVIOUS
  <2>. HIDE DEF f, categories
  <2>. QED  BY <2>1, <2>2, <2>3, FiniteImage
<1>3. Score(s) = AtMost(100, BaseScore(s) + bonus + many + kinds)
  BY DEF Score
<1>4. BaseScore(s) \in Nat /\ \A i \in 1 .. Len(s) : s[i].weight <= BaseScore(s)
  <2>1. \A i \in 1 .. Len(s) : s[i].weight \in Nat
    BY <1>1, WeightFacts
  <2>. HIDE DEF s
  <2>. QED  BY <1>1, <2>1, BaseScoreFacts
<1>5. bonus \in Nat /\ many \in Int /\ kinds \in Int /\ kinds >= -4
      /\ (Len(s) # 0 => many >= 0)
  <2>. HIDE DEF s, categories
  <2>. QED  BY <1>1, <1>2 DEF AtMost
<1>6. Score(s) \in Int /\ Score(s) >= 25
  <2>1. CASE \E o \in Range(s) : o.critical
    <3>1. PICK i \in 1 .. Len(s) : s[i].critical
      BY <1>1, <2>1 DEF Range
    <3>2. s[i].weight \in Nat /\ s[i].weight >= 55 /\ s[i].weight <= BaseScore(s)
          /\ Len(s) # 0
      BY <1>1, <1>4, <3>1, WeightFacts
    <3>. HIDE DEF s, bonus, many, kinds
    <3>. QED  BY <1>3, <1>4, <1>5, <3>2 DEF AtMost
  <2>2. CASE Score(s) >= Threshold
    <3>1. Score(s) \in Int
      <4>. HIDE DEF s, bonus, many, kinds
      <4>. QED  BY <1>3, <1>4, <1>5 DEF AtMost
    <3>2. Threshold \in Nat /\ Threshold >= 25
      BY WeightAssumption
    <3>. HIDE DEF s
    <3>. QED  BY <2>2, <3>1, <3>2
  <2>. QED  BY <2>1, <2>2 DEF IncidentDue
<1>7. Rank(Score(s)) \in 3 .. 5
  <2>. HIDE DEF s
  <2>. QED  BY <1>6 DEF Rank
<1>. QED  BY <1>7 DEF IncidentDue

-----------------------------------------------------------------------------
(* The levels of the windows *)

(* The levels that active windows may still rise to. *)
Left ==
    {x \in Entity \X (3 .. 5) : /\ window[x[1]].open /\ window[x[1]].revision > 0
                                /\ window[x[1]].rank < x[2]}

LevelsAdd == incidents + Cardinality(Left) <= 3 * (active + hasty)

LEMMA LeftFinite ==
  IsFiniteSet(Left) /\ Cardinality(Left) \in Nat
<1>1. IsFiniteSet(3 .. 5) /\ IsFiniteSet(Entity)
  <2>1. PICK b \in Int : b = 5
    OBVIOUS
  <2>2. IsFiniteSet(3 .. 5)
    <3>1. IsFiniteSet(3 .. b)
      BY FS_Interval
    <3>. QED  BY <2>1, <3>1
  <2>3. IsFiniteSet(Entity)
    BY LoopAssumption
  <2>. QED  BY <2>2, <2>3
<1>2. IsFiniteSet(Entity \X (3 .. 5))
  BY <1>1, FS_Product
<1>. QED  BY <1>2, FS_Subset, FS_CardinalityType DEF Left

(* A window rises to the level of its incident, and uses it up; it starts  *)
(* to count with three of them, the first of which it uses at once.        *)
LEMMA EnterLevels ==
  ASSUME Types, LevelsAdd, NEW o \in Observation, Enter(o)
  PROVE  LevelsAdd'
<1> DEFINE e == o.entity
           added == Add(CurrentOf(e), o)
<1>1. e \in Entity
  BY ObservationFacts
<1>2. /\ added \in Window /\ added.open
      /\ window[e].open => added.revision = window[e].revision /\ added.rank = window[e].rank
      /\ ~window[e].open => added.revision = 0
  <2>1. /\ CurrentOf(e) \in Window /\ CurrentOf(e).open
        /\ ~window[e].open => CurrentOf(e).revision = 0
        /\ window[e].open => CurrentOf(e) = window[e]
    BY <1>1, CurrentFacts
  <2>. QED  BY <2>1, AddFacts
<1>3. /\ incidents \in Nat /\ active \in Nat /\ hasty \in Nat
      /\ window \in [Entity -> Window] /\ added.revision \in Nat /\ added.rank \in Nat
      /\ MinSignals \in Nat /\ Len(added.signals) \in Nat
      /\ IsFiniteSet(Left) /\ Cardinality(Left) \in Nat
  <2>. HIDE DEF added
  <2>1. added.revision \in Nat /\ added.rank \in Nat /\ Len(added.signals) \in Nat
    BY <1>2 DEF Window
  <2>. QED  BY <2>1, WindowAssumption, LeftFinite DEF Types
<1>. HIDE DEF added
<1>4. CASE ~IncidentDue(added.signals, added.rank)
  <2>1. window' = [window EXCEPT ![e] = added] /\ UNCHANGED <<incidents, active, hasty>>
    BY <1>4 DEF Enter, added
  <2>2. Left' = Left
    BY <1>1, <1>2, <1>3, <2>1 DEF Left
  <2>. QED  BY <2>1, <2>2 DEF LevelsAdd
<1>5. CASE IncidentDue(added.signals, added.rank)
  <2> DEFINE r == Rank(Score(added.signals))
  <2>1. r \in 3 .. 5 /\ r > added.rank
    BY <1>2, <1>5, IncidentLevels
  <2>2. /\ window' = [window EXCEPT ![e] = Promote(added)] /\ incidents' = incidents + 1
        /\ CASE added.revision > 0 -> UNCHANGED <<active, hasty>>
             [] added.revision = 0 /\ Len(added.signals) >= MinSignals ->
                    active' = active + 1 /\ UNCHANGED hasty
             [] OTHER -> hasty' = hasty + 1 /\ UNCHANGED active
    BY <1>5 DEF Enter, added
  <2>3. Promote(added).open = added.open /\ Promote(added).rank = r
    <3>1. Promote(added) = [added EXCEPT !.rank = r, !.revision = @ + 1]
      BY <1>5 DEF Promote
    <3>. QED  BY <1>2, <3>1 DEF Window
  <2>. HIDE DEF r
  <2>4. /\ window'[e].rank = r
        /\ \A f \in Entity \ {e} : window'[f] = window[f]
    BY <1>1, <1>3, <2>2, <2>3
  <2>5. CASE added.revision > 0
    <3>1. window[e].open /\ window[e].revision > 0 /\ window[e].rank = added.rank
      BY <1>2, <2>5
    <3>2. <<e, r>> \in Left
      BY <1>1, <2>1, <3>1 DEF Left
    <3>3. Left' \subseteq Left \ {<<e, r>>}
      <4> SUFFICES ASSUME NEW x \in Left'  PROVE x \in Left /\ x # <<e, r>>
        OBVIOUS
      <4>1. /\ x \in Entity \X (3 .. 5) /\ window'[x[1]].open /\ window'[x[1]].revision > 0
            /\ window'[x[1]].rank < x[2]
        BY DEF Left
      <4>2. CASE x[1] = e
        <5>1. r < x[2] /\ x[2] \in 3 .. 5
          BY <2>4, <4>1, <4>2
        <5>2. added.rank < x[2]
          BY <1>3, <2>1, <5>1
        <5>3. x # <<e, r>>
          BY <2>1, <5>1
        <5>. QED  BY <3>1, <4>1, <4>2, <5>2, <5>3 DEF Left
      <4>3. CASE x[1] # e
        BY <2>4, <4>1, <4>3 DEF Left
      <4>. QED  BY <4>2, <4>3
    <3>4. Cardinality(Left') <= Cardinality(Left) - 1 /\ Cardinality(Left') \in Nat
      <4>1. /\ IsFiniteSet(Left \ {<<e, r>>})
            /\ Cardinality(Left \ {<<e, r>>}) = Cardinality(Left) - 1
        BY <1>3, <3>2, FS_RemoveElement
      <4>. QED  BY <3>3, <4>1, FS_Subset, FS_CardinalityType
    <3>5. active' = active /\ hasty' = hasty
      BY <1>3, <2>2, <2>5
    <3>. QED  BY <1>3, <2>2, <3>4, <3>5 DEF LevelsAdd
  <2>6. CASE added.revision = 0
    <3>1. Left' \subseteq (Left \cup {<<e, 4>>}) \cup {<<e, 5>>}
      <4> SUFFICES ASSUME NEW x \in Left'
                   PROVE  x \in Left \/ x = <<e, 4>> \/ x = <<e, 5>>
        OBVIOUS
      <4>1. /\ x \in Entity \X (3 .. 5) /\ window'[x[1]].open /\ window'[x[1]].revision > 0
            /\ window'[x[1]].rank < x[2]
        BY DEF Left
      <4>2. CASE x[1] = e
        <5>1. x[2] \in 3 .. 5 /\ r < x[2]
          BY <2>4, <4>1, <4>2
        <5>2. x[2] = 4 \/ x[2] = 5
          BY <2>1, <5>1
        <5>. QED  BY <4>1, <4>2, <5>2
      <4>3. CASE x[1] # e
        BY <2>4, <4>1, <4>3 DEF Left
      <4>. QED  BY <4>2, <4>3
    <3>2. Cardinality(Left') <= Cardinality(Left) + 2 /\ Cardinality(Left') \in Nat
      <4> DEFINE A == Left \cup {<<e, 4>>}
                 B == A \cup {<<e, 5>>}
      <4>1. IsFiniteSet(A) /\ Cardinality(A) <= Cardinality(Left) + 1 /\ Cardinality(A) \in Nat
        BY <1>3, OneMore
      <4>. HIDE DEF A
      <4>2. IsFiniteSet(B) /\ Cardinality(B) <= Cardinality(A) + 1 /\ Cardinality(B) \in Nat
        BY <4>1, OneMore
      <4>3. Left' \subseteq B
        BY <3>1 DEF A
      <4>. HIDE DEF B
      <4>4. Cardinality(Left') <= Cardinality(B) /\ Cardinality(Left') \in Nat
        BY <4>2, <4>3, FS_Subset, FS_CardinalityType
      <4>. QED  BY <1>3, <4>1, <4>2, <4>4
    <3>3. active' \in Nat /\ hasty' \in Nat /\ active' + hasty' = active + hasty + 1
      BY <1>3, <2>2, <2>6
    <3>4. active \in Nat /\ hasty \in Nat /\ incidents \in Nat /\ incidents' = incidents + 1
          /\ Cardinality(Left) \in Nat /\ incidents + Cardinality(Left) <= 3 * (active + hasty)
      BY <1>3, <2>2 DEF LevelsAdd
    <3>5. \A i, k, l, a, h, b, g \in Nat :
             i + k <= 3 * (a + h) /\ l <= k + 2 /\ b + g = a + h + 1
                => i + 1 + l <= 3 * (b + g)
      OBVIOUS
    <3>6. incidents + 1 + Cardinality(Left') <= 3 * (active' + hasty')
      BY <3>2, <3>3, <3>4, <3>5
    <3>7. incidents' + Cardinality(Left') <= 3 * (active' + hasty')
      BY <3>4, <3>6
    <3>. QED  BY <3>7 DEF LevelsAdd
  <2>. QED  BY <1>3, <2>5, <2>6
<1>. QED  BY <1>4, <1>5

LEMMA LevelsStep == IInv /\ LevelsAdd /\ [Next]_vars => LevelsAdd'
<1> SUFFICES ASSUME IInv, LevelsAdd, [Next]_vars PROVE LevelsAdd'
  OBVIOUS
<1>1. Types
  BY DEF IInv
<1>2. CASE UNCHANGED <<window, incidents, active, hasty>>
  BY <1>2 DEF LevelsAdd, Left
<1>3. ASSUME NEW o \in transit \cup delivered, Correlate(o) \/ Redeliver(o)
      PROVE  LevelsAdd'
  <2>1. o \in Observation /\ Enter(o)
    BY <1>1, <1>3 DEF Types, Correlate, Redeliver
  <2>. QED  BY <1>1, <2>1, EnterLevels
<1>4. ASSUME NEW e \in Entity, WindowExpires(e)  PROVE LevelsAdd'
  <2>1. window' = [window EXCEPT ![e] = Closed] /\ UNCHANGED <<incidents, active, hasty>>
    BY <1>4 DEF WindowExpires, historyVars
  <2>2. Left' \subseteq Left
    BY <1>1, <2>1, ClosedFacts DEF Left, Types
  <2>3. Cardinality(Left') <= Cardinality(Left) /\ Cardinality(Left') \in Nat
    BY <2>2, LeftFinite, FS_Subset, FS_CardinalityType
  <2>. QED  BY <1>1, <2>1, <2>3, LeftFinite DEF LevelsAdd, Types
<1>5. ASSUME NEW o, LogWarning(o)  PROVE LevelsAdd'
  BY <1>2, <1>5 DEF LogWarning
<1>6. ASSUME NEW n, NEW v, Permit(n, v) \/ PermitRenewed(n)  PROVE LevelsAdd'
  BY <1>2, <1>6 DEF Permit, PermitRenewed
<1>7. ASSUME NEW d, CallEnds(d) \/ CallFails(d)  PROVE LevelsAdd'
  BY <1>2, <1>7 DEF CallEnds, CallFails, Call
<1>. QED  BY <1>2, <1>3, <1>4, <1>5, <1>6, <1>7 DEF Next, vars, historyVars

LEMMA LevelsInvariance == Spec => []LevelsAdd
<1>1. Init => LevelsAdd
  <2> SUFFICES ASSUME Init PROVE LevelsAdd
    OBVIOUS
  <2>1. Left = {}
    BY ClosedFacts DEF Init, Left
  <2>. QED  BY <2>1, FS_EmptySet DEF Init, LevelsAdd
<1>. QED  BY <1>1, LevelsStep, Invariance, PTL DEF Spec

(* stable_id of governance_agent 214-219 and approval_agent 157-162 with   *)
(* update_correlation_window 427-479: three restarts at most for each      *)
(* window that raises incidents, as many again for verdicts of the other   *)
(* kind, and one for each renewed request and each failed call, for any    *)
(* seeds, warnings, weights and entities.                                  *)
THEOREM RestartsAreBoundedHolds == Spec => []RestartsAreBounded
<1>1. IInv /\ LevelsAdd => RestartsAreBounded
  <2> SUFFICES ASSUME IInv, LevelsAdd PROVE RestartsAreBounded
    OBVIOUS
  <2>1. Types /\ CallsAdd
    BY DEF IInv
  <2>. QED  BY <2>1, Numbers, LeftFinite DEF CallsAdd, LevelsAdd, RestartsAreBounded
<1>. QED  BY <1>1, Invariance, LevelsInvariance, PTL

(* audit 159-196 and update_correlation_window 427-479: the audits of      *)
(* first permits do not count.  What comes from outside, what is delivered *)
(* or called again, and the second decisions on incidents bound all the    *)
(* restarts there will be.                                                 *)
THEOREM CallsComeFromOutside ==
  Spec => [](calls <= 3 * (Cardinality(Seed) + Cardinality({o \in Seed : o.critical})
                           + 2 * warnings + 2 * repeats + retries + reversals + renewals)
                      + retries + reversals + renewals)
<1>1. IInv /\ LevelsAdd =>
         calls <= 3 * (Cardinality(Seed) + Cardinality({o \in Seed : o.critical})
                       + 2 * warnings + 2 * repeats + retries + reversals + renewals)
                  + retries + reversals + renewals
  <2> SUFFICES ASSUME IInv, LevelsAdd
               PROVE  calls <= 3 * (Cardinality(Seed) + Cardinality(Critical(Seed))
                                    + 2 * warnings + 2 * repeats + retries + reversals
                                    + renewals)
                               + retries + reversals + renewals
    BY DEF Critical
  <2>1. Types /\ ObservationsAdd /\ CallsAdd /\ CriticalAdd
    BY DEF IInv
  <2>2. calls <= 3 * (active + hasty) + retries + reversals + renewals
    BY <2>1, Numbers, LeftFinite DEF CallsAdd, LevelsAdd
  <2>3. active <= Cardinality(Seed) + warnings + repeats + retries + reversals + renewals
    BY <2>1, Numbers DEF ObservationsAdd, CallsAdd
  <2>4. hasty <= Cardinality(Critical(Seed)) + warnings + repeats
    BY <2>1, Numbers DEF CriticalAdd
  <2>. QED  BY <2>1, <2>2, <2>3, <2>4, Numbers
<1>. QED  BY <1>1, Invariance, LevelsInvariance, PTL
=============================================================================
