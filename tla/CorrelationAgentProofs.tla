------------------------- MODULE CorrelationAgentProofs -------------------------
(***************************************************************************)
(* Theorems about CorrelationAgent, for any observations, entities,        *)
(* messages and workers, any window length, thresholds and limit on the    *)
(* signals of a window, any number of deliveries and any clock bound.      *)
(* What Score computes does not matter to them, so it stays unexpanded.    *)
(***************************************************************************)
EXTENDS CorrelationAgent, TLAPS

-----------------------------------------------------------------------------
(* Windows *)

(* Newest drops a prefix of so many elements. *)
Dropped(s) == IF Len(s) <= MaxSignals THEN 0 ELSE Len(s) - MaxSignals

LEMMA NewestFacts ==
    ASSUME NEW S, NEW s \in Seq(S)
    PROVE  /\ Newest(s) \in Seq(S) /\ Dropped(s) \in 0 .. Len(s)
           /\ Len(Newest(s)) = Len(s) - Dropped(s)
           /\ \A i \in 1 .. Len(s) - Dropped(s) : Newest(s)[i] = s[i + Dropped(s)]
<1>1. MaxSignals \in Nat \ {0} /\ Len(s) \in Nat
  BY WindowAssumption
<1>2. CASE Len(s) <= MaxSignals
  BY <1>1, <1>2 DEF Newest, Dropped
<1>3. CASE Len(s) > MaxSignals
  <2> DEFINE m == Len(s) - MaxSignals + 1
             t == SubSeq(s, m, Len(s))
  <2>1. Newest(s) = t /\ m \in 2 .. Len(s) /\ Dropped(s) = m - 1
    BY <1>1, <1>3 DEF Newest, Dropped
  <2>2. /\ t \in Seq(S) /\ Len(t) = Len(s) - m + 1
        /\ \A i \in 1 .. Len(t) : t[i] = s[m + i - 1]
    BY <1>1, <2>1
  <2>. HIDE DEF t, m
  <2>3. \A i \in 1 .. Len(t) : t[i] = s[i + Dropped(s)]
    <3>1. \A i \in 1 .. Len(t) : m + i - 1 = i + Dropped(s)
      BY <1>1, <2>1
    <3>. QED  BY <2>2, <3>1
  <2>4. Len(t) = Len(s) - Dropped(s) /\ Dropped(s) \in 0 .. Len(s)
    BY <1>1, <2>1, <2>2
  <2>. QED  BY <2>1, <2>2, <2>3, <2>4
<1>. QED  BY <1>1, <1>2, <1>3

(* Signals and seen ids tell the same observations, and none of them twice. *)
InStep(win) ==
    /\ Len(win.seen) = Len(win.signals)
    /\ \A i \in 1 .. Len(win.seen) : win.seen[i] = win.signals[i].id
    /\ \A i, j \in 1 .. Len(win.seen) : win.seen[i] = win.seen[j] => i = j

(* Two sequences in step, as the functions they are. *)
LEMMA StepFunctions ==
    ASSUME NEW ids \in Seq(Id), NEW obs \in Seq(Observation), Len(ids) = Len(obs),
           \A i \in 1 .. Len(ids) : ids[i] = obs[i].id,
           \A i, j \in 1 .. Len(ids) : ids[i] = ids[j] => i = j
    PROVE  /\ ids = [i \in DOMAIN obs |-> obs[i].id]
           /\ \A i, j \in DOMAIN ids : ids[i] = ids[j] => i = j
<1>1. DOMAIN ids = 1 .. Len(ids) /\ DOMAIN obs = 1 .. Len(ids)
  OBVIOUS
<1>2. ids \in [1 .. Len(ids) -> Id]
  OBVIOUS
<1>3. ids = [i \in 1 .. Len(ids) |-> obs[i].id]
  <2> DEFINE s == [i \in 1 .. Len(ids) |-> obs[i].id]
  <2>1. /\ DOMAIN s = 1 .. Len(ids)
        /\ \A i \in 1 .. Len(ids) : s[i] = ids[i]
    OBVIOUS
  <2>. QED  BY <1>2, <2>1
<1>. QED  BY <1>1, <1>3

LEMMA FreshFacts ==
    ASSUME NEW now \in Nat
    PROVE  /\ Fresh(now) \in WindowType /\ InStep(Fresh(now))
           /\ Fresh(now).open /\ Fresh(now).started = now
           /\ Fresh(now).revision = 0 /\ Fresh(now).rank = 0
  BY DEF Fresh, WindowType, InStep

(* An observation more, of which the newest are kept. *)
LEMMA AddFacts ==
    ASSUME NEW win \in WindowType, NEW o \in Observation
    PROVE  /\ Add(win, o) \in WindowType
           /\ Add(win, o).open = win.open /\ Add(win, o).started = win.started
           /\ Add(win, o).rank = win.rank /\ Add(win, o).revision = win.revision
           /\ InStep(win) /\ o.id \notin Range(win.seen) => InStep(Add(win, o))
<1> DEFINE s == Append(win.signals, o)
           d == Append(win.seen, o.id)
<1>1. /\ o.id \in Id /\ win.signals \in Seq(Observation) /\ win.seen \in Seq(Id)
      /\ s \in Seq(Observation) /\ d \in Seq(Id)
      /\ Len(s) = Len(win.signals) + 1 /\ Len(d) = Len(win.seen) + 1
  BY CorrelationAssumption DEF WindowType, ObservationType
<1>2. Add(win, o) = [win EXCEPT !.signals = Newest(s), !.seen = Newest(d)]
  BY DEF Add, WindowType
<1>3. Newest(s) \in Seq(Observation) /\ Newest(d) \in Seq(Id)
  BY <1>1, NewestFacts
<1>4. ASSUME InStep(win), o.id \notin Range(win.seen)
      PROVE  InStep(Add(win, o))
  <2>1. /\ Len(s) = Len(d)
        /\ \A i \in 1 .. Len(d) : d[i] = s[i].id
    BY <1>1, <1>4 DEF InStep
  <2>2. \A i \in 1 .. Len(win.seen) : win.seen[i] # o.id
    BY <1>1, <1>4 DEF Range
  <2>3. \A i, j \in 1 .. Len(d) : d[i] = d[j] => i = j
    BY <1>1, <1>4, <2>2 DEF InStep
  <2> DEFINE k == Dropped(d)
  <2>4. /\ Len(Newest(d)) = Len(d) - k /\ Len(Newest(s)) = Len(d) - k
        /\ k \in 0 .. Len(d) /\ Dropped(s) = k
        /\ \A i \in 1 .. Len(d) - k : Newest(d)[i] = d[i + k] /\ Newest(s)[i] = s[i + k]
    <3>. HIDE DEF s, d
    <3>1. Dropped(s) = Dropped(d)
      BY <2>1 DEF Dropped
    <3>2. /\ Len(Newest(s)) = Len(s) - Dropped(s) /\ Dropped(s) \in 0 .. Len(s)
          /\ \A i \in 1 .. Len(s) - Dropped(s) : Newest(s)[i] = s[i + Dropped(s)]
      BY <1>1, NewestFacts
    <3>3. /\ Len(Newest(d)) = Len(d) - Dropped(d)
          /\ \A i \in 1 .. Len(d) - Dropped(d) : Newest(d)[i] = d[i + Dropped(d)]
      BY <1>1, NewestFacts
    <3>. QED  BY <2>1, <3>1, <3>2, <3>3
  <2>5. Add(win, o).seen = Newest(d) /\ Add(win, o).signals = Newest(s)
    BY <1>2 DEF WindowType
  <2>. HIDE DEF s, d, k
  <2>6. Len(d) \in Nat /\ \A i \in 1 .. Len(d) - k : i + k \in 1 .. Len(d)
    BY <1>1, <2>4
  <2>7. \A i \in 1 .. Len(d) - k : Newest(d)[i] = Newest(s)[i].id
    BY <2>1, <2>4, <2>6
  <2>8. \A i, j \in 1 .. Len(d) - k : Newest(d)[i] = Newest(d)[j] => i = j
    <3>1. ASSUME NEW i \in 1 .. Len(d) - k, NEW j \in 1 .. Len(d) - k,
                 Newest(d)[i] = Newest(d)[j]
          PROVE  i = j
      <4>1. d[i + k] = d[j + k] /\ i + k \in 1 .. Len(d) /\ j + k \in 1 .. Len(d)
        BY <2>4, <2>6, <3>1
      <4>2. i + k = j + k
        BY <2>3, <4>1
      <4>. QED  BY <2>4, <2>6, <4>2
    <3>. QED  BY <3>1
  <2>. QED  BY <2>4, <2>5, <2>7, <2>8 DEF InStep
<1>. HIDE DEF s, d
<1>. QED  BY <1>2, <1>3, <1>4 DEF WindowType

(* A level that has risen makes a revision. *)
LEMMA PromoteFacts ==
    ASSUME NEW win \in WindowType
    PROVE  /\ Promote(win) \in WindowType
           /\ Promote(win).open = win.open /\ Promote(win).started = win.started
           /\ Promote(win).signals = win.signals /\ Promote(win).seen = win.seen
           /\ \/ /\ ~IncidentDue(win.signals, win.rank) /\ Promote(win) = win
              \/ /\ IncidentDue(win.signals, win.rank)
                 /\ Promote(win).revision = win.revision + 1
                 /\ Promote(win).rank > win.rank
<1>1. Rank(Score(win.signals)) \in Nat
  BY DEF Rank
<1>2. IncidentDue(win.signals, win.rank) => Rank(Score(win.signals)) > win.rank
  BY DEF IncidentDue
<1>3. CASE IncidentDue(win.signals, win.rank)
  <2> DEFINE r == Rank(Score(win.signals))
  <2>1. Promote(win) = [win EXCEPT !.rank = r, !.revision = win.revision + 1]
    BY <1>3 DEF Promote
  <2>2. r \in Nat /\ r > win.rank
    BY <1>1, <1>2, <1>3
  <2>. HIDE DEF r
  <2>3. /\ win.rank \in Nat /\ win.revision \in Nat /\ win.revision + 1 \in Nat
        /\ DOMAIN win = {"open", "started", "signals", "seen", "rank", "revision"}
    BY DEF WindowType
  <2>4. /\ Promote(win).rank = r /\ Promote(win).revision = win.revision + 1
        /\ Promote(win).open = win.open /\ Promote(win).started = win.started
        /\ Promote(win).signals = win.signals /\ Promote(win).seen = win.seen
    BY <2>1, <2>3
  <2>5. Promote(win) \in WindowType
    BY <2>1, <2>2, <2>3 DEF WindowType
  <2>. QED  BY <1>3, <2>2, <2>4, <2>5
<1>4. CASE ~IncidentDue(win.signals, win.rank)
  BY <1>4 DEF Promote
<1>. QED  BY <1>3, <1>4

(* The window an observation enters: the one that is open, or a new one    *)
(* that begins later.                                                      *)
LEMMA CurrentFacts ==
    ASSUME NEW win \in WindowType, NEW now \in Nat, win.started <= now, InStep(win)
    PROVE  /\ Current(win, now) \in WindowType /\ InStep(Current(win, now))
           /\ Current(win, now).open /\ Current(win, now).started <= now
           /\ \/ win.open /\ Current(win, now) = win
              \/ /\ Current(win, now) = Fresh(now)
                 /\ ~win.open \/ win.started < now
<1>1. win.open \in BOOLEAN /\ win.started \in Nat /\ WindowLength \in Nat
  BY WindowAssumption DEF WindowType
<1>2. CASE Expired(win, now)
  <2>1. ~win.open \/ win.started < now
    BY <1>1, <1>2 DEF Expired
  <2>. QED  BY <1>2, <2>1, FreshFacts DEF Current
<1>3. CASE ~Expired(win, now)
  BY <1>1, <1>3 DEF Expired, Current
<1>. QED  BY <1>2, <1>3

-----------------------------------------------------------------------------
(* Types, and what every window is *)

WindowsInv ==
    \A e \in Entity : InStep(window[e]) /\ window[e].started <= clock

(* A busy worker has an observation of some entity. *)
LEMMA ObservationFacts ==
    ASSUME TypeOK, NEW w \in Worker, pc[w] # "idle"
    PROVE  /\ msg[w] \in Message /\ ObservationOf(w) \in Observation
           /\ EntityOf(w) \in Entity /\ window[EntityOf(w)] \in WindowType
<1>1. msg[w] \in Message /\ ObservationOf(w) \in Observation
  BY DEF TypeOK, ObservationOf
<1>2. EntityOf(w) \in Entity
  BY <1>1, CorrelationAssumption DEF EntityOf, ObservationType
<1>. QED  BY <1>1, <1>2 DEF TypeOK

(* The write of the transaction, and whether it makes an incident. *)
Written(w) == Promote(AddedTo(w))
Raised(w) == IncidentDue(AddedTo(w).signals, AddedTo(w).rank)
Enters(w) ==
    /\ pc[w] = "received" /\ ~Known(w)
    /\ window' = [window EXCEPT ![EntityOf(w)] = Written(w)]

(* The new window continues the one that was open, or starts later. *)
LEMMA WrittenFacts ==
    ASSUME TypeOK, WindowsInv, NEW w \in Worker, pc[w] = "received"
    PROVE  LET old == window[EntityOf(w)]
           IN  /\ Written(w) \in WindowType /\ Written(w).open
               /\ Written(w).started \in Nat /\ Written(w).started <= clock
               /\ ~Known(w) => InStep(Written(w))
               /\ \/ /\ old.open /\ Written(w).started = old.started
                     /\ IF Raised(w)
                        THEN /\ Written(w).revision = old.revision + 1
                             /\ Written(w).rank > old.rank
                        ELSE /\ Written(w).revision = old.revision
                             /\ Written(w).rank = old.rank
                  \/ /\ ~old.open \/ Written(w).started > old.started
                     /\ Written(w).revision = IF Raised(w) THEN 1 ELSE 0
<1> DEFINE old == window[EntityOf(w)]
           o   == ObservationOf(w)
           cur == CurrentOf(w)
<1>1. /\ old \in WindowType /\ o \in Observation /\ clock \in Nat
      /\ old.started <= clock /\ InStep(old)
  BY ObservationFacts DEF TypeOK, WindowsInv
<1>2. /\ cur \in WindowType /\ InStep(cur) /\ cur.open /\ cur.started <= clock
      /\ \/ old.open /\ cur = old
         \/ cur = Fresh(clock) /\ (~old.open \/ old.started < clock)
  <2>. HIDE DEF old
  <2>. QED  BY <1>1, CurrentFacts DEF CurrentOf, old
<1>3. /\ AddedTo(w) \in WindowType
      /\ AddedTo(w).open = cur.open /\ AddedTo(w).started = cur.started
      /\ AddedTo(w).rank = cur.rank /\ AddedTo(w).revision = cur.revision
      /\ ~Known(w) => InStep(AddedTo(w))
  <2>. HIDE DEF old, cur, o
  <2>. QED  BY <1>1, <1>2, AddFacts DEF AddedTo, Known, cur, o
<1>4. /\ Written(w) \in WindowType
      /\ Written(w).open = cur.open /\ Written(w).started = cur.started
      /\ ~Known(w) => InStep(Written(w))
      /\ IF Raised(w)
         THEN Written(w).revision = cur.revision + 1 /\ Written(w).rank > cur.rank
         ELSE Written(w).revision = cur.revision /\ Written(w).rank = cur.rank
  <2>. HIDE DEF old, cur, o
  <2>. QED  BY <1>3, PromoteFacts DEF Written, Raised, InStep
<1>5. /\ cur.started \in Nat
      /\ cur = Fresh(clock) => cur.started = clock /\ cur.revision = 0
  <2>. HIDE DEF old, cur, o
  <2>. QED  BY <1>1, <1>2, FreshFacts DEF WindowType
<1>. HIDE DEF cur, o
<1>. QED  BY <1>2, <1>4, <1>5

(* An entered window is typed and in step. *)
LEMMA EnterFacts ==
    ASSUME TypeOK, WindowsInv, NEW w \in Worker, Enters(w), clock' = clock
    PROVE  /\ window' \in [Entity -> WindowType] /\ WindowsInv'
           /\ window'[EntityOf(w)] = Written(w)
           /\ \A e \in Entity \ {EntityOf(w)} : window'[e] = window[e]
<1>1. /\ EntityOf(w) \in Entity /\ window \in [Entity -> WindowType]
      /\ Written(w) \in WindowType /\ InStep(Written(w)) /\ Written(w).started <= clock
  BY ObservationFacts, WrittenFacts DEF Enters, TypeOK
<1>2. /\ window' \in [Entity -> WindowType]
      /\ window'[EntityOf(w)] = Written(w)
      /\ \A e \in Entity \ {EntityOf(w)} : window'[e] = window[e]
  BY <1>1 DEF Enters
<1>3. ASSUME NEW e \in Entity PROVE InStep(window[e])' /\ window'[e].started <= clock'
  BY <1>1, <1>2 DEF WindowsInv, InStep
<1>. QED  BY <1>2, <1>3 DEF WindowsInv

NewIncident(w) == IncidentOf(EntityOf(w), Written(w))

LEMMA IncidentTyped ==
    ASSUME TypeOK, WindowsInv, NEW w \in Worker, pc[w] = "received"
    PROVE  NewIncident(w) \in IncidentType /\ NewIncident(w) # NoIncident
<1>1. /\ Written(w).started \in Nat /\ Written(w).revision \in Nat
      /\ Written(w).rank \in Nat /\ Written(w).seen \in Seq(Id) /\ EntityOf(w) \in Entity
  BY ObservationFacts, WrittenFacts DEF WindowType
<1>2. Range(Written(w).seen) \in SUBSET Id
  BY <1>1 DEF Range
<1>. QED  BY <1>1, <1>2, CorrelationAssumption DEF NewIncident, IncidentOf, IncidentType

WorkersOK ==
    /\ pc \in [Worker -> {"idle", "received", "publishing", "acking"}]
    /\ msg \in [Worker -> Message \cup {NoMessage}]
    /\ incident \in [Worker -> IncidentType \cup {NoIncident}]
    /\ \A w \in Worker :
          /\ pc[w] = "idle" <=> msg[w] = NoMessage
          /\ pc[w] = "publishing" => incident[w] # NoIncident

LEMMA ReleaseTyped ==
    ASSUME TypeOK, NEW w \in Worker, Release(w)
    PROVE  WorkersOK'
  BY DEF TypeOK, Release, WorkersOK

LEMMA FailureCounted ==
    ASSUME TypeOK, NEW w \in Worker, pc[w] # "idle", CountFailure(w)
    PROVE  failures' \in [Message -> Nat]
<1>1. failures \in [Message -> Nat] /\ msg[w] \in Message
  BY DEF TypeOK
<1>. QED  BY <1>1 DEF CountFailure

LEMMA InitTypes == Init => TypeOK /\ WindowsInv
<1> SUFFICES ASSUME Init PROVE TypeOK /\ WindowsInv
  OBVIOUS
<1> DEFINE closed == [Fresh(0) EXCEPT !.open = FALSE]
<1>1. closed \in WindowType /\ InStep(closed) /\ closed.started = 0
  <2>1. Fresh(0) \in WindowType /\ InStep(Fresh(0)) /\ Fresh(0).started = 0
    BY FreshFacts
  <2>. QED  BY <2>1 DEF WindowType, InStep
<1>. HIDE DEF closed
<1>2. \A e \in Entity : window[e] = closed
  BY DEF Init, closed
<1>3. window \in [Entity -> WindowType]
  BY <1>1 DEF Init, closed
<1>4. WindowsInv
  <2>1. clock = 0
    BY DEF Init
  <2>. QED  BY <1>1, <1>2, <2>1 DEF WindowsInv
<1>5. TypeOK
  BY <1>3, CorrelationAssumption DEF Init, TypeOK
<1>. QED  BY <1>4, <1>5

LEMMA NextTypes == TypeOK /\ WindowsInv /\ [Next]_vars => TypeOK' /\ WindowsInv'
<1> SUFFICES ASSUME TypeOK, WindowsInv, [Next]_vars PROVE TypeOK' /\ WindowsInv'
  OBVIOUS
<1>. USE DEF queueVars, workerVars
<1>0. ASSUME window' = window, clock' \in Nat, clock <= clock' PROVE WindowsInv'
  <2>1. \A e \in Entity : window[e].started \in Nat /\ clock \in Nat
    BY DEF TypeOK, WindowType
  <2>. QED  BY <1>0, <2>1 DEF WindowsInv, InStep
<1>00. clock \in Nat /\ clock <= clock
  BY DEF TypeOK
<1>1. CASE Tick
  BY <1>0, <1>00, <1>1 DEF Tick, TypeOK
<1>2. ASSUME NEW m \in Message, DeadLetter(m) PROVE TypeOK' /\ WindowsInv'
  BY <1>0, <1>00, <1>2 DEF DeadLetter, TypeOK
<1>3. ASSUME NEW w \in Worker, NEW m \in Message, Deliver(w, m)
      PROVE  TypeOK' /\ WindowsInv'
  BY <1>0, <1>00, <1>3, CorrelationAssumption DEF Deliver, Goto, TypeOK
<1>4. ASSUME NEW w \in Worker, Correlate(w) PROVE TypeOK' /\ WindowsInv'
  <2>1. Enters(w) /\ clock' = clock
    BY <1>4 DEF Correlate, Enters, Written
  <2>2. WorkersOK'
    <3>1. CASE Raised(w)
      <4>1. incident' = [incident EXCEPT ![w] = NewIncident(w)] /\ Goto(w, "publishing")
        BY <1>4, <3>1 DEF Correlate, Raised, NewIncident, Written
      <4>. QED
        BY <1>4, <4>1, IncidentTyped DEF Correlate, Goto, WorkersOK, TypeOK
    <3>2. CASE ~Raised(w)
      BY <1>4, <3>2 DEF Correlate, Raised, Goto, WorkersOK, TypeOK
    <3>. QED  BY <3>1, <3>2
  <2>. QED  BY <1>4, <2>1, <2>2, EnterFacts DEF Correlate, WorkersOK, TypeOK
<1>5. ASSUME NEW w \in Worker, CorrelateKnown(w) PROVE TypeOK' /\ WindowsInv'
  BY <1>0, <1>00, <1>5 DEF CorrelateKnown, Goto, TypeOK
<1>6. ASSUME NEW w \in Worker, CorrelateError(w) PROVE TypeOK' /\ WindowsInv'
  <2>1. window' = window \/ Enters(w)
    BY <1>6 DEF CorrelateError, Enters, Written
  <2>2. window' \in [Entity -> WindowType] /\ WindowsInv' /\ clock' = clock
    BY <1>0, <1>00, <1>6, <2>1, EnterFacts DEF CorrelateError, TypeOK
  <2>3. WorkersOK' /\ failures' \in [Message -> Nat]
    BY <1>6, ReleaseTyped, FailureCounted DEF CorrelateError, Nack
  <2>. QED  BY <1>6, <2>2, <2>3 DEF CorrelateError, Nack, WorkersOK, TypeOK
<1>7. ASSUME NEW w \in Worker, Publish(w) PROVE TypeOK' /\ WindowsInv'
  BY <1>0, <1>00, <1>7 DEF Publish, Goto, TypeOK
<1>8. ASSUME NEW w \in Worker, PublishError(w) PROVE TypeOK' /\ WindowsInv'
  <2>1. WorkersOK' /\ failures' \in [Message -> Nat]
    BY <1>8, ReleaseTyped, FailureCounted DEF PublishError, Nack
  <2>2. published' \in SUBSET IncidentType
    BY <1>8 DEF PublishError, TypeOK
  <2>. QED  BY <1>0, <1>00, <1>8, <2>1, <2>2 DEF PublishError, Nack, WorkersOK, TypeOK
<1>9. ASSUME NEW w \in Worker, Ack(w) PROVE TypeOK' /\ WindowsInv'
  <2>1. WorkersOK'
    BY <1>9, ReleaseTyped DEF Ack
  <2>. QED  BY <1>0, <1>00, <1>9, <2>1 DEF Ack, WorkersOK, TypeOK
<1>10. ASSUME NEW w \in Worker, Crash(w) PROVE TypeOK' /\ WindowsInv'
  <2>1. WorkersOK' /\ failures' \in [Message -> Nat]
    BY <1>10, ReleaseTyped, FailureCounted DEF Crash, Nack
  <2>. QED  BY <1>0, <1>00, <1>10, <2>1 DEF Crash, Nack, WorkersOK, TypeOK
<1>11. CASE UNCHANGED vars
  BY <1>0, <1>00, <1>11 DEF vars, TypeOK
<1>. QED
  BY <1>1, <1>2, <1>3, <1>4, <1>5, <1>6, <1>7, <1>8, <1>9, <1>10, <1>11 DEF Next, Work

-----------------------------------------------------------------------------
(* The inductive invariant *)

(* Incidents on the topic, and those on their way there. *)
Out(x) == x \in published \/ \E w \in Worker : pc[w] = "publishing" /\ incident[w] = x

(* An incident is of the window that is open, which has come at least as   *)
(* far since, or of an earlier one.                                        *)
Behind(x, win) ==
    /\ win.open /\ x.started <= win.started
    /\ x.started = win.started => x.revision <= win.revision /\ x.rank <= win.rank
BehindInv == \A x \in IncidentType : Out(x) => Behind(x, window[x.entity])

(* Revisions of a window number its incidents in the order of their level. *)
Ordered(x, y) ==
    x.entity = y.entity /\ x.started = y.started =>
        /\ x.revision = y.revision => x = y
        /\ x.revision < y.revision => x.rank < y.rank
OrderedInv == \A x, y \in IncidentType : Out(x) /\ Out(y) => Ordered(x, y)

IInv == TypeOK /\ WindowsInv /\ BehindInv /\ OrderedInv

-----------------------------------------------------------------------------
(* What a step does *)

WorkerStep(w) == Work(w) \/ Crash(w) \/ \E m \in Message : Deliver(w, m)
Environment == Tick \/ \E m \in Message : DeadLetter(m)

(* A worker's step writes no window, or enters one; and the only incident  *)
(* it brings out is that of the window it enters.                          *)
LEMMA StepFrame ==
    ASSUME TypeOK, NEW w \in Worker, WorkerStep(w)
    PROVE  /\ clock' = clock
           /\ window' = window \/ Enters(w)
           /\ \A x : Out(x)' =>
                 Out(x) \/ (Enters(w) /\ Raised(w) /\ x = NewIncident(w))
<1>. USE DEF queueVars, workerVars
<1>1. CASE Correlate(w)
  <2>1. Enters(w) /\ clock' = clock /\ published' = published
    BY <1>1 DEF Correlate, Enters, Written
  <2>2. \A v \in Worker \ {w} : pc'[v] = pc[v] /\ incident'[v] = incident[v]
    BY <1>1 DEF Correlate, Goto, TypeOK
  <2>3. CASE Raised(w)
    <3>1. incident' = [incident EXCEPT ![w] = NewIncident(w)]
      BY <1>1, <2>3 DEF Correlate, Raised, NewIncident, Written
    <3>2. incident'[w] = NewIncident(w)
      BY <3>1 DEF TypeOK
    <3>. QED  BY <2>1, <2>2, <2>3, <3>2 DEF Out
  <2>4. CASE ~Raised(w)
    <3>1. pc'[w] = "acking"
      BY <1>1, <2>4 DEF Correlate, Raised, Goto, TypeOK
    <3>. QED  BY <2>1, <2>2, <3>1 DEF Out
  <2>. QED  BY <2>3, <2>4
<1>2. CASE ~Correlate(w)
  <2>1. /\ clock' = clock /\ (window' = window \/ Enters(w))
        /\ \A v \in Worker \ {w} : pc'[v] = pc[v] /\ incident'[v] = incident[v]
        /\ pc'[w] # "publishing"
        /\ \/ published' = published
           \/ pc[w] = "publishing" /\ published' = published \cup {incident[w]}
    <3>1. CASE CorrelateError(w)
      BY <3>1 DEF CorrelateError, Enters, Written, Nack, Release, TypeOK
    <3>2. CASE CorrelateKnown(w) \/ Publish(w) \/ PublishError(w) \/ Ack(w) \/ Crash(w)
      BY <3>2 DEF CorrelateKnown, Publish, PublishError, Ack, Crash, Nack, Release, Goto,
                  TypeOK
    <3>3. CASE \E m \in Message : Deliver(w, m)
      BY <3>3 DEF Deliver, Goto, TypeOK
    <3>. QED  BY <1>2, <3>1, <3>2, <3>3 DEF WorkerStep, Work
  <2>. QED  BY <2>1 DEF Out
<1>. QED  BY <1>1, <1>2

LEMMA EnvironmentFrame ==
    ASSUME TypeOK, Environment \/ UNCHANGED vars
    PROVE  window' = window /\ \A x : Out(x)' => Out(x)
<1>. USE DEF queueVars, workerVars
<1>1. UNCHANGED <<pc, incident, window, published>>
  BY DEF Environment, Tick, DeadLetter, vars
<1>. QED  BY <1>1 DEF Out

LEMMA NextSplit ==
    ASSUME [Next]_vars
    PROVE  Environment \/ (\E w \in Worker : WorkerStep(w)) \/ UNCHANGED vars
  BY DEF Next, Environment, WorkerStep

(* An entered window is not behind what it was, and ahead if it has risen. *)
LEMMA EnterKeeps ==
    ASSUME TypeOK, WindowsInv, NEW w \in Worker, Enters(w), clock' = clock,
           NEW x \in IncidentType, Behind(x, window[x.entity])
    PROVE  /\ Behind(x, window'[x.entity])
           /\ Raised(w) /\ x.entity = EntityOf(w) /\ x.started = Written(w).started =>
                 x.revision < Written(w).revision /\ x.rank < Written(w).rank
<1> DEFINE old == window[EntityOf(w)]
<1>1. /\ x.entity \in Entity /\ x.started \in Nat /\ x.revision \in Nat /\ x.rank \in Nat
  BY DEF IncidentType
<1>2. /\ old.started \in Nat /\ old.revision \in Nat /\ old.rank \in Nat
      /\ Written(w).started \in Nat /\ Written(w).revision \in Nat
      /\ Written(w).rank \in Nat /\ Written(w).open
  <2>1. old \in WindowType /\ Written(w) \in WindowType /\ Written(w).open
    BY ObservationFacts, WrittenFacts DEF Enters
  <2>. QED  BY <2>1 DEF WindowType
<1>3. /\ window'[EntityOf(w)] = Written(w)
      /\ \A e \in Entity \ {EntityOf(w)} : window'[e] = window[e]
  BY EnterFacts
<1>4. \/ /\ old.open /\ Written(w).started = old.started
         /\ IF Raised(w)
            THEN Written(w).revision = old.revision + 1 /\ Written(w).rank > old.rank
            ELSE Written(w).revision = old.revision /\ Written(w).rank = old.rank
      \/ ~old.open \/ Written(w).started > old.started
  BY WrittenFacts DEF Enters
<1>5. CASE x.entity # EntityOf(w)
  BY <1>1, <1>3, <1>5
<1>6. CASE x.entity = EntityOf(w)
  <2>1. /\ old.open /\ x.started <= old.started
        /\ x.started = old.started => x.revision <= old.revision /\ x.rank <= old.rank
    BY <1>6 DEF Behind
  <2>. HIDE DEF old
  <2>2. CASE Written(w).started > old.started
    <3>1. x.started <= Written(w).started /\ x.started # Written(w).started
      BY <1>1, <1>2, <2>1, <2>2
    <3>. QED  BY <1>2, <1>3, <1>6, <3>1 DEF Behind
  <2>3. CASE /\ Written(w).started = old.started
             /\ IF Raised(w)
                THEN Written(w).revision = old.revision + 1 /\ Written(w).rank > old.rank
                ELSE Written(w).revision = old.revision /\ Written(w).rank = old.rank
    <3>1. x.started = old.started =>
             /\ x.revision <= Written(w).revision /\ x.rank <= Written(w).rank
             /\ Raised(w) => x.revision < Written(w).revision /\ x.rank < Written(w).rank
      BY <1>1, <1>2, <2>1, <2>3
    <3>. QED  BY <1>2, <1>3, <1>6, <2>1, <2>3, <3>1 DEF Behind
  <2>. QED  BY <1>4, <2>1, <2>2, <2>3
<1>. QED  BY <1>5, <1>6

LEMMA NextOut ==
    ASSUME TypeOK, WindowsInv, BehindInv, OrderedInv, [Next]_vars
    PROVE  BehindInv' /\ OrderedInv'
<1>1. CASE Environment \/ UNCHANGED vars
  BY <1>1, EnvironmentFrame DEF BehindInv, OrderedInv, Behind, Ordered
<1>2. ASSUME NEW w \in Worker, WorkerStep(w) PROVE BehindInv' /\ OrderedInv'
  <2>0. /\ clock' = clock
        /\ window' = window \/ Enters(w)
        /\ \A x : Out(x)' => Out(x) \/ (Enters(w) /\ Raised(w) /\ x = NewIncident(w))
    BY <1>2, StepFrame
  <2>1. \A x \in IncidentType : Out(x) => Behind(x, window'[x.entity])
    BY <2>0, EnterKeeps DEF BehindInv
  <2>2. ASSUME Enters(w), Raised(w)
        PROVE  /\ NewIncident(w) \in IncidentType
               /\ Behind(NewIncident(w), window'[NewIncident(w).entity])
               /\ \A x \in IncidentType : Out(x) =>
                     Ordered(x, NewIncident(w)) /\ Ordered(NewIncident(w), x)
    <3> DEFINE n == NewIncident(w)
    <3>1. /\ n.entity = EntityOf(w) /\ n.started = Written(w).started
          /\ n.revision = Written(w).revision /\ n.rank = Written(w).rank
      BY DEF NewIncident, IncidentOf
    <3>2. n \in IncidentType /\ window'[EntityOf(w)] = Written(w) /\ Written(w).open
      BY <2>0, <2>2, IncidentTyped, EnterFacts, WrittenFacts DEF Enters
    <3>3. /\ n.started \in Nat /\ n.revision \in Nat /\ n.rank \in Nat
      BY <3>2 DEF IncidentType
    <3>. HIDE DEF n
    <3>4. Behind(n, window'[n.entity])
      BY <3>1, <3>2, <3>3 DEF Behind
    <3>5. ASSUME NEW x \in IncidentType, Out(x),
                 x.entity = n.entity, x.started = n.started
          PROVE  x.revision < n.revision /\ x.rank < n.rank
      BY <2>0, <2>2, <3>1, <3>5, EnterKeeps DEF BehindInv
    <3>6. ASSUME NEW x \in IncidentType, Out(x) PROVE Ordered(x, n) /\ Ordered(n, x)
      <4>1. x.revision \in Nat /\ x.rank \in Nat
        BY DEF IncidentType
      <4>. QED  BY <3>3, <3>5, <3>6, <4>1 DEF Ordered
    <3>. QED  BY <3>2, <3>4, <3>6 DEF n
  <2>3. BehindInv'
    <3> SUFFICES ASSUME NEW x \in IncidentType, Out(x)'
                 PROVE  Behind(x, window'[x.entity])
      BY DEF BehindInv, Behind
    <3>. QED  BY <2>0, <2>1, <2>2
  <2>4. OrderedInv'
    <3> SUFFICES ASSUME NEW x \in IncidentType, NEW y \in IncidentType, Out(x)', Out(y)'
                 PROVE  Ordered(x, y)
      BY DEF OrderedInv, Ordered
    <3>1. Ordered(x, x)
      BY DEF Ordered, IncidentType
    <3>. QED  BY <2>0, <2>2, <3>1 DEF OrderedInv
  <2>. QED  BY <2>3, <2>4
<1>. QED  BY <1>1, <1>2, NextSplit

-----------------------------------------------------------------------------
(* Nothing is lost but by a failure *)

(* No delivery about e has failed. *)
Clean(e) == \A m \in Message : payload[m].entity = e => failures[m] = 0

(* Of such an entity, each revision of the window is out. *)
IsOut(e, k) ==
    \E x \in IncidentType :
        Out(x) /\ x.entity = e /\ x.started = window[e].started /\ x.revision = k
NothingLost ==
    \A e \in Entity : Clean(e) => \A k \in 1 .. window[e].revision : IsOut(e, k)

(* A worker publishes an incident of its own observation's entity. *)
OwnIncident == \A w \in Worker : pc[w] = "publishing" => incident[w].entity = EntityOf(w)

LEMMA StepOwn == TypeOK /\ OwnIncident /\ [Next]_vars => OwnIncident' /\ payload' = payload
<1> SUFFICES ASSUME TypeOK, OwnIncident, [Next]_vars
             PROVE  OwnIncident' /\ payload' = payload
  OBVIOUS
<1>. USE DEF queueVars, workerVars
<1>1. ASSUME NEW w \in Worker, WorkerStep(w)
      PROVE  OwnIncident' /\ payload' = payload
  <2>1. CASE Correlate(w)
    <3>1. /\ payload' = payload /\ msg' = msg
          /\ \A v \in Worker \ {w} : pc'[v] = pc[v] /\ incident'[v] = incident[v]
      BY <2>1 DEF Correlate, Goto, TypeOK
    <3>2. pc'[w] = "publishing" => incident'[w].entity = EntityOf(w)
      BY <2>1 DEF Correlate, Goto, TypeOK, IncidentOf
    <3>. QED  BY <3>1, <3>2 DEF OwnIncident, EntityOf, ObservationOf
  <2>2. CASE ~Correlate(w)
    <3>1. /\ payload' = payload /\ pc'[w] # "publishing"
          /\ \A v \in Worker \ {w} : /\ pc'[v] = pc[v] /\ msg'[v] = msg[v]
                                     /\ incident'[v] = incident[v]
      <4>1. CASE CorrelateKnown(w) \/ Publish(w)
        BY <4>1 DEF CorrelateKnown, Publish, Goto, TypeOK
      <4>2. CASE CorrelateError(w) \/ PublishError(w) \/ Ack(w) \/ Crash(w)
        <5>1. Release(w) /\ payload' = payload
          BY <4>2 DEF CorrelateError, PublishError, Ack, Crash, Nack
        <5>. QED  BY <5>1 DEF Release, TypeOK
      <4>3. CASE \E m \in Message : Deliver(w, m)
        BY <4>3 DEF Deliver, Goto, TypeOK
      <4>. QED  BY <1>1, <2>2, <4>1, <4>2, <4>3 DEF WorkerStep, Work
    <3>. QED  BY <3>1 DEF OwnIncident, EntityOf, ObservationOf
  <2>. QED  BY <2>1, <2>2
<1>2. CASE Environment \/ UNCHANGED vars
  BY <1>2 DEF Environment, Tick, DeadLetter, vars, OwnIncident, EntityOf, ObservationOf
<1>. QED  BY <1>1, <1>2, NextSplit

(* A step that fails marks its entity; every other one takes no incident   *)
(* back, and brings out the one it raises.                                 *)
LEMMA StepLoss ==
    ASSUME TypeOK, OwnIncident, NEW w \in Worker, WorkerStep(w), payload' = payload,
           NEW e \in Entity, Clean(e)'
    PROVE  /\ Clean(e)
           /\ \A x : Out(x) /\ x.entity = e => Out(x)'
           /\ \/ window'[e] = window[e]
              \/ /\ e = EntityOf(w) /\ Enters(w)
                 /\ Raised(w) => \A x : x = NewIncident(w) => Out(x)'
<1>. USE DEF queueVars, workerVars
<1>1. CASE Correlate(w)
  <2>1. /\ Enters(w) /\ published' = published /\ failures' = failures
        /\ pc[w] # "publishing"
        /\ \A v \in Worker \ {w} : pc'[v] = pc[v] /\ incident'[v] = incident[v]
    BY <1>1 DEF Correlate, Enters, Written, Goto, TypeOK
  <2>2. Raised(w) => pc'[w] = "publishing" /\ incident'[w] = NewIncident(w)
    BY <1>1 DEF Correlate, Raised, NewIncident, Written, Goto, TypeOK
  <2>3. e # EntityOf(w) => window'[e] = window[e]
    BY <2>1 DEF Enters, TypeOK
  <2>4. Clean(e)
    BY <2>1 DEF Clean
  <2>5. \A x : Out(x) => Out(x)'
    BY <2>1 DEF Out
  <2>6. ASSUME Raised(w), NEW x, x = NewIncident(w) PROVE Out(x)'
    BY <2>2, <2>6 DEF Out
  <2>. QED  BY <2>1, <2>3, <2>4, <2>5, <2>6
<1>2. CASE CorrelateKnown(w) \/ Publish(w) \/ Ack(w) \/ \E m \in Message : Deliver(w, m)
  <2>1. /\ window' = window /\ failures' = failures
        /\ \A v \in Worker \ {w} : pc'[v] = pc[v] /\ incident'[v] = incident[v]
        /\ published \subseteq published'
        /\ pc[w] = "publishing" => incident[w] \in published'
    BY <1>2 DEF CorrelateKnown, Publish, Ack, Deliver, Release, Goto, TypeOK
  <2>. QED  BY <2>1 DEF Out, Clean
<1>3. CASE CorrelateError(w) \/ PublishError(w) \/ Crash(w)
  <2>1. /\ CountFailure(w) /\ pc[w] # "idle" /\ published \subseteq published'
        /\ \A v \in Worker \ {w} : pc'[v] = pc[v] /\ incident'[v] = incident[v]
        /\ window' = window \/ Enters(w)
    BY <1>3 DEF CorrelateError, PublishError, Crash, Nack, Release, Enters, Written, TypeOK
  <2>2. msg[w] \in Message /\ failures \in [Message -> Nat]
    BY <2>1 DEF TypeOK
  <2>3. \A m \in Message : failures'[m] = 0 => failures[m] = 0
    BY <2>1, <2>2 DEF CountFailure
  <2>4. failures'[msg[w]] # 0
    BY <2>1, <2>2 DEF CountFailure
  <2>5. e # EntityOf(w) /\ Clean(e)
    BY <2>2, <2>3, <2>4 DEF Clean, EntityOf, ObservationOf
  <2>6. window'[e] = window[e]
    BY <2>1, <2>5 DEF Enters, TypeOK
  <2>. QED  BY <2>1, <2>5, <2>6 DEF Out, OwnIncident
<1>. QED  BY <1>1, <1>2, <1>3 DEF WorkerStep, Work

(* The revisions of the window that was entered. *)
LEMMA EnterLosesNothing ==
    ASSUME TypeOK, WindowsInv, NEW w \in Worker, Enters(w), clock' = clock,
           NEW e \in Entity, e = EntityOf(w),
           \A k \in 1 .. window[e].revision : IsOut(e, k),
           \A x : Out(x) /\ x.entity = e => Out(x)',
           Raised(w) => \A x : x = NewIncident(w) => Out(x)'
    PROVE  \A k \in 1 .. window'[e].revision : IsOut(e, k)'
<1> DEFINE old == window[e]  new == Written(w)
<1>1. /\ pc[w] = "received" /\ window'[e] = new /\ e \in Entity
      /\ old.revision \in Nat
  BY EnterFacts, ObservationFacts DEF Enters, TypeOK, WindowType
<1>2. /\ NewIncident(w) \in IncidentType /\ NewIncident(w).entity = e
      /\ NewIncident(w).started = new.started /\ NewIncident(w).revision = new.revision
  BY <1>1, IncidentTyped DEF NewIncident, IncidentOf
<1>3. \/ /\ new.started = old.started
         /\ new.revision = IF Raised(w) THEN old.revision + 1 ELSE old.revision
      \/ new.revision = IF Raised(w) THEN 1 ELSE 0
  BY <1>1, WrittenFacts
<1> HIDE DEF old, new
<1>4. ASSUME NEW k \in 1 .. Written(w).revision PROVE IsOut(e, k)'
  <2>1. CASE Raised(w) /\ k = new.revision
    <3>1. PICK x : x = NewIncident(w)
      OBVIOUS
    <3>2. /\ x \in IncidentType /\ Out(x)' /\ x.entity = e
          /\ x.started = new.started /\ x.revision = k
      BY <1>2, <2>1, <3>1
    <3>3. window'[e].started = new.started
      BY <1>1
    <3>. QED  BY <3>2, <3>3 DEF IsOut
  <2>2. CASE ~(Raised(w) /\ k = new.revision)
    <3>1. new.started = old.started /\ k \in 1 .. old.revision
      BY <1>1, <1>3, <1>4, <2>2 DEF new
    <3>2. PICK x \in IncidentType :
             Out(x) /\ x.entity = e /\ x.started = old.started /\ x.revision = k
      BY <3>1 DEF IsOut, old
    <3>3. window'[e].started = x.started /\ Out(x)'
      BY <1>1, <3>1, <3>2
    <3>. QED  BY <3>2, <3>3 DEF IsOut
  <2>. QED  BY <2>1, <2>2
<1>5. window'[e].revision = Written(w).revision
  BY <1>1 DEF new
<1>. QED  BY <1>4, <1>5

LEMMA StepNothingLost ==
    ASSUME TypeOK, WindowsInv, OwnIncident, NothingLost, [Next]_vars
    PROVE  NothingLost'
<1>0. payload' = payload
  BY StepOwn
<1>1. ASSUME NEW w \in Worker, WorkerStep(w), NEW e \in Entity, Clean(e)',
             NEW k \in 1 .. window'[e].revision
      PROVE  IsOut(e, k)'
  <2>1. /\ Clean(e) /\ clock' = clock
        /\ \A x : Out(x) /\ x.entity = e => Out(x)'
        /\ \/ window'[e] = window[e]
           \/ /\ e = EntityOf(w) /\ Enters(w)
              /\ Raised(w) => \A x : x = NewIncident(w) => Out(x)'
    BY <1>0, <1>1, StepLoss, StepFrame
  <2>2. \A j \in 1 .. window[e].revision : IsOut(e, j)
    BY <2>1 DEF NothingLost
  <2>3. CASE window'[e] = window[e]
    BY <1>1, <2>1, <2>2, <2>3 DEF IsOut
  <2>4. CASE window'[e] # window[e]
    BY <1>1, <2>1, <2>2, <2>4, EnterLosesNothing
  <2>. QED  BY <2>3, <2>4
<1>2. ASSUME Environment \/ UNCHANGED vars, NEW e \in Entity, Clean(e)',
             NEW k \in 1 .. window'[e].revision
      PROVE  IsOut(e, k)'
  <2>1. UNCHANGED <<payload, failures, window, pc, incident, published>>
    BY <1>2 DEF Environment, Tick, DeadLetter, vars, queueVars, workerVars
  <2>. QED  BY <1>2, <2>1 DEF NothingLost, Clean, IsOut, Out
<1>. QED  BY <1>1, <1>2, NextSplit DEF NothingLost

-----------------------------------------------------------------------------
(* The theorems *)

(* All parts of the invariant, in every reachable state.                   *)
THEOREM Invariance == Spec => []IInv
<1>1. Init => IInv
  BY InitTypes DEF Init, IInv, BehindInv, OrderedInv, Out
<1>2. IInv /\ [Next]_vars => IInv'
  BY NextTypes, NextOut DEF IInv
<1>. QED  BY <1>1, <1>2, PTL DEF Spec

(* Windows, incidents, queues and workers are what they should be.         *)
THEOREM TypeCorrect == Spec => []TypeOK
  BY Invariance, PTL DEF IInv

(* 325-347: signals and seen ids stay in step through truncation, and no   *)
(* observation counts twice within a window.                               *)
THEOREM SignalsAreSeenHolds == Spec => []SignalsAreSeen
<1>1. IInv => SignalsAreSeen
  <2> SUFFICES ASSUME IInv, NEW e \in Entity
               PROVE  /\ window[e].seen =
                            [i \in DOMAIN window[e].signals |-> window[e].signals[i].id]
                      /\ \A i, j \in DOMAIN window[e].seen :
                            window[e].seen[i] = window[e].seen[j] => i = j
    BY DEF SignalsAreSeen
  <2>1. /\ window[e].seen \in Seq(Id) /\ window[e].signals \in Seq(Observation)
        /\ InStep(window[e])
    BY DEF IInv, TypeOK, WindowType, WindowsInv
  <2>. QED  BY <2>1, StepFunctions DEF InStep
<1>. QED  BY <1>1, Invariance, PTL

(* process 511, _callback 143-204: an incident that its window takes for   *)
(* published is on the topic once the messages about its entity have been  *)
(* handled, or a delivery has failed.                                      *)
THEOREM LostOnlyByFailureHolds == Spec => []LostOnlyByFailure
<1>1. Init => OwnIncident /\ NothingLost
  <2>1. ASSUME Init PROVE \A e \in Entity : window[e].revision = 0
    BY <2>1 DEF Init, Fresh
  <2>2. Init => OwnIncident
    BY DEF Init, OwnIncident
  <2>. QED  BY <2>1, <2>2 DEF NothingLost
<1>2. TypeOK /\ OwnIncident /\ NothingLost => LostOnlyByFailure
  <2> SUFFICES ASSUME TypeOK, OwnIncident, NothingLost, NEW e \in Entity, Settled(e),
                      Clean(e), NEW k \in 1 .. window[e].revision
               PROVE  \E x \in published : /\ x.entity = e
                                           /\ x.started = window[e].started
                                           /\ x.revision = k
    BY DEF LostOnlyByFailure, Clean
  <2>1. PICK x \in IncidentType : /\ Out(x) /\ x.entity = e
                                  /\ x.started = window[e].started /\ x.revision = k
    BY DEF NothingLost, IsOut
  <2>. QED  BY <2>1 DEF Out, OwnIncident, Settled
<1>3. IInv /\ OwnIncident /\ NothingLost /\ [Next]_vars => (OwnIncident /\ NothingLost)'
  BY StepOwn, StepNothingLost DEF IInv
<1>4. IInv => TypeOK
  BY DEF IInv
<1>. QED  BY <1>1, <1>2, <1>3, <1>4, Invariance, PTL DEF Spec

(* 454-479: incident id and revision name one incident, and a later        *)
(* revision has a higher level.                                            *)
THEOREM RevisionNamesIncidentHolds == Spec => []RevisionNamesIncident
<1>1. IInv => RevisionNamesIncident
  BY DEF IInv, OrderedInv, Ordered, Out, RevisionNamesIncident, TypeOK
<1>. QED  BY <1>1, Invariance, PTL
=============================================================================
