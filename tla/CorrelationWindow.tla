--------------------------- MODULE CorrelationWindow ---------------------------
(***************************************************************************)
(* The arithmetic of python/correlation_agent.py: what an observation does *)
(* to the window of its entity, when the window makes an incident, and of  *)
(* which level.                                                            *)
(***************************************************************************)
EXTENDS Integers, FiniteSets, Sequences, Functions

CONSTANTS
    WindowLength,   \* CORRELATION_WINDOW_MINUTES, in ticks of a clock
    MinSignals,     \* MIN_SIGNALS
    Threshold,      \* INCIDENT_SCORE_THRESHOLD
    MaxSignals      \* MAX_SIGNALS_PER_WINDOW

ASSUME WindowAssumption ==
    /\ WindowLength \in Nat
    /\ MinSignals \in Nat
    /\ MaxSignals \in Nat \ {0}

(* What is left of a window that has expired or never was, at time now. *)
Fresh(now) ==
    [ open |-> TRUE, started |-> now, signals |-> <<>>, seen |-> <<>>,
      rank |-> 0, revision |-> 0 ]

AtMost(bound, n) == IF n <= bound THEN n ELSE bound

(* s[-MAX_SIGNALS_PER_WINDOW:] *)
Newest(s) ==
    IF Len(s) <= MaxSignals THEN s ELSE SubSeq(s, Len(s) - MaxSignals + 1, Len(s))

BaseScore(signals) ==
    LET sum[n \in 0 .. Len(signals)] ==
            IF n = 0 THEN 0 ELSE signals[n].weight + sum[n - 1]
    IN  sum[Len(signals)]

Score(signals) ==
    LET sources    == {o.source : o \in Range(signals)}
        categories == {o.category : o \in Range(signals)}
    IN  AtMost(100, BaseScore(signals)
                    + (IF Cardinality(sources) >= 2 THEN 12 ELSE 0)
                    + AtMost(12, 3 * (Len(signals) - 1))
                    + AtMost(8, 4 * (Cardinality(categories) - 1)))

(* SEVERITY_RANK[risk_level(score)] *)
Rank(score) ==
    CASE score >= 80 -> 5
      [] score >= 50 /\ score < 80 -> 4
      [] score >= 25 /\ score < 50 -> 3
      [] OTHER -> 2

(* Mistake: the score alone decides. *)
IncidentDueAlone(signals, rank) ==
    /\ (\E o \in Range(signals) : o.critical) \/ Score(signals) >= Threshold
    /\ Rank(Score(signals)) > rank

(* Mistake: an equal level is worth another revision. *)
IncidentDueAgain(signals, rank) ==
    /\ \/ \E o \in Range(signals) : o.critical
       \/ Score(signals) >= Threshold /\ Len(signals) >= MinSignals
    /\ Rank(Score(signals)) >= rank

IncidentDue(signals, rank) ==
    /\ \/ \E o \in Range(signals) : o.critical
       \/ Score(signals) >= Threshold /\ Len(signals) >= MinSignals
    /\ Rank(Score(signals)) > rank

Expired(win, now) == ~win.open \/ now - win.started > WindowLength

(* The window an observation at time now belongs to. *)
Current(win, now) == IF Expired(win, now) THEN Fresh(now) ELSE win

Add(win, o) ==
    [win EXCEPT !.signals = Newest(Append(@, o)),
                !.seen = Newest(Append(@, o.id))]

(* The window's level and revision follow the incident that is due. *)
Promote(win) ==
    IF IncidentDue(win.signals, win.rank)
    THEN [win EXCEPT !.rank = Rank(Score(win.signals)), !.revision = @ + 1]
    ELSE win

IncidentOf(e, win) ==
    [ entity |-> e, started |-> win.started, revision |-> win.revision,
      rank |-> win.rank, seen |-> Range(win.seen) ]
=============================================================================
