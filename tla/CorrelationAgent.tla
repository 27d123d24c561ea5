---------------------------- MODULE CorrelationAgent ----------------------------
(***************************************************************************)
(* The correlation agent, python/correlation_agent.py, run by              *)
(* python/agent_runtime.py.  Observations of one entity are collected in a *)
(* time window kept in Firestore; the transaction that adds one decides    *)
(* whether the window's risk level has risen and an incident is due.  The  *)
(* window remembers the incident before the runtime publishes it.          *)
(***************************************************************************)
EXTENDS CorrelationWindow

CONSTANTS
    Observation,    \* observations, a subset of ObservationType
    Id, Entity, Source, Category,
    Message,        \* messages on observed-findings
    NoMessage, NoIncident,
    Worker,         \* callbacks in flight (MAX_CONCURRENT_MESSAGES, all pods)
    MaxDeliveries,  \* max_delivery_attempts of the subscription
    MaxClock        \* bound on clock, for model checking

(* ObservedFinding; a signal is what compact_signal keeps of it. *)
ObservationType ==
    [ id       : Id,
      entity   : Entity,
      source   : Source,
      category : Category,
      weight   : Nat,
      critical : BOOLEAN ]

(* A correlated incident.  incident_id is a hash of the entity and the     *)
(* start of the window.                                                    *)
IncidentType ==
    [ entity   : Entity,
      started  : Nat,
      revision : Nat,
      rank     : Nat,
      seen     : SUBSET Id ]

ASSUME CorrelationAssumption ==
    /\ Observation \subseteq ObservationType
    /\ NoMessage \notin Message
    /\ NoIncident \notin IncidentType
    /\ MaxDeliveries \in Nat
    /\ MaxClock \in Nat

VARIABLES
    clock,      \* utc_now_dt() everywhere
    payload,    \* payload[m]: the observation message m carries
    queue,      \* queue[m]: "pending", "acked" or "dead-lettered"
    attempts,   \* attempts[m]: deliveries of m so far
    pc,         \* pc[w]: where worker w is in process()
    msg,        \* msg[w]: the message it handles
    incident,   \* incident[w]: the incident it is about to publish, if any
    window,     \* window[e]: the document of correlation_windows
    published,  \* incidents on correlated-incidents
    failures    \* history: failures[m], deliveries of m lost to a failure

queueVars  == <<payload, queue, attempts>>
workerVars == <<pc, msg, incident>>
vars == <<clock, queueVars, workerVars, window, published, failures>>

WindowType ==
    [ open     : BOOLEAN,           \* the document exists
      started  : Nat,               \* window_started_at
      signals  : Seq(Observation),
      seen     : Seq(Id),           \* seen_observation_ids
      rank     : Nat,               \* last_published_rank
      revision : Nat ]

TypeOK ==
    /\ clock \in Nat
    /\ payload \in [Message -> Observation]
    /\ queue \in [Message -> {"pending", "acked", "dead-lettered"}]
    /\ attempts \in [Message -> Nat]
    /\ pc \in [Worker -> {"idle", "received", "publishing", "acking"}]
    /\ msg \in [Worker -> Message \cup {NoMessage}]
    /\ incident \in [Worker -> IncidentType \cup {NoIncident}]
    /\ window \in [Entity -> WindowType]
    /\ published \in SUBSET IncidentType
    /\ failures \in [Message -> Nat]
    /\ \A w \in Worker :
          /\ pc[w] = "idle" <=> msg[w] = NoMessage
          /\ pc[w] = "publishing" => incident[w] # NoIncident

Init ==
    /\ clock = 0
    /\ payload \in [Message -> Observation]
    /\ queue = [m \in Message |-> "pending"]
    /\ attempts = [m \in Message |-> 0]
    /\ pc = [w \in Worker |-> "idle"]
    /\ msg = [w \in Worker |-> NoMessage]
    /\ incident = [w \in Worker |-> NoIncident]
    /\ window = [e \in Entity |-> [Fresh(0) EXCEPT !.open = FALSE]]
    /\ published = {}
    /\ failures = [m \in Message |-> 0]

-----------------------------------------------------------------------------
(* Helpers *)

ObservationOf(w) == payload[msg[w]]
EntityOf(w) == ObservationOf(w).entity

Goto(w, l) == pc' = [pc EXCEPT ![w] = l]

(* Mistake: the worker keeps the message it has given back. *)
ReleaseKeepsMessage(w) ==
    /\ pc' = [pc EXCEPT ![w] = "idle"]
    /\ incident' = [incident EXCEPT ![w] = NoIncident]
    /\ UNCHANGED msg

(* The callback returns or raises: w takes no further part. *)
Release(w) ==
    /\ pc' = [pc EXCEPT ![w] = "idle"]
    /\ msg' = [msg EXCEPT ![w] = NoMessage]
    /\ incident' = [incident EXCEPT ![w] = NoIncident]

(* An exception reaches AgentRuntime._callback: message.nack(). *)
Nack(w) == Release(w) /\ UNCHANGED queueVars

CountFailure(w) == failures' = [failures EXCEPT ![msg[w]] = @ + 1]

-----------------------------------------------------------------------------
(* Time and Pub/Sub *)

Tick ==
    /\ clock < MaxClock
    /\ clock' = clock + 1
    /\ UNCHANGED <<queueVars, workerVars, window, published, failures>>

(* At least once: a pending message may reach a second worker while the    *)
(* first still has it.                                                     *)
Deliver(w, m) ==
    /\ pc[w] = "idle"
    /\ queue[m] = "pending"
    /\ attempts[m] < MaxDeliveries
    /\ attempts' = [attempts EXCEPT ![m] = @ + 1]
    /\ msg' = [msg EXCEPT ![w] = m]
    /\ Goto(w, "received")
    /\ UNCHANGED <<clock, payload, queue, incident, window, published, failures>>

DeadLetter(m) ==
    /\ queue[m] = "pending"
    /\ attempts[m] = MaxDeliveries
    /\ \A w \in Worker : msg[w] # m
    /\ queue' = [queue EXCEPT ![m] = "dead-lettered"]
    /\ UNCHANGED <<clock, payload, attempts, workerVars, window, published,
                   failures>>

-----------------------------------------------------------------------------
(* update_correlation_window *)

CurrentOf(w) == Current(window[EntityOf(w)], clock)
AddedTo(w) == Add(CurrentOf(w), ObservationOf(w))
Known(w) == ObservationOf(w).id \in Range(CurrentOf(w).seen)

(* Mistake: an observation the window has seen is added again. *)
CorrelateAny(w) ==
    /\ pc[w] = "received"
    /\ window' = [window EXCEPT ![EntityOf(w)] = Promote(AddedTo(w))]
    /\ IF IncidentDue(AddedTo(w).signals, AddedTo(w).rank)
       THEN /\ incident' = [incident EXCEPT ![w] =
                               IncidentOf(EntityOf(w), Promote(AddedTo(w)))]
            /\ Goto(w, "publishing")
       ELSE Goto(w, "acking") /\ UNCHANGED incident
    /\ UNCHANGED <<clock, queueVars, msg, published, failures>>

(* The observation is new to its window. *)
Correlate(w) ==
    /\ pc[w] = "received"
    /\ ~Known(w)
    /\ window' = [window EXCEPT ![EntityOf(w)] = Promote(AddedTo(w))]
    /\ IF IncidentDue(AddedTo(w).signals, AddedTo(w).rank)
       THEN /\ incident' = [incident EXCEPT ![w] =
                               IncidentOf(EntityOf(w), Promote(AddedTo(w)))]
            /\ Goto(w, "publishing")
       ELSE Goto(w, "acking") /\ UNCHANGED incident
    /\ UNCHANGED <<clock, queueVars, msg, published, failures>>

(* The window has seen the observation: nothing is written or published.   *)
CorrelateKnown(w) ==
    /\ pc[w] = "received"
    /\ Known(w)
    /\ Goto(w, "acking")
    /\ UNCHANGED <<clock, queueVars, msg, incident, window, published, failures>>

(* The transaction raises; its commit may have reached Firestore. *)
CorrelateError(w) ==
    /\ pc[w] = "received"
    /\ \/ UNCHANGED window
       \/ /\ ~Known(w)
          /\ window' = [window EXCEPT ![EntityOf(w)] = Promote(AddedTo(w))]
    /\ Nack(w)
    /\ CountFailure(w)
    /\ UNCHANGED <<clock, published>>

-----------------------------------------------------------------------------
(* AgentRuntime._callback: publish the incident, then acknowledge *)

Publish(w) ==
    /\ pc[w] = "publishing"
    /\ published' = published \cup {incident[w]}
    /\ Goto(w, "acking")
    /\ UNCHANGED <<clock, queueVars, msg, incident, window, failures>>

(* Mistake: a failed publish is swallowed and the message acknowledged. *)
PublishErrorSwallowed(w) ==
    /\ pc[w] = "publishing"
    /\ Goto(w, "acking")
    /\ UNCHANGED <<clock, queueVars, msg, incident, window, published, failures>>

PublishError(w) ==
    /\ pc[w] = "publishing"
    /\ \/ published' = published \cup {incident[w]}
       \/ UNCHANGED published
    /\ Nack(w)
    /\ CountFailure(w)
    /\ UNCHANGED <<clock, window>>

Ack(w) ==
    /\ pc[w] = "acking"
    /\ queue' = [queue EXCEPT ![msg[w]] = IF @ = "pending" THEN "acked" ELSE @]
    /\ Release(w)
    /\ UNCHANGED <<clock, payload, attempts, window, published, failures>>

(* The process dies at any point of the callback. *)
Crash(w) ==
    /\ pc[w] # "idle"
    /\ Nack(w)
    /\ CountFailure(w)
    /\ UNCHANGED <<clock, window, published>>

-----------------------------------------------------------------------------
(* What the thread of a callback does. *)
Work(w) ==
    \/ Correlate(w) \/ CorrelateKnown(w) \/ CorrelateError(w)
    \/ Publish(w) \/ PublishError(w) \/ Ack(w)

Next ==
    \/ Tick
    \/ \E m \in Message : DeadLetter(m)
    \/ \E w \in Worker : Work(w) \/ Crash(w) \/ \E m \in Message : Deliver(w, m)

Spec == Init /\ [][Next]_vars

-----------------------------------------------------------------------------
(* Properties *)

(* 325-347: the two lists of a window stay in step through appends and     *)
(* truncations, and within a window no observation contributes twice to    *)
(* the score, however often it is delivered.                               *)
SignalsAreSeen ==
    \A e \in Entity :
        /\ window[e].seen = [i \in DOMAIN window[e].signals |-> window[e].signals[i].id]
        /\ \A i, j \in DOMAIN window[e].seen :
              window[e].seen[i] = window[e].seen[j] => i = j

(* 454-479: incident id and revision name one incident (the IR analyst     *)
(* derives the analysis id from them), and a later revision has a higher   *)
(* risk level, although the score of a window can fall as old signals go.  *)
RevisionNamesIncident ==
    \A x, y \in published :
        x.entity = y.entity /\ x.started = y.started =>
            /\ x.revision = y.revision => x = y
            /\ x.revision < y.revision => x.rank < y.rank

(* The messages about entity e, all of them handled. *)
Settled(e) ==
    /\ \A m \in Message : payload[m].entity = e => queue[m] # "pending"
    /\ \A w \in Worker : pc[w] # "idle" => EntityOf(w) # e

(* The window takes an incident for published when it commits, before the  *)
(* runtime publishes it; a retry then finds its observation already seen.  *)
(* So each revision of a settled window is on the topic unless a delivery  *)
(* met a failure.                                                          *)
LostOnlyByFailure ==
    \A e \in Entity :
        /\ Settled(e)
        /\ \A m \in Message : payload[m].entity = e => failures[m] = 0
        => \A k \in 1 .. window[e].revision : \E x \in published :
              /\ x.entity = e
              /\ x.started = window[e].started
              /\ x.revision = k

(* docs/architecture/plan-mode-summary.md 884 has the correlation agent    *)
(* and its Firestore state keep duplicate signals from the analyst: an     *)
(* observation should count in one incident of its entity, not in two.     *)
ObservationCountedOnce ==
    \A x, y \in published :
        x.entity = y.entity /\ x.started # y.started => x.seen \cap y.seen = {}
=============================================================================
