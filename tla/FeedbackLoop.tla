------------------------------ MODULE FeedbackLoop ------------------------------
(***************************************************************************)
(* The pipeline closed on itself.  The MCP server audits each restart to   *)
(* raw-security-events, so that "the live Observer -> Correlation -> IR    *)
(* pipeline receives them" (terraform/10-mcp-server-iam.tf): an audit is a *)
(* signal, signals make incidents, and an incident may make a restart.     *)
(* This module puts together the aggregator and the observer (Findings),   *)
(* the correlation window (CorrelationWindow), the decisions that permit a *)
(* restart, and the calls of the remediation agent with their audit        *)
(* (McpServer).                                                            *)
(*                                                                         *)
(* Every hop delivers at least once.  What the analyst and the decision    *)
(* center make of an incident is free, and free again each time the        *)
(* incident is delivered; it is the identity of the decision that keeps    *)
(* its executions together.  Queues are sets, delivered in any order; a    *)
(* window may expire at any moment.                                        *)
(***************************************************************************)
EXTENDS Findings, CorrelationWindow

CONSTANTS
    Seed,           \* observations of what happens outside the loop
    Warning,        \* observations the log sink makes of a restart's effects
    Target,         \* the deployment's namespace and name, as asset fields
    Entity,         \* of the seeds, the warnings and the deployment
    MaxMishaps,     \* bound on repeats, retries, reversals, renewals and
                    \* warnings together
    MaxCalls        \* bound on calls

AuditOutcome == {"success", "rejected", "error"}

(* audit_severity of a restart. *)
AuditLevel(outcome) == IF outcome = "success" THEN "MEDIUM" ELSE "HIGH"

(* The audit event of call n, as finding and observation. *)
AuditItem(n, outcome) ==
    Item(<<"call", n>>, "restart_deployment", AuditLevel(outcome), TRUE, Target)
AuditSignal(n, outcome) == Observed(McpAudit(AuditItem(n, outcome)), <<"call", n>>)

ASSUME LoopAssumption ==
    /\ IsFiniteSet(Seed) /\ IsFiniteSet(Entity)
    /\ \A o \in Seed \cup Warning : o.entity \in Entity /\ o.critical \in BOOLEAN
    /\ \A n \in 0 .. MaxCalls, r \in AuditOutcome : AuditSignal(n, r).entity \in Entity
    /\ MinSignals >= 2
    /\ MaxMishaps \in Nat /\ MaxCalls \in Nat

(* What the observer makes of a critical finding weighs as much at least,  *)
(* and the threshold of an incident is not below the level "MEDIUM".       *)
ASSUME WeightAssumption ==
    /\ \A o \in Seed \cup Warning :
          /\ o.weight \in Nat
          /\ o.critical => o.weight >= SeverityWeight["CRITICAL"]
    /\ Threshold \in Nat /\ Threshold >= 25

VARIABLES
    transit,    \* observations on their way to the correlation agent
    delivered,  \* observations it has had
    window,     \* window[e]: the document of correlation_windows
    permits,    \* <<n, v>>: the verdicts that have permitted a restart for
                \* incident n, the policy's (v = 0) and a reviewer's (v = 1)
    orders,     \* decisions to restart that the ledger has not completed;
                \* <<n, 2>> and on are of requests approved once more
    calls,      \* calls of the MCP server so far
    incidents,  \* incidents published so far
    active,     \* windows that have published, on the strength of their number
    hasty,      \* windows that have published sooner, for a critical signal
    retries,    \* calls that were made again under the same decision
    repeats,    \* observations counted again in a later window
    reversals,  \* incidents permitted by the policy and by a reviewer
    renewals,   \* permits of requests that were made and approved once more
    warnings    \* observations of what restarts made the cluster log

historyVars == <<incidents, active, hasty, retries, repeats, reversals, renewals, warnings>>
decisionVars == <<permits, orders, reversals, renewals>>
vars == <<transit, delivered, window, permits, orders, calls, historyVars>>

Verdict == {0, 1}

(* What else than one call for each verdict on an incident feeds the loop. *)
Mishaps == retries + repeats + reversals + renewals + warnings

Closed == [Fresh(0) EXCEPT !.open = FALSE]

TypeOK ==
    /\ \A e \in Entity : window[e].open \in BOOLEAN /\ window[e].revision \in Nat
    /\ permits \subseteq (1 .. incidents) \X Verdict
    /\ \A x \in orders : IF x[2] \in Verdict THEN x \in permits
                        ELSE <<x[1], 1>> \in permits /\ x[2] \in 2 .. renewals + 1
    /\ calls \in 0 .. MaxCalls
    /\ incidents \in Nat /\ active \in Nat /\ hasty \in Nat
    /\ retries \in Nat /\ repeats \in Nat /\ reversals \in Nat
    /\ renewals \in Nat /\ warnings \in Nat /\ Mishaps <= MaxMishaps

Init ==
    /\ transit = Seed /\ delivered = {}
    /\ window = [e \in Entity |-> Closed]
    /\ permits = {} /\ orders = {}
    /\ calls = 0 /\ incidents = 0 /\ active = 0 /\ hasty = 0
    /\ retries = 0 /\ repeats = 0 /\ reversals = 0 /\ renewals = 0 /\ warnings = 0

-----------------------------------------------------------------------------
(* The correlation agent: an observation enters the window of its entity   *)

CurrentOf(e) == IF window[e].open THEN window[e] ELSE Fresh(0)
Known(o) == o.id \in Range(CurrentOf(o.entity).seen)

Enter(o) ==
    \E added \in {Add(CurrentOf(o.entity), o)} :
        \/ /\ IncidentDue(added.signals, added.rank)
           /\ incidents' = incidents + 1
           /\ window' = [window EXCEPT ![o.entity] = Promote(added)]
           /\ CASE added.revision > 0 ->
                       UNCHANGED <<active, hasty>>
                [] added.revision = 0 /\ Len(added.signals) >= MinSignals ->
                       active' = active + 1 /\ UNCHANGED hasty
                [] OTHER ->
                       hasty' = hasty + 1 /\ UNCHANGED active
        \/ /\ ~IncidentDue(added.signals, added.rank)
           /\ window' = [window EXCEPT ![o.entity] = added]
           /\ UNCHANGED <<incidents, active, hasty>>

Correlate(o) ==
    /\ o \in transit
    /\ transit' = transit \ {o}
    /\ delivered' = delivered \cup {o}
    /\ Enter(o)
    /\ UNCHANGED <<decisionVars, calls, retries, repeats, warnings>>

(* A redelivery: the window has seen it, or has been replaced meanwhile.   *)
Redeliver(o) ==
    /\ o \in delivered /\ ~Known(o)
    /\ Mishaps < MaxMishaps
    /\ repeats' = repeats + 1
    /\ Enter(o)
    /\ UNCHANGED <<transit, delivered, decisionVars, calls, retries, warnings>>

(* More than CORRELATION_WINDOW_MINUTES pass. *)
WindowExpires(e) ==
    /\ window[e].open
    /\ window' = [window EXCEPT ![e] = Closed]
    /\ UNCHANGED <<transit, delivered, permits, orders, calls, historyVars>>

(* The log sink: warnings of the deployment, or of the agents themselves,  *)
(* that a call has brought about.                                          *)
LogWarning(o) ==
    /\ o \in Warning \ (transit \cup delivered)
    /\ calls > 0
    /\ Mishaps < MaxMishaps
    /\ warnings' = warnings + 1
    /\ transit' = transit \cup {o}
    /\ UNCHANGED <<delivered, window, decisionVars, calls, incidents, active, hasty,
                   retries, repeats>>

-----------------------------------------------------------------------------
(* The analyst and the decision center.  An incident that is delivered     *)
(* again is analysed again, under the same analysis id; the id of the      *)
(* decision follows from that and from the verdict, or from the approval.  *)

(* Mistake: a decision has an id of its own each time it is made. *)
PermitAnew(n, v) ==
    /\ n \in 1 .. incidents /\ v \in Verdict
    /\ permits' = permits \cup {<<n, v>>}
    /\ orders' = orders \cup {<<n, v>>}
    /\ IF <<n, 1 - v>> \in permits /\ <<n, v>> \notin permits
       THEN Mishaps < MaxMishaps /\ reversals' = reversals + 1
       ELSE UNCHANGED reversals
    /\ UNCHANGED <<transit, delivered, window, calls, incidents, active, hasty, retries,
                   repeats, renewals, warnings>>

(* The policy permits the restart, or a reviewer does whom it has asked:   *)
(* whatever the window is about, the analyst may name the deployment.      *)
Permit(n, v) ==
    /\ n \in 1 .. incidents /\ v \in Verdict
    /\ <<n, v>> \notin permits
    /\ permits' = permits \cup {<<n, v>>}
    /\ orders' = orders \cup {<<n, v>>}
    /\ IF <<n, 1 - v>> \in permits
       THEN Mishaps < MaxMishaps /\ reversals' = reversals + 1
       ELSE UNCHANGED reversals
    /\ UNCHANGED <<transit, delivered, window, calls, incidents, active, hasty, retries,
                   repeats, renewals, warnings>>

(* The approved request has expired and Firestore has deleted it; the      *)
(* incident or its analysis comes again, and makes a request that is       *)
(* approved under another approval id.                                     *)
PermitRenewed(n) ==
    /\ <<n, 1>> \in permits
    /\ Mishaps < MaxMishaps
    /\ renewals' = renewals + 1
    /\ orders' = orders \cup {<<n, renewals + 2>>}
    /\ UNCHANGED <<transit, delivered, window, permits, calls, incidents, active, hasty,
                   retries, repeats, reversals, warnings>>

-----------------------------------------------------------------------------
(* A call of the remediation agent, and its audit, which may be lost *)

Call(d) ==
    /\ d \in orders
    /\ calls < MaxCalls
    /\ calls' = calls + 1
    /\ \/ UNCHANGED transit
       \/ \E r \in AuditOutcome : transit' = transit \cup {AuditSignal(calls, r)}
    /\ UNCHANGED <<delivered, window, permits, incidents, active, hasty, repeats,
                   reversals, renewals, warnings>>

(* The last call of a decision: the ledger has completed it, or nobody     *)
(* asks again.                                                             *)
CallEnds(d) ==
    /\ Call(d)
    /\ orders' = orders \ {d}
    /\ UNCHANGED retries

(* Mistake: the attempt is part of the decision's id. *)
CallFailsAnew(d) ==
    /\ Call(d)
    /\ Mishaps < MaxMishaps
    /\ retries' = retries + 1
    /\ orders' = (orders \ {d}) \cup {<<d[1], d[2] + 1>>}

(* A call that will be made again: it fails, its success is not heard of   *)
(* or not recorded, or the record is overwritten by a worker that has      *)
(* outlived its lease.                                                     *)
CallFails(d) ==
    /\ Call(d)
    /\ Mishaps < MaxMishaps
    /\ retries' = retries + 1
    /\ UNCHANGED orders

-----------------------------------------------------------------------------
Next ==
    \/ \E o \in transit : Correlate(o)
    \/ \E o \in delivered : Redeliver(o)
    \/ \E e \in Entity : WindowExpires(e)
    \/ \E o \in Warning : LogWarning(o)
    \/ \E n \in 1 .. incidents : PermitRenewed(n) \/ \E v \in Verdict : Permit(n, v)
    \/ \E d \in orders : CallEnds(d) \/ CallFails(d)

Spec == Init /\ [][Next]_vars

-----------------------------------------------------------------------------
(* Properties *)

(* update_correlation_window 433-479 with audit_severity 140-156: each     *)
(* window that raises an incident is paid for by something else than the   *)
(* audit of an incident's first permit: a signal from outside, a warning,  *)
(* an observation counted twice, a call made again, or a second decision   *)
(* for an incident.  One audit for each incident does not keep the loop    *)
(* going, however audits fall into windows; a second one for each would.   *)
ActiveWindowsArePaidFor ==
    /\ active <= Cardinality(Seed) + warnings + repeats + retries + reversals + renewals
    /\ hasty <= Cardinality({o \in Seed : o.critical}) + warnings + repeats

(* stable_id of governance_agent 214-219 and approval_agent 157-162, the   *)
(* ledger's key (remediation_agent 191-194) and the levels of a window     *)
(* (correlation_agent 427-479): a window asks three times for a restart,   *)
(* and each time it is granted twice at most - however often the incident  *)
(* and its analysis are delivered - but for requests that were renewed;    *)
(* and each grant is one call, but for those that had to be made again.    *)
RestartsAreBounded ==
    /\ calls <= 3 * (active + hasty) + reversals + renewals + retries
    /\ reversals <= 3 * (active + hasty)
=============================================================================
