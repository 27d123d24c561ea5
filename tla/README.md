# A specification of the security control plane

This directory holds TLA+ models of the programs under `src/`: a chain of
agents that turns security events of a GKE cluster into findings, incidents,
analyses, governance decisions, human approvals and, in the end, restarts of a
deployment, whose audit events enter the chain again. TLC checks small
instances of the models; TLAPS proves theorems about eight of them for every
value of their constants.

Contents

1. The system
2. Which module models what
3. Conventions shared by the agent models
4. The components in detail: correspondence with the code, properties, runs
5. Bounds, and why they are enough
6. Fairness
7. What is proved, and how
8. Where the code and its documents differ
9. What is not modelled
10. Plan

## 1. The system

    scanners, Falco, SCC, Cloud Logging, MCP audit  <-----------------------------+
        |  raw-security-events (Pub/Sub)   |  POST /ingest/<source>               |
        v                                  v                                      |
    event aggregator ---- security-findings ----> observer agent                  |
                                                     | observed-findings          |
                                                     v                            |
                             Firestore <------> correlation agent                 |
                        correlation_windows          | correlated-incidents       |
                                                     v                            |
                                              IR analyst agent (Gemini)           |
                                                     | analyzed-incidents         |
                                                     v                            |
             OPA sidecar <--- HTTP ---------- governance agent ----> governance-audit
                             Firestore <----------/  |   \                        |
                        approval_requests            |    \ approval-requests     |
                                                     |     v                      |
              KMS key <--- verify --- approval agent <--- reviewer (signs)        |
                                          |          |                            |
                                          v          v                            |
                                      governance-decisions                        |
                                                     |                            |
                                                     v                            |
                             Firestore <------> remediation agent ---> MCP gateway --mTLS-->
                       remediation_executions        |                 MCP server -> kubectl
                                                     | remediation-results
                                                     v
                                              reporting agent (Slack, Jira)

Seven of the agents run in the same process skeleton, `python/agent_runtime.py`:
a streaming Pub/Sub subscription whose callbacks run `process()`, publish each
event it returns, and acknowledge the message; an exception anywhere means
`nack` and redelivery, up to the subscription's `max_delivery_attempts` (six
for the remediation agent, eight for the correlation agent and the observer),
then the dead-letter topic. No agent remembers anything between messages except
in Firestore. The aggregator and the MCP server are Flask services of their own.

| component | state it keeps | operations | interacts with |
|---|---|---|---|
| event aggregator `aggregator.py` | the stream of its subscription thread, `subscriber_started` | callback, `/ingest`, normalisation of six sources and a fallback, publication, readiness | Pub/Sub in and out, scanner publisher, Falco |
| scanner publisher `scanner_publisher.py` | none (one run per pod of the scan's Job) | wait for the scan, load, batch, POST with retries | aggregator over HTTP |
| observer `observer_agent.py` | none | entity key, weight, signal type | Pub/Sub |
| correlation agent `correlation_agent.py` | `correlation_windows/<entity>`: signals, seen ids, published level, revision | one transaction per observation; an incident when the level rises | Firestore, Pub/Sub |
| IR analyst `ir_analyst_agent.py` | none | one model call per incident | Vertex AI, Pub/Sub |
| governance agent `governance_agent.py` | `approval_requests/<id>` | OPA evaluation, decision, approval request | OPA, Firestore, three topics |
| remediation policy `remediation.rego` | none | decision and reasons for an input | governance agent |
| approval agent `approval_agent.py` | resolution in `approval_requests/<id>` | window and signature check, resolution transaction | KMS, Firestore, two topics |
| remediation agent `remediation_agent.py` | `remediation_executions/<decision>`: status, lease, result | validation, claim, gateway call, completion or failure | Firestore, MCP gateway, Pub/Sub |
| MCP server `mcp_server.py` | audit events on their way to two topics | `get_logs`, `get_pods`, `restart_deployment` | nginx gateway, kubectl, Pub/Sub |
| reporting agent `reporting_agent.py` | none | Slack message, Jira issue, report | Slack, Jira, Pub/Sub |
| agent runtime `agent_runtime.py` | counters, readiness, stop flag, streaming future | subscribe, callback, publish, signal, shutdown | every agent |

**What is hard here.** Every hop is at-least-once, so each stage meets
redelivered, duplicated and reordered messages, and several callbacks of
several pods work at the same time. Each stage has more than one effect
(a Firestore transaction, one to three publications, an HTTP call that restarts
something, a ticket, an acknowledgement) and may fail or die between any two of
them, or lose the answer of one that took effect. Documents expire: permits,
approval requests, leases and correlation windows are compared with a clock
that is read at one time and used at a later one. Background threads end, or
are left to end, without anybody waiting. And the pipeline is closed: what it
does is an observation for it. The hazards are listed one by one, with their
line, in `PROJECT.json`.

**What makes the components correct.** In short: what is acknowledged has been
published in full, under a stable identity where there is one (aggregator); a
revision names one incident, and levels only rise (correlation); exactly one
decision for every input (policy); a request that a reviewer can still answer
is the stored one, and evidence precedes decisions (governance); one approval
per request, and no permit that outlives what authorised it (approval); one
worker at a time executes a decision, redelivery alone never restarts twice,
and reports tell the truth (remediation); a refused call never restarts
anything and an accepted one has, and the audit says so (MCP server); no
channel stays silent without a record of it (reporting); a message is settled
only when its outputs are out (runtime); and what the loop does to itself is bounded (all of
them together).

## 2. Which module models what

| module | models | role |
|---|---|---|
| `Findings` | `python/aggregator.py`: source inference, the normalisers, the identity of a finding; `python/observer_agent.py`: entity key and weight | pure operators |
| `EventAggregator`, `EventAggregatorMC` | `python/aggregator.py`, `python/scanner_publisher.py` | state machine, TLC |
| `EventAggregatorProofs` | normalisers, publisher and aggregator | theorems |
| `CorrelationWindow` | the arithmetic of `python/correlation_agent.py` | pure operators |
| `CorrelationAgent`, `CorrelationAgentMC` | `python/correlation_agent.py` | state machine, TLC |
| `CorrelationAgentProofs` | | theorems |
| `RemediationPolicy` | `policy/governance/remediation.rego` | pure operators |
| `PolicyRevisions`, `RemediationPolicyMC` | the policy asked again as an incident gathers support; inputs around every threshold | state machine, TLC |
| `GovernanceAgent`, `GovernanceAgentMC` | `python/governance_agent.py` | state machine, TLC |
| `GovernanceProofs` | policy, its revisions, and the agent | theorems |
| `ApprovalAgent`, `ApprovalAgentMC` | `python/approval_agent.py`, the envelope of `scripts/11-review-approval.sh` | state machine, TLC |
| `ApprovalAgentProofs` | | theorems |
| `RemediationAgent` | `python/remediation_agent.py` | state machine |
| `RemediationAgentMC` | decisions as they are published | TLC |
| `RemediationAgentProofs` | | theorems |
| `RestartCall` | what the remediation agent relies on when it calls | abstract specification |
| `McpServer`, `McpServerMC` | `python/mcp_server.py` behind nginx; implements `RestartCall` | state machine, TLC |
| `McpServerProofs` | | theorems, refinement |
| `AtLeastOnce` | what the runtime promises of one message | abstract specification |
| `AgentRuntime` | `python/agent_runtime.py`; implements `AtLeastOnce` | state machine |
| `ReportingAgent`, `ReportingAgentMC` | `python/reporting_agent.py` as the handler of `AgentRuntime` | composition, TLC |
| `ReportingAgentProofs` | runtime and reporting agent | theorems, refinements |
| `FeedbackLoop`, `FeedbackLoopMC` | aggregator, observer, correlation, remediation and audit as one loop, over `Findings` and `CorrelationWindow` | composition, TLC |
| `FeedbackLoopProofs` | | theorems |

## 3. Conventions shared by the agent models

* A *worker* `w` (a *callback* `c`, a *handler* `h`) is one callback in flight,
  of any pod. `pc[w]` is the point of `process()` and `_callback` it has
  reached, `msg[w]` its message. One action is the code between two points at
  which another worker, the clock or a crash can intervene: a Firestore
  transaction, an HTTP call, a publication, an acknowledgement. Code in between
  touches only the worker's own data.
* `queue[m]` is what Pub/Sub knows of message `m`; `attempts[m]` counts its
  deliveries. `Deliver` may hand a pending message to a second worker while the
  first still has it. `DeadLetter` follows the last attempt. An
  acknowledgement that is lost behaves like a crash just before it.
* Every external call has an action for success and one for an error, and the
  error comes with and without the effect. `Crash` ends a callback anywhere.
* `clock` is a bounded counter and `Tick` may happen at any time. It stands for
  `utc_now()` in every process; clock skew is modelled where the code allows
  for it (approval envelopes).
* Identifiers the code derives by hashing are the record of what is hashed.
  Checks that look at one field only are a Boolean of the message; checks that
  relate fields, or a field to the clock or to Firestore, are spelled out.
* `failures`, `faults`, `blamed`, `repeats` and `retries` are history
  variables: they record what has gone wrong, or has been done again,
  for the properties to say under which circumstances something holds. Only
  bounds read them.
* Definitions marked "Mistake" are used by no specification. Each is a
  plausible error in the operation that follows it, and the property paired
  with it in `PROJECT.json` fails when it takes the operation's place.

## 4. The components in detail

The order is that of the pipeline; the last part closes it.

### Event aggregator, scanner publisher and observer

`Findings` has the pure part. `InferSource` and `Normalize` translate the
choice of a normaliser and what each of them yields: which items of a payload
become findings (`Kept` cuts at `MAX_FINDINGS_PER_EVENT`), of which severity,
with which asset, and whether their identity is stable (an id of the scanner's)
or drawn at random. `EntityKey` and `Weight` are the observer's. Names are
sequences of the parts between dashes, because the code derives a deployment
from a pod's name by cutting parts off.

In `EventAggregator` a handler (a Pub/Sub callback or a request thread) takes an
event or a batch, which is another attempt at it (`attempt[h]`, drawn into the
random ids), publishes its findings, some of them or none, and acknowledges or
answers. Every replica has a subscription thread
(`Subscribe`, `MarkStarted`, `StreamEnds`) that nothing starts again, a stream
that may fail, and a readiness probe. `Scan` is the publisher: it waits for the
scan's completion file, loads the reports, splits Prowler's into batches, and
posts each up to `MaxRetries` times, giving up a request that takes too long
while its handler goes on. `ScanAgain` is the Job's second pod. The MCP
server's audits and the events of SCC and of the log sink come without a source
or under a name no normaliser goes by; Falco's `http_output` posts once, and its null
image gives the entity `image:None`.

Run `ingestion`:

* `SettledIsPublished`: an acknowledged event, or a report whose upload
  succeeded, is on the topic with everything it reports up to the limit -
  through partial failures, retries, splits, failed streams and restarts.
* `CopiesOnlyOfUnnamed`: an item is on the topic under two identities only if
  it has no stable one, and no more often than it was tried.
* `OwnSource`: a finding bears the name of the system it came from, whichever
  way it came in.
* `CopiesShareEntity`: copies of one item meet in one entity, unless the item
  names none. A namespace by itself is not one: such a finding of Falco's has
  an entity drawn from its identity, and its copies do not meet.
* `DeafPodIsTakenOut`: a replica that lost its stream for good leaves the
  Service, or is started again. `UploadEnds`: an upload succeeds or fails.

### Correlation agent

One action is the whole transaction `update_correlation_window`: expiry,
deduplication, append and truncation, score, level, revision, incident.
The arithmetic is in `CorrelationWindow`, which the feedback loop uses too;
`Score` and `Rank` are the code's, with its weights. Text, evidence and labels
of a signal are left out.

Run `correlation`:

* `SignalsAreSeen`: signals and seen ids, truncated separately, stay in step,
  and no observation is in a window twice.
* `RevisionNamesIncident`: `(incident id, revision)` names one incident, and a
  later revision has a higher level although truncation can lower the score.
* `LostOnlyByFailure`: the window takes an incident for published before it is;
  a revision is missing on the topic only if a delivery failed.

### Remediation policy

`FiringBodies(input)` is the set of values the bodies of the complete rule
`decision` produce (an evaluation error in OPA if there are two, the default if
there are none). `PolicyRevisions` asks it again and again while an incident
gains confidence, signals, sources and evidence one unit at a time. The run
`policy` starts from every combination of action, target, severity, risk and
mode, without support, and lets the support grow across each threshold:

* `DecisionUnique`: exactly one body fires.
* `ApprovalExplained`: a request for approval has a reason. The rules that
  list reasons are written apart from the automatic path, whose refusals they
  have to cover.
* `NeverStricter`: more support never turns a permit into a request for
  approval, or a request into a denial.

What an automatic PERMIT implies needs no behaviour and is proved (section 7).

### Governance agent

The verdict of OPA is part of the message: `RemediationPolicy` is the function
behind it. A message stands for one analysis; the IR analyst may publish two
different ones under one `analysis_id`, so two contents may meet under one
request id. The request hash covers content and expiry, and the expiry is taken
from the clock at each attempt.

Run `governance`:

* `LiveRequestIsStored`: a request that is on the topic and has not expired is
  the one in Firestore, whatever retries and other analyses do.
* `EvidenceFirst`: a decision follows its audit event, and both follow the
  request when approval is required.
* `ResolvedIsNotReopened`: a retry never reopens a request a reviewer has
  answered.

### Approval agent

`document[r]` is the request in `approval_requests`, written by the governance
agent (`CreateRequest`), deleted by Firestore's TTL (`ExpireDocument`), and
written again under the same id with another expiry when the analysis comes
back. An envelope carries the hash of the request it answers, here the expiry
that hash covers (`binding`). `ReadRequest` is apart from the transaction:
`resolve_approval` checks hash and expiry on a document read outside it, and
the transaction checks the status only.

Run `approval`:

* `LiveDecisionsAgree`: two unexpired decisions published for one request are
  the same decision.
* `DecisionIsReviewed`: a published decision is what a verified envelope for a
  real request said, outlives neither, and follows its audit event.
* `StaleResolutionHasExpired`: the check outside the transaction may be stale,
  and a late worker may resolve a newer request of the same id; its decision
  has expired by then.
* `LostOnlyByExpiry`: when a stored resolution never reaches the topic - its
  envelope came back expired, or failed at every delivery. This is so of
  reviewers whose clocks are ahead by `MAX_CLOCK_SKEW_SECONDS` at most: an
  envelope from further ahead is refused until its time comes, and those
  refusals can use up its deliveries without a failure.

### Remediation agent

`ledger[d]` is the document of `remediation_executions`; its writes merge, so
`SetExecuting` and `SetFailed` keep a stored result. `ReadTime` is apart from
the claim because `claim_execution` reads `now` before its transaction. The
gateway call has four outcomes: accepted, refused (4xx), unavailable, and
timed out, after which `LateRestart` may still happen. `restarts` counts what
happened to the deployment; the code does not know it.

Run `remediation` (an automatic permit under two expiries, and four decisions
that must not execute: another policy's, one without its human, a denial, a
request for approval):

* `MutualExclusion`: two workers execute one decision at once only after some
  attempt outlived its lease.
* `RedeliveryAloneIsSafe`: without an overrun, a lost response, a ledger error
  after the call, or a crash during the attempt, there is one restart at most.
* `RestartAuthorized`: what restarts a deployment carries a PERMIT, under the
  local policy, complete with its human where one is asked for.
* `ReportIsTruthful`: "executed" is never reported of a deployment that was not
  restarted.
* `ReportLostOnlyByExpiry`: an executed decision ends without "executed" on
  `remediation-results` only if a publication failed and the decision expired -
  expiry is validated before the ledger is read.
* `CompletedIsFinal`: a stored outcome of a decision without faults stays.

### MCP server

A request is its tool and the checks it would fail. It passes nginx's client
certificate and the server's gates in the order of the code, then kubectl.
Three clocks run at once: kubectl is stopped after 15 seconds, nginx and the
agent give up after 20. Each may expire when the API server has accepted the
patch already, which `ApplyPatch` does late. The audit event goes to two topics
by a daemon thread; a failed publication is printed and forgotten, and a crash
takes the thread along.

`RestartCall` is what the remediation agent assumes of a call: at most one
restart, only if every gate is passed; accepted means restarted, refused means
never; of a failed call nothing is known, now or later.

Run `mcp`:

* `ImplementsRestartCall`: the server behind nginx implements `RestartCall`
  under the mapping at the end of the module.
* `EvidenceLostOnlyByFailure`: a restart that has happened is on both audit
  topics or on its way, unless a publish failure or a crash hit it
  (`docs/concepts/mcp-security.md:98`: "Every important action should leave
  evidence").
* `AuditTellsTheTruth`: what the audit says of a call agrees with what was done
  and with what its caller was told, in whichever order they finish.

### Agent runtime and reporting agent

The main thread takes the steps of `run()` one by one, and `Signal` may come
between any two of them. `stream` is the streaming pull; the streaming future
is unset before `AssignFuture`, which is where a SIGTERM is lost; `subscribe()`
may raise (`SubscribeFails`), and `run()` then leaves through its `finally`
clause, as it does after a broken stream. Callbacks
publish their outputs one at a time. `Kill` and `Exit` start the pod again.
`AtLeastOnce` is the promise: outputs of a message appear in order, and a
message is settled as acknowledged only when all of them have appeared.

`ReportingAgent` puts its handler where the runtime has `Process`: Slack, then
Jira, each sent, failed, disabled or misconfigured, then the report. A failure
of either is swallowed and recorded. Both integrations are off by default and
on in the run.

Run `runtime`, over the composition:

* `KeepsPromise`: it implements `AtLeastOnce` (mapping by name of `status`
  and `emitted`), also while the publisher is stopped under running
  callbacks.
* `StopsOnSignal`: a process asked to stop in time stops, or is killed first.
* `SilenceIsOnRecord`: of an acknowledged result each channel in use has a
  message, or a published report says that it failed; and no report claims a
  message its channel never had.
* `NotifiedOnceADelivery`: a channel hears of a result as often as it was
  delivered, at most. (It may hear twice: neither call is idempotent.)

### The closed pipeline

`terraform/10-mcp-server-iam.tf:1-4` feeds the MCP server's audits back into
`raw-security-events` on purpose: a restart is an observation of the deployment
it restarted, which may raise an incident, which may restart it again.
`FeedbackLoop` composes `Findings` (normaliser of audits, entity, weight),
`CorrelationWindow` (the very arithmetic of the correlation agent), the
decisions on an incident, and the calls of the remediation agent with their
audits. Windows may expire at any moment.

Every hop from incident to call is at-least-once, and what the analyst, OPA and
the reviewer make of an incident may differ from one delivery to the next. What
keeps repeated decisions together is their identity, and the model has as many
identities as the code: an automatic PERMIT is one for each incident
(`governance_agent.py:214-219` hashes analysis, policy file and verdict), a
reviewer's is another (`approval_agent.py:157-162` hashes the approval), and
once the request behind it has expired, has been deleted and is made again, the
next approval is a further one. `permits` holds the pairs of incident and
verdict that have come about, `orders` the decisions that the execution ledger,
keyed by decision, has not completed; `Permit` may come once for each pair
(later ones find the ledger completed, or the order still there; one that finds
a failed entry calls again, which is a retry) and
`PermitRenewed` any number of times. A call completes its order (`CallEnds`) or
leaves it to be called again (`CallFails`). A restart may also make the cluster
log warnings, which the log sink (`terraform/15-logging-sink.tf`) sends into the
same topic (`LogWarning`).

Whatever feeds the loop besides one call per incident has a counter: `retries`
(calls made again under one decision), `repeats` (observations counted in a
second window), `reversals` (incidents permitted by both verdicts), `renewals`
and `warnings`. The properties are accounts over these.

Run `feedback`, with the deployment's weights and thresholds:

* `ActiveWindowsArePaidFor`: every window that raises an incident is paid for
  by a signal from outside, a warning, a repeat, a retry, a reversal or a
  renewal, each of which pays for one. So the audits of incidents that are
  restarted once do not keep the loop going, however they fall into windows.
* `RestartsAreBounded`: a window asks three times for a restart, because it has
  three levels worth an incident; each is granted twice at most, however often
  the incident is delivered, but for renewed requests; and each grant is one
  call, but for retries.

What the properties do not say is that the loop always comes to rest. An
incident that fails for good is called six times, each audited as HIGH; an
incident that policy and reviewer both permit is audited twice; and two audits
of the deployment are enough for the next incident. A kubectl that keeps
failing, verdicts that keep changing, or restarts that keep logging warnings can
each keep the loop going. The properties say that it takes one of these.

Audits go to the deployment's entity while Falco's findings go to the pod's
owner, which is another key, so an alert and the audit of its remediation do not
meet in one window.

## 5. Bounds, and why they are enough

| run | bounds |
|---|---|
| `ingestion` | 1 replica, 2 handlers, 2 findings per event, batches of 2, 2 posts per batch, 2 deliveries, 2 pods of the Job, 1 failed stream or restart; inputs: one pulled event (SCC, log, audit, malformed), a pulled event beside a webhook event, or a Trivy or Prowler scan |
| `correlation` | 1 entity, 3 observations, 3 messages x 2 deliveries, 2 workers, 2 signals per window, threshold 40, 2 signals for an incident, clock 0..1 |
| `policy` | confidence 0..2, counts 1..3, each threshold strictly inside |
| `governance` | 1 analysis id, 2 contents, 2 messages x 2 deliveries, 2 workers, request lives 1, clock 0..2 |
| `approval` | 1 request, 2 messages x 2 deliveries, 2 workers, request and envelope live 3, permit 2, no skew, signed or not, clock 0..3 |
| `remediation` | 2 messages x 2 deliveries, 5 decision ids, 2 workers, lease 1, clock 0..1, expiries 1 and 2 |
| `mcp` | 2 calls, each of 15 requests, 1 crash |
| `runtime` | 1 message with 1 output x 2 deliveries, 2 callbacks, 2 starts, 2 signals per start, 1 stream that breaks or fails to open |
| `feedback` | 2 observations from outside, 1 warning, 1 mishap (`MaxMishaps`: a retry, a repeat, a reversal, a renewal or a warning), 10 calls |

Every race in this code is between two attempts at one key: one decision, one
request, one entity, one batch. Two workers are two attempts, and two messages
with two deliveries give each of them a retry. Keys do not interact, except
through the subscription, so one key suffices where the properties quantify
over keys. The clock reaches the end of everything that expires (leases,
requests, envelopes, permits, windows), with at least one tick before the end,
so that the documents are seen alive, expiring and gone. In `remediation` it
stops when the first lease and one of the two decisions have expired; the runs
of section 8 have longer clocks, and the theorems of section 7 hold for every
clock. In `correlation` a window holds two signals and meets three, so
truncation happens, and the clock allows a second window; it has the
deployment's `INCIDENT_SCORE_THRESHOLD` and `MIN_SIGNALS` (40 and 2) but not
its 25 signals and 15 minutes, while `feedback` has all of them and lets
windows end at any time. In `ingestion`
the scans have more findings than one event may yield and more checks than one
batch holds; the deployment has two replicas, which share nothing but the
topic, so two handlers of one do the work of both. In `feedback` the cap of 10
calls is never reached; each mishap is tried alone, after any history, and the
theorems count any number of them together. Workers, and messages or calls
where nothing names one, are symmetric; runs with liveness properties use no
symmetry. Deadlock is not checked: the bounds end every behaviour once all
messages are settled.

## 6. Fairness

Liveness is checked in two runs. In `runtime` under weak fairness of the main
thread's next step, `Main`: between its calls it waits only for the stream,
whose end is one of its steps, or for a timeout. In `ingestion` under weak
fairness of

* the scanner publisher's next step: every wait of it has a deadline
  (`WAIT_TIMEOUT_SECONDS`, `HTTP_TIMEOUT_SECONDS`, a bounded number of
  attempts);
* the end of the subscription thread once its stream has failed:
  `future.result()` raises;
* the readiness probe of a replica: that is the kubelet's contract.

Nothing is assumed of callbacks and handlers, of `Tick`, of crashes, signals,
reviewers, TTL deletion or failing calls; no success is assumed fair.

## 7. What is proved, and how

For every value of the constants the modules' assumptions allow. Every
invariant and action property that a passing run checks is proved, and so are
the two refinements; what is left to TLC is liveness. Few of the safety
properties are inductive by themselves; each proof module has an invariant
`IInv` (or the parts of one) with a lemma for each action or kind of action,
and a theorem `Invariance` or its like from which the properties follow. TLC
checks the properties themselves on the small instances, and has checked the
inductive invariants there before they were proved.

`EventAggregatorProofs`: `TypeCorrect`, `SettledIsPublishedHolds`,
`CopiesOnlyOfUnnamedHolds`, `OwnSourceHolds`, `CopiesShareEntityHolds`, for any
events and scans, batch size, retries, deliveries, handlers and pods.
`AggregatorInv` adds to the types

* `InputInv`: what came in stays what it was;
* `WaitInv`: a publisher that waits for an answer has a batch left, which is
  the one its handler has;
* `AttemptInv`, `TopicInv`: a handler at work is an attempt that was counted,
  and what is on the topic comes from such an attempt, so an identity drawn at
  random tells attempt and item (`CopiesOnlyOfUnnamed`);
* `PublishedInv`: whoever says that an event or a batch is published - a handler
  that has not answered yet, the subscription, the publisher - has all of its
  findings on the topic, and `done` means that no batch is left.

The rest is about the operators. `Inferred` says which source `infer_source`
finds for each producer's events, `OwnNormalizer` that they get their own
system's normaliser, by name or by shape, however the source is spelt.
`KeptAreMany` and `KeptAreAll` say how much the limit leaves of what an event
reports.
`BatchesPartition` is the arithmetic of the split: each check of a long list is
in exactly one batch, unchanged. A batch is then an event of its scan again
(`BatchItems`), and an upload is whole when its batches are. `NamedEntity`:
the key of a finding that names an entity does not depend on its identity.

Four assumptions carry this. `Produced` describes the events of this
deployment's producers: SCC and the log sink send no source
(`terraform/`), Falco, the scan Jobs and the MCP server send theirs in
the shapes given (`manifests/`, `mcp_server.py`). `NamesApart`: in the model the name
of an item stands for the item, whether or not its scanner gives it an id.
`BatchSize <= MaxFindings` is so of the deployment (100 and 500); without it a
batch would lose checks and still count as uploaded. And the spellings that
`Respelled` folds do not include the canonical names.

`GovernanceProofs`, on the policy: `DecisionIsUnique`, `ApprovalIsExplained`,
`PermitIsNarrow` (an automatic PERMIT needs controlled mode, HIGH severity, low
risk, an allowlisted target, both confidence thresholds and no request for a
human), `MoreSupportNeverStricter`, for every input and all thresholds. Each
expands the rules and splits on the action, the denials and the automatic path.
`DecisionUniqueHolds`, `ApprovalExplainedHolds` and `NeverStricterHolds` carry
the run's properties over to every sequence of revisions, from any inputs; a
revision remains an input, which is their invariant (`RevisionsAreInputs`).

`CorrelationAgentProofs`: `TypeCorrect`, `SignalsAreSeenHolds`,
`RevisionNamesIncidentHolds`, `LostOnlyByFailureHolds`. `IInv` adds to the types

* `WindowsInv`: signals and seen ids are in step (`InStep`), which merging,
  truncation and a fresh window preserve, and no window starts in the future;
* `BehindInv`: an incident that is out, or about to be, is of an earlier window
  or of the open one, which has come at least as far since - this is what keeps
  a slow worker's incident apart from those that overtook it;
* `OrderedInv`: incidents out are ordered by revision as by level.

`LostOnlyByFailure` is a matter of whole entities, and has an invariant beside
it: of an entity no delivery of which has failed, each revision of the open
window is on the topic or with the worker that published it to the window
(`NothingLost`), and a worker publishes an incident of its own observation's
entity (`OwnIncident`). An idle entity has no such worker.

On the agent: `TypeCorrect`, `LiveRequestIsStoredHolds`,
`EvidenceFirstHolds`, `AckedIsDecidedHolds` and the action property
`ResolvedIsNotReopenedHolds`. `IInv` adds

* `RequestInv`: a worker that persists or publishes a request made it for its
  own analysis; without it not even the types are kept, because a document's
  key and its request's analysis agree;
* `StoredInv`: a live request is in Firestore already when its worker is about
  to publish it, which is what `LiveRequestIsStored` needs of the next step;
* `AnsweredInv`: an analysis whose document is resolved has had a request
  published - a retry that finds it resolved skips the publication, and
  `EvidenceFirst` still holds;
* `EvidenceInv`: a worker past a publication of `process()` has made it.

`StepFrame` says that a step of a worker stores its own request where there was
none, or leaves the documents alone; `EnvironmentFrame` that everything else
resolves the document of an analysis that was asked about, in time or late
(`commit_resolution` checks the status alone), or withdraws an expired one.

`ApprovalAgentProofs`: `TypeCorrect`, `LiveDecisionsAgreeHolds`,
`DecisionIsReviewedHolds`, `StaleResolutionHasExpiredHolds`,
`LostOnlyByExpiryHolds`. `IInv` adds

* `EnvelopeInv`: envelopes answer requests that were made;
* `WorkerInv`: what a worker has checked still holds when it uses it, or has
  expired: the document it read is still there with the expiry the envelope is
  bound to, or that expiry has passed (`Bound`). The decision it built, or read
  back, has its grounds in an envelope;
* `ResolutionInv`: a resolution is its document's, or has expired;
* `LiveInv`: a decision out, or on its way, that is in force is the stored one;
* `PublishedInv`: what is published was reviewed, and its audit event is out.

`LiveDecisionsAgree` is then two uses of `LiveInv`: one document has one
resolution. A new generation of a request does not disturb it, since the old
one is deleted only after its expiry, which no decision outlasts.

`LostOnlyByExpiryHolds` assumes `ReviewerSkew <= MaxSkew` and has an invariant
of its own, `LossInv`. An envelope that is in order is, until it expires,
answered or *counted*: its message is not acknowledged, and its deliveries are
the failures and the callbacks in flight (`KeptInv`, `Counted`). A callback that
gives the message up does so only when the request has an answer
(`GivesUpAnswered`): the checks before the transaction cannot refuse such an
envelope, the transaction refuses it for another's resolution, and an
acknowledgement follows the publication. A stored resolution is on its way or
has a failure behind it (`ReportedInv`). A message without callbacks that is
dead-lettered has then spent every delivery on failures.

`RemediationAgentProofs`: `TypeCorrect`, `MutualExclusionHolds`,
`RedeliveryAloneIsSafeHolds`, `RestartAuthorizedHolds`,
`ReportIsTruthfulHolds`, `AckedIsReportedHolds`, `ReportLostOnlyByExpiryHolds`,
and the action property `CompletedIsFinalHolds`. `IInv` adds

* `ClockInv`: a claim's time lies in the past;
* `HolderInv`: without an overrun, the lease of the worker that executes a
  decision has not lapsed, and the ledger entry is its own: "executing" with
  its lease, or its result after a write that raised - this is what makes a
  second claim find the lease held;
* `OnceInv`: without faults no call is left hanging, there was one restart at
  most, and it is on record or its worker is about to record it;
* `AuthInv`: what a worker past validation holds is authorised;
* `TruthInv`, `AckInv`: an outcome "executed" in a worker's hands, in the
  ledger or on the topic has its restart; a worker that acknowledges has
  published;
* `RecordedInv`, `ReportInv`: a restart without faults is in the ledger as
  "executed", or its worker is about to write it; what is published for a
  PERMIT is the ledger's result, or "execution-blocked" where the decision may
  not be executed - and one that was executed can only have expired.

The step lemma of each conjunct does not go through the twenty actions again.
`StepKinds` sorts a worker's step by what it does to the ledger (quiet, claims,
continues, completes, fails), `StepEffects` by what it does to the deployment,
`StepFrame` says what it leaves alone, and each conjunct is preserved by each
kind.

`McpServerProofs`: `TypeCorrect`, `EvidenceLostOnlyByFailureHolds`,
`AuditTellsTheTruthHolds`, and the refinement `ImplementsRestartCallHolds`, for
any number of calls. The invariant is a conjunction per call: the caller's
answer is the handler's or nginx's (`ClientInv`); the handler answers once and
after its work (`ReplyInv`); only a request that passes every gate has a patch
(`RolloutInv`); the event is made with the answer and published after it
(`EventInv`); a patch without evidence has been hit (`EvidenceInv`). Each action
of the server is then a step of `RestartCall` for its call, or a stutter:
`ApplyPatch` restarts, the caller's receipt of an answer accepts or refuses,
giving up fails.

`ReportingAgentProofs`, in two parts. The runtime: `KeepsPromiseHolds`, the
refinement of `AtLeastOnce` for any messages, outputs, callbacks and bounds,
from the invariant that a callback has published a prefix of its outputs
(`PrefixInv`). The agent: `AgentKeepsPromise`, since every step of the agent is
a step of the runtime or leaves it alone; `AgentTypeCorrect`;
`SilenceIsOnRecordHolds`, because the answers a callback holds are true
(`Honest`) and complete once its report is made (`Complete`), and an
acknowledged message is accounted for (`Accounted`); and
`NotifiedOnceADeliveryHolds`, a count: notifications so far, and callbacks that
have yet to ask the channel (`Asking`, a finite set), are no more than the
deliveries.

`FeedbackLoopProofs`: `TypeCorrect`, `ActiveWindowsArePaidForHolds` and
`RestartsAreBoundedHolds`, for any seeds, warnings, weights, entities and
bounds. The first property is an account of observations: incidents, active
windows, windows that wait for a second signal and observations in transit are
no more than seeds, warnings, calls and repeats (`ObservationsAdd`), and calls
made and ordered are no more than incidents with a permit, reversals, retries
and renewals, where each reversal is an incident with both permits (`CallsAdd`).
What one incident costs the loop, two signals, is what one call does not give
back. `CriticalAdd` keeps the same account of critical signals, which need no
second one.

`RestartsAreBounded` keeps an account of levels. `LevelsAdd`: incidents so far,
and the levels that active windows may still rise to (`Left`, a finite set of
pairs), are no more than three for each window. It takes that an incident raises
its window's level, and that what makes an incident has one of three levels:
`IncidentLevels`, by which a critical signal alone scores 55 at least, and
anything else the threshold. `BaseScoreFacts` says that a sum of weights is at
least each of them. The sum is a recursive function here, so that this can be
proved without an induction theorem: of the lengths for which the sum does not
exist (`SumsExist`), or is less than some weight, there is a least, and it
contradicts itself (`LeastNumber`). `WeightAssumption` says that a signal from
outside that is critical weighs as the observer weighs critical findings, and
that `INCIDENT_SCORE_THRESHOLD` is 25 at least (the code's default and the
deployment have 40).

Two more theorems need no run. `CallsComeFromOutside`: both accounts together
bound the calls by seeds, warnings, repeats, retries, reversals and renewals;
the audits of first permits do not count. `ScoreGrows`: until its window is full, a
signal more never lowers the score or the level of what is known of an entity,
nor makes it less worth an incident, whatever the bonuses. Once it is full the
oldest signal goes and the score may fall; what keeps revisions in order then is
the level last published (`RevisionNamesIncident`), not the score.

Assumptions: the named `ASSUME`s of the modules, which TLC evaluates in the runs.

Only model-checked: the three liveness properties, `StopsOnSignal`,
`DeafPodIsTakenOut` and `UploadEnds`. Their proofs need ENABLED of the fair
actions, which the prover does not reason about. Everything else that a passing
run checks is proved as well.

## 8. Where the code and its documents differ

Each of these runs expects a violation; the counterexample is the finding.

* `rollout_twice` (`RolloutAtMostOnce`): `terraform/21-governance-iam.tf:89`
  says a redelivery cannot trigger the same rollout twice. A worker that dies
  between the gateway call and the ledger write leads to a second one.
* `request_lost` (`RequiredApprovalIsRequested`):
  `docs/concepts/deterministic-governance.md:71` has incidents that require
  approval published to `approval-requests`. After one failure between the
  Firestore write and the publication, every retry computes another expiry,
  hence another hash, and fails with "approval request ID collision detected".
* `counted_twice` (`ObservationCountedOnce`):
  `docs/architecture/plan-mode-summary.md:884` has duplicates removed before
  the analyst. An observation that is redelivered after its window has expired
  makes a second incident.

Four passing properties describe what the code allows, and bound it.
`ReportLostOnlyByExpiry`: a decision that executed, whose report failed to be
published, and that comes back expired is reported as "execution-blocked".
`LostOnlyByExpiry`: its relative in the approval agent, a resolution that is
stored and refused when its envelope comes back expired. `LostOnlyByFailure`:
an incident whose window took it for published. `RestartsAreBounded`: an
incident that is analysed again may get the other verdict, whose decision has an
id of its own, and is then restarted for an automatic PERMIT and again for an
approved request, although `docs/concepts/deterministic-governance.md:83` has
Firestore's execution state prevent duplicate remediation; twice at most, but
for renewed requests and retries.

## 9. What is not modelled

* Metrics support: counters, written and never read by the program; the
  counters of `/status` likewise.
* Identity, network and cluster set-up, `policy/conftest`, images, CI, shell
  scripts other than the review script, the demonstration workload: declarative
  or linear, without interleaving.
* Gemini's answers: any analysis is possible, and the consumers of analyses are
  checked against any. The analyst's own code is a prompt and a call.
* A policy file that is changed while an incident is under way: decisions made
  under another `POLICY_SHA256` have other ids, and the executor refuses those
  that are not of its own policy. The TTL of the execution ledger: an entry is
  taken to outlive every message that could bring its decision again
  (`EXECUTION_TTL_DAYS` against seven days of retention).
* Two entities for one workload (a deployment named by one source, its pods by
  another): both keys are in the model, and nothing promises that they meet.
* Texts, titles, reasons, evidence, labels, signal types, reports, logging.
* The truncation to `MAX_FINDINGS_PER_EVENT` is modelled, but neither code nor
  documents promise anything about what is cut off, so no property does.
* nginx overwrites `X-Request-ID`, so the id an audit bears is the gateway's;
  only the correlation of logs depends on it.
* Canonical JSON and SHA-256: a hash is the record of what it covers.
* KMS: a signature verifies or it does not; the envelope says which.
* The waiting for OPA at start-up; a timeout of OPA is `EvaluateError`.

## 10. Plan

What could follow, in order:

1. `ControlPlane`: governance, approval and remediation composed through
   `approval_requests` and `governance-decisions`, with an abstract
   specification of the whole ("a restart is preceded by an automatic permit or
   by one human approval that is still in force"). The identifiers are the
   interesting part: the decision's id derives from the analysis, the request's
   from the decision's, the approval's decision from the original one, and the
   key of the execution ledger from that.
2. More to prove: that the correlation agent's transaction refines what the
   loop makes of a window (both use `CorrelationWindow`); and that every PERMIT
   the governance agent publishes is narrow (`PermitIsNarrow`), with
   `RemediationPolicy` in OPA's place.
3. The review script's pulling and acknowledging of requests, to see which
   requests no reviewer ever meets.
