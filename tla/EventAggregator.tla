---------------------------- MODULE EventAggregator ----------------------------
(***************************************************************************)
(* The event aggregator, python/aggregator.py, and its HTTP client, the    *)
(* scanner publisher, python/scanner_publisher.py.  Raw events arrive from *)
(* the subscription, from Falco's webhook and, in batches with retries,    *)
(* from a scan; each is normalised and its findings are published before   *)
(* the event is acknowledged or the request answered.  A daemon thread     *)
(* holds the subscription; what becomes of it decides on readiness.        *)
(***************************************************************************)
EXTENDS Findings

CONSTANTS
    Pulled, Hooked,     \* events on raw-security-events, and of the webhook
    Inputs,             \* what may come in: [sent |-> the events, upload |-> a scan]
    BatchSize,          \* BATCH_SIZE
    MaxRetries,         \* MAX_RETRIES of a batch
    Pod, Handler,       \* replicas; callbacks and request threads in flight
    PodOf,              \* PodOf[h]: the replica handler h runs in
    NoJob, NoHandler,
    MaxDeliveries,      \* max_delivery_attempts of the subscription
    MaxJobs,            \* 1 + backoffLimit of the scan's Job
    MaxFaults           \* bound on failing streams and restarts of pods

ASSUME AggregatorAssumption ==
    /\ Pulled \cap Hooked = {}
    /\ \A e \in Pulled \cup Hooked \cup {NoJob} : e \notin Nat /\ e \notin Nat \X Nat
    /\ NoJob \notin Pulled \cup Hooked
    /\ NoHandler \notin Handler
    /\ PodOf \in [Handler -> Pod]
    /\ BatchSize \in Nat \ {0} /\ BatchSize <= MaxFindings
    /\ MaxRetries \in Nat \ {0} /\ MaxDeliveries \in Nat /\ MaxJobs \in Nat
    /\ MaxFaults \in Nat

(* What the producers of this deployment send.  Falco's events and scans   *)
(* are posted under their source; Terraform's SCC notification and log     *)
(* sink set none; the MCP server calls itself "mcp-audit".                 *)
Produced(raw) ==
    /\ raw \in RawEventType
    /\ raw.from = "trivy" =>
          \A p \in Places(raw) : At(raw, p).kind \in
             {"vulnerability", "misconfiguration", "secret", "summary", "junk"}
    /\ raw.from # "trivy" => Len(raw.parts) = 1
    /\ \/ raw.from \in {"trivy", "prowler"} /\ Canonical(raw.attribute) = raw.from
       \/ /\ raw.from = "falco" /\ Canonical(raw.attribute) = "falco"
          /\ IsObject(raw)
       \/ /\ raw.from = "security-command-center" /\ raw.attribute = ""
          /\ IsObject(raw) /\ Has(raw, {"finding"})
       \/ /\ raw.from = "cloud-logging" /\ raw.attribute = ""
          /\ IsObject(raw) /\ HasLogKey(raw) /\ ~Has(raw, {"finding"})
       \/ /\ raw.from = "mcp-server" /\ raw.attribute = "mcp-audit"
          /\ IsObject(raw) /\ raw.keys = {"mcp", "tool"}

(* The name of an item stands for the item: no two have the same, whatever *)
(* ids their scanners give them.                                           *)
NamesApart(i) ==
    LET raw(o) == IF o \in DOMAIN i.sent THEN i.sent[o] ELSE i.upload[o]
    IN  \A o, q \in DOMAIN i.sent \cup DOMAIN i.upload :
            \A x \in Places(raw(o)), y \in Places(raw(q)) :
                At(raw(o), x).name = At(raw(q), y).name => o = q /\ x = y

ASSUME InputAssumption ==
    \A i \in Inputs :
        /\ DOMAIN i.sent \subseteq Pulled \cup Hooked
        /\ \A e \in DOMAIN i.sent : Produced(i.sent[e])
        /\ i.upload \in Seq(RawEventType) /\ \A d \in DOMAIN i.upload : Produced(i.upload[d])
        /\ NamesApart(i)

VARIABLES
    sent,       \* sent[e]: the event, for those that come in
    upload,     \* the reports of the scan, a sequence of raw events
    queue,      \* queue[e]: "pending", "acked", "dead-lettered", or "lost" (webhook)
    tries,      \* tries[j]: how often event or batch j has reached a handler
    pc, job,    \* where handler h is, and the event or batch it handles
    attempt,    \* attempt[h]: which handling of it this is, the first is 1
    topic,      \* findings on security-findings
    thread,     \* thread[p]: where subscription_loop is
    stream,     \* stream[p]: its streaming pull
    started,    \* started[p]: subscriber_started, the answer of /readyz
    endpoint,   \* endpoint[p]: the Service routes to p
    scanner,    \* where the publisher is in main()
    accepted,   \* batches it has seen accepted
    posts,      \* attempts of the current batch
    caller,     \* the handler it waits for
    jobs, faults                        \* what the bounds count

inputVars   == <<sent, upload>>
queueVars   == <<queue, tries>>
handlerVars == <<pc, job, attempt>>
podVars     == <<thread, stream, started, endpoint>>
scanVars    == <<scanner, accepted, posts, caller>>
boundVars   == <<jobs, faults>>
vars == <<inputVars, queueVars, handlerVars, topic, podVars, scanVars, boundVars>>

-----------------------------------------------------------------------------
(* payloads(): what the publisher sends *)

Split(report) == report.attribute = "prowler" /\ report.form = "list"

Chunks(report) ==
    IF Split(report) THEN (Len(report.parts[1]) + BatchSize - 1) \div BatchSize ELSE 1

(* The k-th batch of a report: a part of a long list of checks, or all.    *)
BatchPayload(report, k) ==
    LET last == IF k * BatchSize <= Len(report.parts[1])
                THEN k * BatchSize ELSE Len(report.parts[1])
    IN  IF Split(report)
        THEN [report EXCEPT !.parts = <<SubSeq(@[1], (k - 1) * BatchSize + 1, last)>>]
        ELSE report

Batch == UNION {{<<d, k>> : k \in 1 .. Chunks(upload[d])} : d \in DOMAIN upload}

Current == CHOOSE b \in Batch \ accepted :
              \A c \in Batch \ accepted : b = c \/ Precedes(b, c)

-----------------------------------------------------------------------------
(* What a handler makes of its event or batch *)

Event == DOMAIN sent
Payload(j) == IF j \in Event THEN sent[j] ELSE BatchPayload(upload[j[1]], j[2])

(* What may arrive, and the findings of each: a POST bears its source, a   *)
(* pulled event may not.                                                   *)
Arrival ==
    UNION {{i.sent[e] : e \in DOMAIN i.sent}
           \cup UNION {{BatchPayload(i.upload[d], k) : k \in 1 .. Chunks(i.upload[d])} :
                          d \in DOMAIN i.upload} : i \in Inputs}

Made == {[payload |-> a, findings |-> Normalize(InferSource(a), a)] : a \in Arrival}

FindingsOf(j) == (CHOOSE m \in Made : m.payload = Payload(j)).findings

(* Mistake: a random id although the scanner gives one. *)
PublicationAlwaysFresh(f, j, t) == [finding |-> f, id |-> <<f.item, j, t>>]

(* The message on security-findings; a random id is new in every attempt.  *)
Publication(f, j, t) ==
    [finding |-> f, id |-> IF f.stable THEN <<f.item>> ELSE <<f.item, j, t>>]

Out(h) == {Publication(f, job[h], attempt[h]) : f \in FindingsOf(job[h])}

TypeOK ==
    /\ queue \in [Event -> {"pending", "acked", "dead-lettered", "lost"}]
    /\ tries \in [Event \cup Batch -> Nat]
    /\ pc \in [Handler -> {"idle", "received", "published", "failed"}]
    /\ job \in [Handler -> Event \cup Batch \cup {NoJob}]
    /\ attempt \in [Handler -> Nat]
    /\ thread \in [Pod -> {"subscribing", "marking", "waiting", "ended"}]
    /\ stream \in [Pod -> {"none", "open", "failed", "closed"}]
    /\ started \in [Pod -> BOOLEAN] /\ endpoint \in [Pod -> BOOLEAN]
    /\ scanner \in {"waiting", "loading", "sending", "awaiting", "done", "failed"}
    /\ accepted \subseteq Batch
    /\ posts \in 0 .. MaxRetries
    /\ caller \in Handler \cup {NoHandler}
    /\ \A h \in Handler : pc[h] = "idle" <=> job[h] = NoJob
    /\ caller # NoHandler => scanner = "awaiting" /\ job[caller] = Current

Init ==
    /\ \E i \in Inputs : sent = i.sent /\ upload = i.upload
    /\ queue = [e \in Event |-> "pending"]
    /\ tries = [j \in Event \cup Batch |-> 0]
    /\ pc = [h \in Handler |-> "idle"]
    /\ job = [h \in Handler |-> NoJob]
    /\ attempt = [h \in Handler |-> 0]
    /\ topic = {}
    /\ thread = [p \in Pod |-> "subscribing"]
    /\ stream = [p \in Pod |-> "none"]
    /\ started = [p \in Pod |-> FALSE]
    /\ endpoint = [p \in Pod |-> FALSE]
    /\ scanner = "waiting" /\ accepted = {} /\ posts = 0 /\ caller = NoHandler
    /\ jobs = 1 /\ faults = 0

-----------------------------------------------------------------------------
(* A replica: the subscription thread, its stream, readiness, restarts *)

(* Callbacks may run as soon as the stream is open. *)
Subscribe(p) ==
    /\ thread[p] = "subscribing"
    /\ thread' = [thread EXCEPT ![p] = "marking"]
    /\ stream' = [stream EXCEPT ![p] = "open"]
    /\ UNCHANGED <<inputVars, queueVars, handlerVars, topic, started, endpoint,
                   scanVars, boundVars>>

MarkStarted(p) ==
    /\ thread[p] = "marking"
    /\ thread' = [thread EXCEPT ![p] = "waiting"]
    /\ started' = [started EXCEPT ![p] = TRUE]
    /\ UNCHANGED <<inputVars, queueVars, handlerVars, topic, stream, endpoint,
                   scanVars, boundVars>>

(* Mistake: the thread ends without a word. *)
StreamEndsSilently(p) ==
    /\ thread[p] = "waiting"
    /\ stream[p] = "failed"
    /\ thread' = [thread EXCEPT ![p] = "ended"]
    /\ UNCHANGED <<inputVars, queueVars, handlerVars, topic, stream, started,
                   endpoint, scanVars, boundVars>>

(* future.result() raises; nothing starts the thread again. *)
StreamEnds(p) ==
    /\ thread[p] = "waiting"
    /\ stream[p] = "failed"
    /\ thread' = [thread EXCEPT ![p] = "ended"]
    /\ started' = [started EXCEPT ![p] = FALSE]
    /\ UNCHANGED <<inputVars, queueVars, handlerVars, topic, stream, endpoint,
                   scanVars, boundVars>>

(* The stream meets an error that the client library does not retry; or    *)
(* subscribe() itself raises, outside the try block.                       *)
StreamBreaks(p) ==
    /\ faults < MaxFaults
    /\ faults' = faults + 1
    /\ \/ /\ stream[p] = "open"
          /\ UNCHANGED thread
       \/ /\ thread[p] = "subscribing"
          /\ thread' = [thread EXCEPT ![p] = "ended"]
    /\ stream' = [stream EXCEPT ![p] = "failed"]
    /\ UNCHANGED <<inputVars, queueVars, handlerVars, topic, started, endpoint,
                   scanVars, jobs>>

(* The readiness probe, and the Service's list of endpoints after it. *)
Probe(p) ==
    /\ endpoint[p] # started[p]
    /\ endpoint' = [endpoint EXCEPT ![p] = started[p]]
    /\ UNCHANGED <<inputVars, queueVars, handlerVars, topic, thread, stream,
                   started, scanVars, boundVars>>

(* SIGTERM: the subscriber is closed and SystemExit raised. *)
Shutdown(p) ==
    /\ stream[p] = "open"
    /\ faults < MaxFaults
    /\ stream' = [stream EXCEPT ![p] = "closed"]
    /\ UNCHANGED <<inputVars, queueVars, handlerVars, topic, thread, started,
                   endpoint, scanVars, boundVars>>

(* The process ends, by itself or not, and with it every handler of the    *)
(* pod: a webhook event in its hands is lost, a pulled one comes again.    *)
Restart(p) ==
    /\ faults < MaxFaults
    /\ faults' = faults + 1
    /\ thread' = [thread EXCEPT ![p] = "subscribing"]
    /\ stream' = [stream EXCEPT ![p] = "none"]
    /\ started' = [started EXCEPT ![p] = FALSE]
    /\ pc' = [h \in Handler |-> IF PodOf[h] = p THEN "idle" ELSE pc[h]]
    /\ job' = [h \in Handler |-> IF PodOf[h] = p THEN NoJob ELSE job[h]]
    /\ attempt' = [h \in Handler |-> IF PodOf[h] = p THEN 0 ELSE attempt[h]]
    /\ queue' = [e \in Event |->
                    IF e \in Hooked /\ \E h \in Handler : PodOf[h] = p /\ job[h] = e
                    THEN "lost" ELSE queue[e]]
    /\ caller' = IF caller # NoHandler /\ PodOf[caller] = p THEN NoHandler ELSE caller
    /\ UNCHANGED <<inputVars, tries, topic, endpoint, scanner, accepted, posts,
                   jobs>>

-----------------------------------------------------------------------------
(* The callback and the request handler *)

Take(h, j) ==
    /\ pc[h] = "idle"
    /\ pc' = [pc EXCEPT ![h] = "received"]
    /\ job' = [job EXCEPT ![h] = j]
    /\ tries' = [tries EXCEPT ![j] = @ + 1]
    /\ attempt' = [attempt EXCEPT ![h] = tries'[j]]

Release(h) ==
    /\ pc' = [pc EXCEPT ![h] = "idle"]
    /\ job' = [job EXCEPT ![h] = NoJob]
    /\ attempt' = [attempt EXCEPT ![h] = 0]

(* At least once: a pending event may reach a second handler. *)
Deliver(h, e) ==
    /\ stream[PodOf[h]] = "open"
    /\ queue[e] = "pending"
    /\ tries[e] < MaxDeliveries
    /\ Take(h, e)
    /\ UNCHANGED <<inputVars, queue, topic, podVars, scanVars, boundVars>>

DeadLetter(e) ==
    /\ queue[e] = "pending"
    /\ tries[e] = MaxDeliveries
    /\ \A h \in Handler : job[h] # e
    /\ queue' = [queue EXCEPT ![e] = "dead-lettered"]
    /\ UNCHANGED <<inputVars, tries, handlerVars, topic, podVars, scanVars, boundVars>>

(* Falco's webhook posts an event once, and does not look back. *)
Hook(h, e) ==
    /\ endpoint[PodOf[h]]
    /\ queue[e] = "pending" /\ tries[e] = 0
    /\ Take(h, e)
    /\ UNCHANGED <<inputVars, queue, topic, podVars, scanVars, boundVars>>

HookRefused(e) ==
    /\ queue[e] = "pending" /\ tries[e] = 0
    /\ queue' = [queue EXCEPT ![e] = "lost"]
    /\ UNCHANGED <<inputVars, tries, handlerVars, topic, podVars, scanVars, boundVars>>

(* Mistake: the futures are not waited for. *)
PublishUnawaited(h) ==
    /\ pc[h] = "received"
    /\ ~Payload(job[h]).malformed
    /\ \E some \in SUBSET Out(h) : topic' = topic \cup some
    /\ pc' = [pc EXCEPT ![h] = "published"]
    /\ UNCHANGED <<inputVars, queueVars, job, attempt, podVars, scanVars, boundVars>>

(* normalize() and publish(): every future has its result. *)
Publish(h) ==
    /\ pc[h] = "received"
    /\ ~Payload(job[h]).malformed
    /\ topic' = topic \cup Out(h)
    /\ pc' = [pc EXCEPT ![h] = "published"]
    /\ UNCHANGED <<inputVars, queueVars, job, attempt, podVars, scanVars, boundVars>>

(* A payload that cannot be read publishes nothing; a future that fails or *)
(* times out leaves any of the findings published.                         *)
ProcessFails(h) ==
    /\ pc[h] = "received"
    /\ \E some \in SUBSET Out(h) :
          /\ Payload(job[h]).malformed => some = {}
          /\ topic' = topic \cup some
    /\ pc' = [pc EXCEPT ![h] = "failed"]
    /\ UNCHANGED <<inputVars, queueVars, job, attempt, podVars, scanVars, boundVars>>

(* message.ack(), which reaches Pub/Sub while the stream lives. *)
Ack(h) ==
    /\ pc[h] = "published"
    /\ job[h] \in Pulled
    /\ \/ /\ stream[PodOf[h]] \in {"open", "closed"}
          /\ queue' = [queue EXCEPT ![job[h]] = IF @ = "pending" THEN "acked" ELSE @]
       \/ stream[PodOf[h]] # "open" /\ UNCHANGED queue
    /\ Release(h)
    /\ UNCHANGED <<inputVars, tries, topic, podVars, scanVars, boundVars>>

Nack(h) ==
    /\ pc[h] = "failed"
    /\ job[h] \in Pulled
    /\ Release(h)
    /\ UNCHANGED <<inputVars, queueVars, topic, podVars, scanVars, boundVars>>

AnswerHook(h) ==
    /\ pc[h] \in {"published", "failed"}
    /\ job[h] \in Hooked
    /\ queue' = [queue EXCEPT ![job[h]] = IF pc[h] = "published" THEN "acked" ELSE "lost"]
    /\ Release(h)
    /\ UNCHANGED <<inputVars, tries, topic, podVars, scanVars, boundVars>>

(* Mistake: the publisher retries without giving up the first request. *)
AttemptOverlaps ==
    /\ scanner' = IF posts = MaxRetries THEN "failed" ELSE "sending"
    /\ UNCHANGED <<accepted, posts, caller>>

(* The attempt of the current batch has failed: the next one, or main()    *)
(* returns 1.                                                              *)
AttemptFails ==
    /\ scanner' = IF posts = MaxRetries THEN "failed" ELSE "sending"
    /\ caller' = NoHandler
    /\ UNCHANGED <<accepted, posts>>

(* 202 or an error, to the publisher if it still waits; the answer may be  *)
(* lost or unreadable.                                                     *)
AnswerScan(h) ==
    /\ pc[h] \in {"published", "failed"}
    /\ job[h] \in Batch
    /\ \/ /\ caller = h /\ pc[h] = "published"
          /\ scanner' = "sending" /\ posts' = 0 /\ caller' = NoHandler
          /\ accepted' = accepted \cup {job[h]}
       \/ caller = h /\ AttemptFails
       \/ caller # h /\ UNCHANGED scanVars
    /\ Release(h)
    /\ UNCHANGED <<inputVars, queueVars, topic, podVars, boundVars>>

Work(h) ==
    \/ Publish(h) \/ ProcessFails(h) \/ Ack(h) \/ Nack(h) \/ AnswerHook(h)
    \/ AnswerScan(h)

-----------------------------------------------------------------------------
(* The scanner publisher *)

(* wait_for_scan: the completion file is there, or the time is up. *)
WaitForScan ==
    /\ scanner = "waiting"
    /\ scanner' \in {"loading", "failed"}
    /\ UNCHANGED <<inputVars, queueVars, handlerVars, topic, podVars, accepted, posts,
                   caller, boundVars>>

(* load_documents: no report, or one that is not JSON, ends the run. *)
LoadDocuments ==
    /\ scanner = "loading"
    /\ scanner' \in {"sending", "failed"}
    /\ UNCHANGED <<inputVars, queueVars, handlerVars, topic, podVars, accepted, posts,
                   caller, boundVars>>

Post(h) ==
    /\ scanner = "sending" /\ Batch \ accepted # {}
    /\ posts < MaxRetries
    /\ endpoint[PodOf[h]]
    /\ Take(h, Current)
    /\ scanner' = "awaiting" /\ posts' = posts + 1 /\ caller' = h
    /\ UNCHANGED <<inputVars, queue, topic, podVars, accepted, boundVars>>

(* Mistake: a refused connection does not count as an attempt. *)
PostRefusedUncounted ==
    /\ scanner = "sending" /\ Batch \ accepted # {}
    /\ posts < MaxRetries
    /\ UNCHANGED vars

(* Nobody takes the request. *)
PostRefused ==
    /\ scanner = "sending" /\ Batch \ accepted # {}
    /\ posts < MaxRetries
    /\ posts' = posts + 1
    /\ scanner' = IF posts' = MaxRetries THEN "failed" ELSE "sending"
    /\ UNCHANGED <<inputVars, queueVars, handlerVars, topic, podVars, accepted, caller,
                   boundVars>>

(* The client gives up on a request; its handler goes on. *)
PostTimesOut ==
    /\ scanner = "awaiting"
    /\ AttemptFails
    /\ UNCHANGED <<inputVars, queueVars, handlerVars, topic, podVars, boundVars>>

AllReportsPublished ==
    /\ scanner = "sending" /\ Batch \ accepted = {}
    /\ scanner' = "done"
    /\ UNCHANGED <<inputVars, queueVars, handlerVars, topic, podVars, accepted, posts,
                   caller, boundVars>>

(* Kubernetes runs the Job's pod again: a new scan with the same reports.  *)
ScanAgain ==
    /\ scanner = "failed"
    /\ jobs < MaxJobs
    /\ jobs' = jobs + 1
    /\ scanner' = "waiting" /\ accepted' = {} /\ posts' = 0
    /\ UNCHANGED <<inputVars, queueVars, handlerVars, topic, podVars, caller,
                   faults>>

Scan ==
    \/ WaitForScan \/ LoadDocuments \/ AllReportsPublished \/ PostRefused
    \/ PostTimesOut \/ \E h \in Handler : Post(h)

-----------------------------------------------------------------------------
Next ==
    \/ Scan \/ ScanAgain
    \/ \E p \in Pod : \/ Subscribe(p) \/ MarkStarted(p) \/ StreamEnds(p)
                      \/ StreamBreaks(p) \/ Probe(p) \/ Shutdown(p) \/ Restart(p)
    \/ \E e \in Event \cap Pulled : DeadLetter(e)
    \/ \E e \in Event \cap Hooked : HookRefused(e)
    \/ \E h \in Handler : \/ Work(h)
                          \/ \E e \in Event \cap Pulled : Deliver(h, e)
                          \/ \E e \in Event \cap Hooked : Hook(h, e)

Spec == Init /\ [][Next]_vars

(* The subscription thread runs, probes are taken, and every wait of the   *)
(* publisher has a timeout.  Nothing is assumed of the handlers.           *)
Fairness ==
    /\ WF_vars(Scan)
    /\ \A p \in Pod : WF_vars(StreamEnds(p)) /\ WF_vars(Probe(p))

FairSpec == Spec /\ Fairness

-----------------------------------------------------------------------------
(* Properties *)

(* What a payload reports, whatever the code makes of it. *)
Items(payload) == {At(payload, p) : p \in Places(payload)}
Reports(payload) ==
    {i.name : i \in {r \in Items(payload) : r.kind \notin {"junk", "summary", "passed"}}}

IsPublished(payload) ==
    LET onTopic == {x.finding.item : x \in topic} \cap {i.name : i \in Items(payload)}
    IN  Reports(payload) \subseteq onTopic \/ Cardinality(onTopic) >= MaxFindings

(* callback 1501-1557, ingest 1648-1717, scanner main 233-266: an event    *)
(* that is acknowledged, or a report whose upload has succeeded, is on     *)
(* security-findings with everything it reports, up to the limit on        *)
(* findings of one event - through partial failures, retries, splitting,   *)
(* streams that fail and pods that restart.                                *)
SettledIsPublished ==
    /\ \A e \in Event : queue[e] = "acked" => IsPublished(sent[e])
    /\ scanner = "done" => \A d \in DOMAIN upload : IsPublished(upload[d])

(* finding 209-256: an item is on the topic under two identities only if   *)
(* it has no stable one, and each of them is an attempt of its own.        *)
CopiesOnlyOfUnnamed ==
    \A j \in Event \cup Batch : \A n \in Reports(Payload(j)) :
        LET copies == {x \in topic : x.finding.item = n}
        IN  /\ Cardinality({x.id : x \in copies}) <= tries[j]
            /\ Cardinality({x.id : x \in copies}) > 1 => \A x \in copies : ~x.finding.stable

(* infer_source 1459-1498 and normalize 1216-1392: a finding bears the     *)
(* name of the system the event came from, whichever way it came in.       *)
OwnSource ==
    \A j \in Event \cup Batch : \A x \in topic :
        x.finding.item \in Reports(Payload(j)) => x.finding.source = Payload(j).from

(* A workload in its namespace, an image, a resource or a project. *)
Located(f) ==
    LET named == {a[1] : a \in f.asset}
    IN  \/ {"image", "resource", "project"} \cap named # {}
        \/ "namespace" \in named /\ {"deployment", "pod"} \cap named # {}

(* entity_key 91-174: copies of one item belong to one entity, where the   *)
(* correlation agent meets them together, unless the item names none; a    *)
(* namespace alone is not one.                                             *)
CopiesShareEntity ==
    \A x, y \in topic :
        /\ x.finding.item = y.finding.item
        /\ EntityKey(x.finding, x.id) # EntityKey(y.finding, y.id)
        => ~Located(x.finding)

(* subscription_loop 1586-1602, readyz 1614-1637: a replica that has lost  *)
(* its stream for good is taken out of the Service, or started again.      *)
DeafPodIsTakenOut ==
    \A p \in Pod : stream[p] = "failed" ~> ~endpoint[p] \/ stream[p] # "failed"

(* scanner_publisher 82-99, 165-266: a scan's upload ends, with success or *)
(* with an error, whatever the aggregator does.                            *)
UploadEnds == scanner = "waiting" ~> scanner \in {"done", "failed"}
=============================================================================
