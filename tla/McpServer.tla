------------------------------- MODULE McpServer -------------------------------
(***************************************************************************)
(* The MCP server, python/mcp_server.py, as its clients and the audit      *)
(* topics see it: a request passes nginx, the gates of the server and      *)
(* kubectl; each of them may time out before the next one has answered.    *)
(* The audit event of a request is published to two topics by a daemon     *)
(* thread that nobody waits for.                                           *)
(*                                                                         *)
(* A request is its tool and the checks it would fail, if it gets to them. *)
(***************************************************************************)
EXTENDS Integers

CONSTANTS
    Call,       \* requests, in any number at once (the server is threaded)
    Requests,   \* what a request may be
    MaxCrashes  \* bound on crashes of the server

Tool == {"restart_deployment", "get_logs", "get_pods"}

(* nginx's client certificate; then the gates in the order of the code.    *)
Check == {"certificate", "identity", "body", "name", "namespace", "target",
          "approval", "source", "fields"}

(* The checks the code makes of a call of a tool. *)
ChecksOf(tool) ==
    CASE tool = "restart_deployment" -> Check
      [] tool = "get_logs"           -> Check \ {"approval", "source", "fields"}
      [] tool = "get_pods"           -> {"certificate", "identity", "body"}

ASSUME RequestsAssumption ==
    \A q \in Requests : q.tool \in Tool /\ q.fails \subseteq Check

ASSUME MaxCrashesAssumption == MaxCrashes \in Nat

VARIABLES
    request,    \* request[c]: what call c asks for
    client,     \* client[c]: what the caller knows
    server,     \* server[c]: where the handler of call c is
    reply,      \* reply[c]: what the handler answers
    rollout,    \* rollout[c]: kubectl's patch of the deployment
    event,      \* event[c]: the outcome in the audit event of call c
    outbox,     \* outbox[c]: topics whose publish() is outstanding
    topic,      \* topic[t]: the calls whose audit event is on t
    crashes,    \* number of crashes
    blamed      \* calls whose evidence a publish failure or a crash has hit

vars == <<request, client, server, reply, rollout, event, outbox, topic, crashes,
          blamed>>
auditVars == <<event, outbox, topic, blamed>>

Topic == {"guardian-audit", "raw-security-events"}
Outcome == {"rejected", "error", "success"}

IsRestart(c) == request[c].tool = "restart_deployment"
Failed(c) == request[c].fails \cap ChecksOf(request[c].tool)

TypeOK ==
    /\ request \in [Call -> Requests]
    /\ client \in [Call -> {"ready", "waiting", "accepted", "refused", "failed"}]
    /\ server \in [Call -> {"none", "received", "running", "answering", "done"}]
    /\ reply \in [Call -> {"none", "accepted", "refused", "failed"}]
    /\ rollout \in [Call -> {"none", "sent", "applied"}]
    /\ event \in [Call -> Outcome \cup {"none"}]
    /\ outbox \in [Call -> SUBSET Topic]
    /\ topic \in [Topic -> SUBSET Call]
    /\ crashes \in 0 .. MaxCrashes
    /\ blamed \subseteq Call

Init ==
    /\ request \in [Call -> Requests]
    /\ client = [c \in Call |-> "ready"]
    /\ server = [c \in Call |-> "none"]
    /\ reply = [c \in Call |-> "none"]
    /\ rollout = [c \in Call |-> "none"]
    /\ event = [c \in Call |-> "none"]
    /\ outbox = [c \in Call |-> {}]
    /\ topic = [t \in Topic |-> {}]
    /\ crashes = 0
    /\ blamed = {}

-----------------------------------------------------------------------------
(* audit(): the event is made, and a daemon thread started *)

Audit(c, outcome) ==
    /\ event' = [event EXCEPT ![c] = outcome]
    /\ outbox' = [outbox EXCEPT ![c] = Topic]
    /\ UNCHANGED <<topic, blamed>>

(* A publish() of the thread succeeds. *)
PublishAuditEvent(c, t) ==
    /\ t \in outbox[c]
    /\ outbox' = [outbox EXCEPT ![c] = @ \ {t}]
    /\ topic' = [topic EXCEPT ![t] = @ \cup {c}]
    /\ UNCHANGED <<request, client, server, reply, rollout, event, crashes, blamed>>

(* It fails: the error is printed, and that is all. *)
PublishAuditFails(c, t) ==
    /\ t \in outbox[c]
    /\ outbox' = [outbox EXCEPT ![c] = @ \ {t}]
    /\ blamed' = blamed \cup {c}
    /\ UNCHANGED <<request, client, server, reply, rollout, event, topic, crashes>>

-----------------------------------------------------------------------------
(* The way in *)

(* The call reaches the server through nginx. *)
Send(c) ==
    /\ client[c] = "ready"
    /\ "certificate" \notin Failed(c)
    /\ client' = [client EXCEPT ![c] = "waiting"]
    /\ server' = [server EXCEPT ![c] = "received"]
    /\ UNCHANGED <<request, reply, rollout, auditVars, crashes>>

GatewayRefuses(c) ==
    /\ client[c] = "ready"
    /\ "certificate" \in Failed(c)
    /\ client' = [client EXCEPT ![c] = "refused"]
    /\ UNCHANGED <<request, server, reply, rollout, auditVars, crashes>>

(* No connection to nginx, or from it to the server. *)
Unreachable(c) ==
    /\ client[c] = "ready"
    /\ client' = [client EXCEPT ![c] = "failed"]
    /\ UNCHANGED <<request, server, reply, rollout, auditVars, crashes>>

(* Some gate refuses with 400 or 403.  Neither the identity gate nor       *)
(* get_pods audits what it refuses.                                        *)
Refuse(c) ==
    /\ server[c] = "received"
    /\ Failed(c) # {}
    /\ IF "identity" \in Failed(c) \/ request[c].tool = "get_pods"
       THEN UNCHANGED auditVars
       ELSE Audit(c, "rejected")
    /\ server' = [server EXCEPT ![c] = "answering"]
    /\ reply' = [reply EXCEPT ![c] = "refused"]
    /\ UNCHANGED <<request, client, rollout, crashes>>

-----------------------------------------------------------------------------
(* run_kubectl *)

(* Mistake: a request that lacks the policy's approval is run all the same. *)
RunUnapproved(c) ==
    /\ server[c] = "received"
    /\ Failed(c) \ {"approval"} = {}
    /\ server' = [server EXCEPT ![c] = "running"]
    /\ rollout' = [rollout EXCEPT ![c] = IF IsRestart(c) THEN "sent" ELSE @]
    /\ UNCHANGED <<request, client, reply, auditVars, crashes>>

Run(c) ==
    /\ server[c] = "received"
    /\ Failed(c) = {}
    /\ server' = [server EXCEPT ![c] = "running"]
    /\ rollout' = [rollout EXCEPT ![c] = IF IsRestart(c) THEN "sent" ELSE @]
    /\ UNCHANGED <<request, client, reply, auditVars, crashes>>

(* The API server applies the patch, whoever still waits for it. *)
ApplyPatch(c) ==
    /\ rollout[c] = "sent"
    /\ rollout' = [rollout EXCEPT ![c] = "applied"]
    /\ UNCHANGED <<request, client, server, reply, auditVars, crashes>>

(* Mistake: only what kubectl reports is audited, not its silence. *)
KubectlFailsUnaudited(c) ==
    /\ server[c] = "running"
    /\ server' = [server EXCEPT ![c] = "answering"]
    /\ reply' = [reply EXCEPT ![c] = "failed"]
    /\ UNCHANGED <<request, client, rollout, auditVars, crashes>>

(* Mistake: an outcome that audit_severity does not know. *)
KubectlTimedOut(c) ==
    /\ server[c] = "running"
    /\ Audit(c, "timeout")
    /\ server' = [server EXCEPT ![c] = "answering"]
    /\ reply' = [reply EXCEPT ![c] = "failed"]
    /\ UNCHANGED <<request, client, rollout, crashes>>

(* A return code other than 0 (502), or KUBECTL_TIMEOUT_SECONDS have       *)
(* passed (504).  The patch may have been sent.                            *)
KubectlFails(c) ==
    /\ server[c] = "running"
    /\ Audit(c, "error")
    /\ server' = [server EXCEPT ![c] = "answering"]
    /\ reply' = [reply EXCEPT ![c] = "failed"]
    /\ UNCHANGED <<request, client, rollout, crashes>>

(* Mistake: the answer does not depend on what kubectl says. *)
KubectlUnchecked(c) ==
    /\ server[c] = "running"
    /\ Audit(c, "success")
    /\ server' = [server EXCEPT ![c] = "answering"]
    /\ reply' = [reply EXCEPT ![c] = "accepted"]
    /\ UNCHANGED <<request, client, rollout, crashes>>

(* kubectl returns 0: of a restart, when the API server has answered it.   *)
KubectlSucceeds(c) ==
    /\ server[c] = "running"
    /\ IsRestart(c) => rollout[c] = "applied"
    /\ Audit(c, "success")
    /\ server' = [server EXCEPT ![c] = "answering"]
    /\ reply' = [reply EXCEPT ![c] = "accepted"]
    /\ UNCHANGED <<request, client, rollout, crashes>>

-----------------------------------------------------------------------------
(* The way back *)

(* The answer reaches the caller, if it still waits and nothing breaks.    *)
Answer(c) ==
    /\ server[c] = "answering"
    /\ server' = [server EXCEPT ![c] = "done"]
    /\ \/ client[c] = "waiting" /\ client' = [client EXCEPT ![c] = reply[c]]
       \/ UNCHANGED client
    /\ UNCHANGED <<request, reply, rollout, auditVars, crashes>>

(* nginx gives up on the server, or the caller on nginx; a broken          *)
(* connection ends the same way.                                           *)
GiveUp(c) ==
    /\ client[c] = "waiting"
    /\ client' = [client EXCEPT ![c] = "failed"]
    /\ UNCHANGED <<request, server, reply, rollout, auditVars, crashes>>

(* The process ends: with it its handlers, the kubectl processes they wait *)
(* for and the daemon threads, whose events are lost.                      *)
Crash ==
    /\ crashes < MaxCrashes
    /\ crashes' = crashes + 1
    /\ server' = [c \in Call |-> IF server[c] = "none" THEN "none" ELSE "done"]
    /\ outbox' = [c \in Call |-> {}]
    /\ blamed' = blamed \cup {c \in Call : outbox[c] # {} \/ server[c] = "running"}
    /\ UNCHANGED <<request, client, reply, rollout, event, topic>>

-----------------------------------------------------------------------------
Handle(c) ==
    \/ Refuse(c) \/ Run(c) \/ KubectlFails(c) \/ KubectlSucceeds(c) \/ Answer(c)

Next ==
    \/ Crash
    \/ \E c \in Call :
          \/ Send(c) \/ GatewayRefuses(c) \/ Unreachable(c) \/ Handle(c)
          \/ ApplyPatch(c) \/ GiveUp(c)
          \/ \E t \in Topic : PublishAuditEvent(c, t) \/ PublishAuditFails(c, t)

Spec == Init /\ [][Next]_vars

-----------------------------------------------------------------------------
(* Properties *)

(* restart_deployment 571-752 and run_kubectl 371-393 give the remediation *)
(* agent what it relies on, through timeouts of kubectl, nginx and the     *)
(* client, late patches and crashes of the server.                         *)
Restarts == {c \in Call : IsRestart(c)}
RestartAnswer ==
    [c \in Call |-> IF IsRestart(c) /\ client[c] \notin {"ready", "waiting"}
                    THEN client[c] ELSE "none"]

Rely == INSTANCE RestartCall WITH
            Call      <- Call,
            permitted <- {c \in Restarts : Failed(c) = {}},
            answer    <- RestartAnswer,
            restarted <- {c \in Restarts : rollout[c] = "applied"}
ImplementsRestartCall == Rely!Spec

(* audit 159-196 and publish_audit_event 85-137: "Every important action   *)
(* should leave evidence" (docs/concepts/mcp-security.md) as far as the    *)
(* code can hold it: a restart that has happened is on both topics, or its *)
(* handler or its publisher is still at work, or a failure was to blame.   *)
EvidenceLostOnlyByFailure ==
    \A c \in Call : rollout[c] = "applied" =>
        \/ server[c] = "running"
        \/ c \in blamed
        \/ \A t \in Topic : c \in topic[t] \/ t \in outbox[c]

(* audit 159-196 beside the answers of 571-752: what the audit topics say  *)
(* of a call agrees with what was done and with what its caller was told,  *)
(* although the caller, the handler and the publisher finish in any order. *)
AuditTellsTheTruth ==
    \A t \in Topic : \A c \in topic[t] :
        /\ event[c] = "success" => /\ IsRestart(c) => rollout[c] = "applied"
                                   /\ client[c] # "refused"
        /\ event[c] = "rejected" => rollout[c] = "none" /\ client[c] # "accepted"
        /\ event[c] = "error" => client[c] \notin {"accepted", "refused"}
=============================================================================
