--------------------------- MODULE McpServerProofs ---------------------------
(***************************************************************************)
(* The MCP server implements RestartCall, its audit tells the truth, and   *)
(* evidence is lost only by a failure: for any number of calls, requests   *)
(* and crashes.  The inductive invariant ties, call by call, what the      *)
(* caller knows to what the handler answered, and that to the audit event  *)
(* and to the patch.                                                       *)
(***************************************************************************)
EXTENDS McpServer, TLAPS

(* The caller's answer is the handler's, or nginx's, or none. *)
ClientInv(c) ==
    /\ client[c] = "ready" => server[c] = "none"
    /\ client[c] = "accepted" => reply[c] = "accepted"
    /\ client[c] = "refused" =>
          Failed(c) # {} /\ (reply[c] = "refused" \/ server[c] = "none")

(* The handler answers once, after it has done its work. *)
ReplyInv(c) ==
    /\ server[c] \in {"none", "received", "running"} => reply[c] = "none"
    /\ server[c] = "answering" => reply[c] # "none"
    /\ reply[c] = "accepted" => (IsRestart(c) => rollout[c] = "applied")
    /\ reply[c] = "refused" => Failed(c) # {}

(* Only a request that passes every gate has a patch. *)
RolloutInv(c) ==
    /\ server[c] \in {"none", "received"} => rollout[c] = "none"
    /\ rollout[c] # "none" => IsRestart(c) /\ Failed(c) = {}

(* The event is made with the answer, and published after it is made. *)
EventInv(c) ==
    /\ reply[c] = "accepted" => event[c] = "success"
    /\ reply[c] = "refused" => event[c] \in {"none", "rejected"}
    /\ reply[c] = "failed" => event[c] = "error"
    /\ reply[c] = "none" => event[c] = "none"
    /\ event[c] = "none" => \A t \in Topic : t \notin outbox[c] /\ c \notin topic[t]

(* A patch, sent or applied, that leaves no evidence has been hit. *)
EvidenceInv(c) ==
    rollout[c] # "none" =>
        \/ server[c] = "running"
        \/ c \in blamed
        \/ \A t \in Topic : c \in topic[t] \/ t \in outbox[c]

CallInv(c) ==
    ClientInv(c) /\ ReplyInv(c) /\ RolloutInv(c) /\ EventInv(c) /\ EvidenceInv(c)

IInv == TypeOK /\ \A c \in Call : CallInv(c)

-----------------------------------------------------------------------------
(* Types *)

LEMMA InitType == Init => TypeOK
  BY MaxCrashesAssumption DEF Init, TypeOK, Topic

(* An answer that reaches the caller is one: hence the invariant. *)
LEMMA StepType == IInv /\ [Next]_vars => TypeOK'
<1> SUFFICES ASSUME IInv, [Next]_vars PROVE TypeOK'
  OBVIOUS
<1>0. TypeOK /\ \A c \in Call : ReplyInv(c)
  BY DEF IInv, CallInv
<1>. USE <1>0 DEF TypeOK
<1>1. CASE UNCHANGED vars
  BY <1>1 DEF vars
<1>2. CASE Crash
  BY <1>2, MaxCrashesAssumption DEF Crash
<1>3. ASSUME NEW c \in Call,
             Send(c) \/ GatewayRefuses(c) \/ Unreachable(c) \/ ApplyPatch(c) \/ GiveUp(c)
      PROVE  TypeOK'
  BY <1>3 DEF Send, GatewayRefuses, Unreachable, ApplyPatch, GiveUp, auditVars
<1>4. ASSUME NEW c \in Call, Handle(c) PROVE TypeOK'
  <2>1. CASE Refuse(c)
    BY <1>4, <2>1 DEF Refuse, Audit, auditVars, Outcome
  <2>2. CASE Run(c)
    BY <1>4, <2>2 DEF Run, auditVars
  <2>3. CASE KubectlFails(c)
    BY <1>4, <2>3 DEF KubectlFails, Audit, Outcome
  <2>4. CASE KubectlSucceeds(c)
    BY <1>4, <2>4 DEF KubectlSucceeds, Audit, Outcome
  <2>5. CASE Answer(c)
    <3>1. reply[c] \in {"accepted", "refused", "failed"}
      BY <1>4, <2>5 DEF Answer, ReplyInv
    <3>. QED  BY <1>4, <2>5, <3>1 DEF Answer, auditVars
  <2>. QED  BY <1>4, <2>1, <2>2, <2>3, <2>4, <2>5 DEF Handle
<1>5. ASSUME NEW c \in Call, NEW t \in Topic,
             PublishAuditEvent(c, t) \/ PublishAuditFails(c, t)
      PROVE  TypeOK'
  BY <1>5 DEF PublishAuditEvent, PublishAuditFails
<1>. QED  BY <1>1, <1>2, <1>3, <1>4, <1>5 DEF Next

-----------------------------------------------------------------------------
(* The invariant *)

LEMMA InitInv == Init => IInv
<1> SUFFICES ASSUME Init PROVE IInv
  OBVIOUS
<1>1. TypeOK
  BY InitType
<1>2. ASSUME NEW c \in Call PROVE CallInv(c)
  BY <1>2 DEF Init, CallInv, ClientInv, ReplyInv, RolloutInv, EventInv, EvidenceInv
<1>. QED  BY <1>1, <1>2 DEF IInv

(* A step of one call does not disturb another. *)
SameFor(d) ==
    /\ request' = request
    /\ client'[d] = client[d] /\ server'[d] = server[d] /\ reply'[d] = reply[d]
    /\ rollout'[d] = rollout[d] /\ event'[d] = event[d] /\ outbox'[d] = outbox[d]
    /\ \A t \in Topic : d \in topic'[t] <=> d \in topic[t]
    /\ d \in blamed => d \in blamed'

LEMMA OthersKeep ==
  ASSUME NEW d \in Call, CallInv(d), SameFor(d)
  PROVE  CallInv(d)'
  BY DEF SameFor, CallInv, ClientInv, ReplyInv, RolloutInv, EventInv, EvidenceInv,
         IsRestart, Failed

LEMMA StepOthers ==
  ASSUME TypeOK, NEW c \in Call, NEW d \in Call \ {c},
         \/ Send(c) \/ GatewayRefuses(c) \/ Unreachable(c) \/ Handle(c)
         \/ ApplyPatch(c) \/ GiveUp(c)
         \/ \E t \in Topic : PublishAuditEvent(c, t) \/ PublishAuditFails(c, t)
  PROVE  SameFor(d)
<1>. USE DEF TypeOK, SameFor
<1>1. CASE Send(c) \/ GatewayRefuses(c) \/ Unreachable(c) \/ ApplyPatch(c) \/ GiveUp(c)
  BY <1>1 DEF Send, GatewayRefuses, Unreachable, ApplyPatch, GiveUp, auditVars
<1>2. CASE Handle(c)
  BY <1>2 DEF Handle, Refuse, Run, KubectlFails, KubectlSucceeds, Answer, Audit, auditVars
<1>3. CASE \E t \in Topic : PublishAuditEvent(c, t) \/ PublishAuditFails(c, t)
  BY <1>3 DEF PublishAuditEvent, PublishAuditFails
<1>. QED  BY <1>1, <1>2, <1>3

LEMMA StepOwn ==
  ASSUME TypeOK, NEW c \in Call, CallInv(c),
         \/ Send(c) \/ GatewayRefuses(c) \/ Unreachable(c) \/ Handle(c)
         \/ ApplyPatch(c) \/ GiveUp(c)
         \/ \E t \in Topic : PublishAuditEvent(c, t) \/ PublishAuditFails(c, t)
  PROVE  CallInv(c)'
<1>. USE DEF TypeOK, CallInv, ClientInv, ReplyInv, RolloutInv, EventInv, EvidenceInv,
             IsRestart, Failed
<1>1. CASE Send(c)
  BY <1>1 DEF Send, auditVars
<1>2. CASE GatewayRefuses(c)
  BY <1>2 DEF GatewayRefuses, auditVars
<1>3. CASE Unreachable(c)
  BY <1>3 DEF Unreachable, auditVars
<1>4. CASE Refuse(c)
  BY <1>4 DEF Refuse, Audit, auditVars
<1>5. CASE Run(c)
  BY <1>5 DEF Run, auditVars
<1>6. CASE KubectlFails(c)
  BY <1>6 DEF KubectlFails, Audit
<1>7. CASE KubectlSucceeds(c)
  BY <1>7 DEF KubectlSucceeds, Audit
<1>8. CASE Answer(c)
  BY <1>8 DEF Answer, auditVars
<1>9. CASE ApplyPatch(c)
  BY <1>9 DEF ApplyPatch, auditVars
<1>10. CASE GiveUp(c)
  BY <1>10 DEF GiveUp, auditVars
<1>11. ASSUME NEW t \in Topic, PublishAuditEvent(c, t) PROVE CallInv(c)'
  BY <1>11 DEF PublishAuditEvent
<1>12. ASSUME NEW t \in Topic, PublishAuditFails(c, t) PROVE CallInv(c)'
  BY <1>12 DEF PublishAuditFails
<1>. QED
  BY <1>1, <1>2, <1>3, <1>4, <1>5, <1>6, <1>7, <1>8, <1>9, <1>10, <1>11, <1>12
     DEF Handle

LEMMA CrashKeeps ==
  ASSUME TypeOK, Crash, NEW c \in Call, CallInv(c)
  PROVE  CallInv(c)'
  BY DEF TypeOK, Crash, CallInv, ClientInv, ReplyInv, RolloutInv, EventInv, EvidenceInv,
         IsRestart, Failed

LEMMA StepInv == IInv /\ [Next]_vars => IInv'
<1> SUFFICES ASSUME IInv, [Next]_vars PROVE IInv'
  OBVIOUS
<1>1. TypeOK'
  BY StepType
<1>2. ASSUME NEW d \in Call PROVE CallInv(d)'
  <2>1. CASE UNCHANGED vars
    BY <1>2, <2>1, OthersKeep DEF IInv, vars, SameFor
  <2>2. CASE Crash
    BY <1>2, <2>2, CrashKeeps DEF IInv
  <2>3. ASSUME NEW c \in Call,
               \/ Send(c) \/ GatewayRefuses(c) \/ Unreachable(c) \/ Handle(c)
               \/ ApplyPatch(c) \/ GiveUp(c)
               \/ \E t \in Topic : PublishAuditEvent(c, t) \/ PublishAuditFails(c, t)
        PROVE  CallInv(d)'
    BY <1>2, <2>3, StepOwn, StepOthers, OthersKeep DEF IInv
  <2>. QED  BY <2>1, <2>2, <2>3 DEF Next
<1>. QED  BY <1>1, <1>2 DEF IInv

THEOREM Invariance == Spec => []IInv
<1>. QED  BY InitInv, StepInv, PTL DEF Spec

-----------------------------------------------------------------------------
(* What the runs check *)

(* Types, whatever the requests and the number of calls and crashes. *)
THEOREM TypeCorrect == Spec => []TypeOK
<1>1. IInv => TypeOK
  BY DEF IInv
<1>. QED  BY <1>1, Invariance, PTL

(* audit 159-196, publish_audit_event 85-137: a restart leaves its evidence *)
(* on both topics unless a failed publication or a crash is to blame.      *)
THEOREM EvidenceLostOnlyByFailureHolds == Spec => []EvidenceLostOnlyByFailure
<1>1. IInv => EvidenceLostOnlyByFailure
  BY DEF IInv, CallInv, EvidenceInv, EvidenceLostOnlyByFailure
<1>. QED  BY <1>1, Invariance, PTL

(* audit 159-196: what the topics say of a call agrees with its patch and  *)
(* with its caller's answer.                                               *)
THEOREM AuditTellsTheTruthHolds == Spec => []AuditTellsTheTruth
<1>1. ASSUME IInv PROVE AuditTellsTheTruth
  <2> SUFFICES ASSUME NEW t \in Topic, NEW c \in topic[t]
               PROVE  /\ event[c] = "success" => /\ IsRestart(c) => rollout[c] = "applied"
                                                 /\ client[c] # "refused"
                      /\ event[c] = "rejected" => rollout[c] = "none" /\ client[c] # "accepted"
                      /\ event[c] = "error" => client[c] \notin {"accepted", "refused"}
    BY DEF AuditTellsTheTruth
  <2>1. c \in Call /\ CallInv(c) /\ event[c] # "none"
    BY <1>1 DEF IInv, TypeOK, CallInv, EventInv
  <2>2. reply[c] \in {"none", "accepted", "refused", "failed"}
    BY <1>1, <2>1 DEF IInv, TypeOK
  <2>. QED  BY <2>1, <2>2 DEF CallInv, ClientInv, ReplyInv, RolloutInv, EventInv
<1>. QED  BY <1>1, Invariance, PTL

-----------------------------------------------------------------------------
(* The refinement *)

Permitted == {c \in Restarts : Failed(c) = {}}
Restarted == {c \in Restarts : rollout[c] = "applied"}

LEMMA RelyInit == Init => Rely!Init
  BY DEF Init, Rely!Init, Restarts, RestartAnswer

(* What RestartCall sees does not change. *)
LEMMA RelyStutter ==
  ASSUME UNCHANGED request,
         \A c \in Restarts : rollout'[c] = "applied" <=> rollout[c] = "applied",
         \A c \in Restarts :
            \/ client'[c] = client[c]
            \/ {client[c], client'[c]} \subseteq {"ready", "waiting"}
  PROVE  UNCHANGED <<Permitted, RestartAnswer, Restarted>>
<1>1. Restarts' = Restarts
  BY DEF Restarts, IsRestart
<1>2. Permitted' = Permitted
  BY <1>1 DEF Permitted, Failed, IsRestart
<1>3. Restarted' = Restarted
  BY <1>1 DEF Restarted
<1>4. RestartAnswer' = RestartAnswer
  BY <1>1 DEF RestartAnswer, Restarts, IsRestart
<1>. QED  BY <1>2, <1>3, <1>4

(* The caller of c learns its answer, and nothing else happens. *)
LEMMA RelyAnswer ==
  ASSUME IInv, NEW c \in Restarts, UNCHANGED <<request, rollout>>,
         client[c] \in {"ready", "waiting"},
         NEW a \in {"accepted", "refused", "failed"},
         client' = [client EXCEPT ![c] = a]
  PROVE  /\ RestartAnswer[c] = "none"
         /\ RestartAnswer' = [RestartAnswer EXCEPT ![c] = a]
         /\ UNCHANGED <<Permitted, Restarted>>
<1>1. c \in Call /\ IsRestart(c) /\ client \in [Call -> {"ready", "waiting", "accepted", "refused", "failed"}]
  BY DEF Restarts, IInv, TypeOK
<1>2. Restarts' = Restarts
  BY DEF Restarts, IsRestart
<1>3. RestartAnswer[c] = "none"
  BY <1>1 DEF RestartAnswer
<1>4. ASSUME NEW d \in Call
      PROVE  RestartAnswer'[d] = [RestartAnswer EXCEPT ![c] = a][d]
  BY <1>1, <1>4 DEF RestartAnswer, IsRestart
<1>5. RestartAnswer' = [RestartAnswer EXCEPT ![c] = a]
  BY <1>4 DEF RestartAnswer
<1>6. UNCHANGED <<Permitted, Restarted>>
  BY <1>2 DEF Permitted, Restarted, Failed, IsRestart
<1>. QED  BY <1>3, <1>5, <1>6

(* Each answer of a restart is a step that RestartCall allows. *)
LEMMA RelyAnswered ==
  ASSUME IInv, NEW c \in Restarts, UNCHANGED <<request, rollout>>,
         client[c] \in {"ready", "waiting"},
         NEW a \in {"accepted", "refused", "failed"},
         client' = [client EXCEPT ![c] = a],
         a = "accepted" => c \in Restarted,
         a = "refused" => c \notin Permitted
  PROVE  Rely!Next
<1>1. /\ RestartAnswer[c] = "none"
      /\ RestartAnswer' = [RestartAnswer EXCEPT ![c] = a]
      /\ UNCHANGED <<Permitted, Restarted>>
  BY RelyAnswer
<1>2. c \in Call
  BY DEF Restarts
<1>3. CASE a = "accepted"
  BY <1>1, <1>2, <1>3 DEF Rely!Next, Rely!Accept, Permitted, Restarted
<1>4. CASE a = "refused"
  BY <1>1, <1>2, <1>4 DEF Rely!Next, Rely!Refuse, Permitted, Restarted
<1>5. CASE a = "failed"
  BY <1>1, <1>2, <1>5 DEF Rely!Next, Rely!Fail, Permitted, Restarted
<1>. QED  BY <1>3, <1>4, <1>5

LEMMA RelyStep ==
  IInv /\ [Next]_vars
    => [Rely!Next]_<<{c \in Restarts : Failed(c) = {}}, RestartAnswer,
                     {c \in Restarts : rollout[c] = "applied"}>>
<1> SUFFICES ASSUME IInv, [Next]_vars,
                    ~ UNCHANGED <<Permitted, RestartAnswer, Restarted>>
             PROVE  Rely!Next
  BY DEF Permitted, Restarted
<1>0. TypeOK /\ \A c \in Call : CallInv(c)
  BY DEF IInv
<1>1. CASE UNCHANGED vars
  BY <1>1, RelyStutter DEF vars
<1>2. CASE Crash
  BY <1>2, RelyStutter DEF Crash
<1>3. ASSUME NEW c \in Call, Send(c) \/ Refuse(c) \/ KubectlFails(c) \/ KubectlSucceeds(c)
      PROVE  Rely!Next
  BY <1>0, <1>3, RelyStutter
     DEF Send, Refuse, KubectlFails, KubectlSucceeds, TypeOK, Restarts
<1>4. ASSUME NEW c \in Call, Run(c) PROVE Rely!Next
  BY <1>0, <1>4, RelyStutter DEF Run, TypeOK, Restarts, CallInv, RolloutInv
<1>5. ASSUME NEW c \in Call, NEW t \in Topic,
             PublishAuditEvent(c, t) \/ PublishAuditFails(c, t)
      PROVE  Rely!Next
  BY <1>5, RelyStutter DEF PublishAuditEvent, PublishAuditFails
<1>6. ASSUME NEW c \in Call, ApplyPatch(c) PROVE Rely!Next
  <2>1. c \in Permitted \ Restarted
    BY <1>0, <1>6 DEF ApplyPatch, CallInv, RolloutInv, Permitted, Restarted, Restarts
  <2>2. Restarts' = Restarts /\ Permitted' = Permitted /\ RestartAnswer' = RestartAnswer
    BY <1>6 DEF ApplyPatch, Restarts, Permitted, RestartAnswer, IsRestart, Failed
  <2>3. Restarted' = Restarted \cup {c}
    BY <1>0, <1>6, <2>1, <2>2 DEF ApplyPatch, Restarted, Permitted, TypeOK, Restarts
  <2>. QED  BY <2>1, <2>2, <2>3 DEF Rely!Next, Rely!Restart, Permitted, Restarted
<1>7. ASSUME NEW c \in Call, GatewayRefuses(c) \/ Unreachable(c) \/ GiveUp(c)
      PROVE  Rely!Next
  <2>1. PICK a \in {"refused", "failed"} :
           /\ client' = [client EXCEPT ![c] = a]
           /\ a = "refused" => Failed(c) # {}
    BY <1>7 DEF GatewayRefuses, Unreachable, GiveUp
  <2>2. UNCHANGED <<request, rollout>> /\ client[c] \in {"ready", "waiting"}
    BY <1>7 DEF GatewayRefuses, Unreachable, GiveUp
  <2>3. CASE c \in Restarts
    BY <2>1, <2>2, <2>3, RelyAnswered DEF Permitted
  <2>4. CASE c \notin Restarts
    BY <1>0, <2>1, <2>2, <2>4, RelyStutter DEF Restarts, TypeOK
  <2>. QED  BY <2>3, <2>4
<1>8. ASSUME NEW c \in Call, Answer(c) PROVE Rely!Next
  <2>1. UNCHANGED <<request, rollout>>
    BY <1>8 DEF Answer
  <2>2. /\ client[c] = "waiting" /\ client' = [client EXCEPT ![c] = reply[c]]
        /\ c \in Restarts
    BY <1>0, <1>8, <2>1, RelyStutter DEF Answer, TypeOK, Restarts
  <2>3. reply[c] \in {"accepted", "refused", "failed"}
    BY <1>0, <1>8 DEF Answer, CallInv, ReplyInv, TypeOK
  <2>4. /\ reply[c] = "accepted" => c \in Restarted
        /\ reply[c] = "refused" => c \notin Permitted
    BY <1>0, <2>2 DEF CallInv, ReplyInv, Restarted, Restarts, Permitted
  <2>. QED  BY <2>1, <2>2, <2>3, <2>4, RelyAnswered
<1>. QED  BY <1>1, <1>2, <1>3, <1>4, <1>5, <1>6, <1>7, <1>8 DEF Next, Handle

(* restart_deployment 571-752 through nginx and kubectl gives the          *)
(* remediation agent what RestartCall promises it, whatever times out.     *)
THEOREM ImplementsRestartCallHolds == Spec => ImplementsRestartCall
<1>. QED  BY RelyInit, RelyStep, Invariance, PTL DEF Spec, ImplementsRestartCall, Rely!Spec
=============================================================================
