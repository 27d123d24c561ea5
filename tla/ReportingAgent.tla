---------------------------- MODULE ReportingAgent ----------------------------
(***************************************************************************)
(* python/reporting_agent.py in its runtime: a remediation result is told  *)
(* to Slack, then to Jira, and becomes a report that says how either went. *)
(* Neither call is idempotent, none is made twice within a delivery, and a *)
(* failure of one is caught and recorded: the message is acknowledged all  *)
(* the same.  The handler adds its steps to AgentRuntime's, where it       *)
(* stands for Process.                                                     *)
(***************************************************************************)
EXTENDS AgentRuntime, FiniteSets

Integration == {"slack", "jira"}

CONSTANT Setting    \* Setting[i]: "disabled", "configuration-error" or "ready"

ASSUME ReportingAssumption ==
    /\ Setting \in [Integration -> {"disabled", "configuration-error", "ready"}]
    /\ Outputs = [m \in Message |-> 1]
    /\ IsFiniteSet(Callback)

VARIABLES
    answer,     \* answer[c][i]: how callback c got on with integration i,
                \* until its report is made out
    notified,   \* notified[m][i]: messages or tickets that i has for m
    reports     \* reports[m]: what the published reports of m say of either

agentVars == <<answer, notified, reports>>
allVars == <<vars, agentVars>>

Answer == {"disabled", "configuration-error", "sent", "failed"}

(* What is known before any call. *)
Unasked == [i \in Integration |-> IF Setting[i] = "ready" THEN "none" ELSE Setting[i]]

AgentTypeOK ==
    /\ TypeOK
    /\ answer \in [Callback -> [Integration -> Answer \cup {"none"}]]
    /\ notified \in [Message -> [Integration -> Nat]]
    /\ reports \in [Message -> SUBSET [Integration -> Answer]]

AgentInit ==
    /\ Init
    /\ answer = [c \in Callback |-> Unasked]
    /\ notified = [m \in Message |-> [i \in Integration |-> 0]]
    /\ reports = [m \in Message |-> {}]

-----------------------------------------------------------------------------
(* process(), step by step *)

Handling(c) == pc[c] = "handling" /\ UNCHANGED <<vars, reports>>

(* Slack before Jira. *)
ItsTurn(c, i) ==
    /\ answer[c][i] = "none"
    /\ i = "jira" => answer[c]["slack"] # "none"

Told(c, i) == notified' = [notified EXCEPT ![msg[c]][i] = @ + 1]

Notify(c, i) ==
    /\ Handling(c) /\ ItsTurn(c, i)
    /\ Told(c, i)
    /\ answer' = [answer EXCEPT ![c][i] = "sent"]

(* Mistake: a call that fails is made again. *)
NotifyFailsAgain(c, i) ==
    /\ Handling(c) /\ ItsTurn(c, i)
    /\ UNCHANGED answer
    /\ Told(c, i)

(* Mistake: the result of the call is not looked at. *)
NotifyUnchecked(c, i) ==
    /\ Handling(c) /\ ItsTurn(c, i)
    /\ Told(c, i) \/ UNCHANGED notified
    /\ answer' = [answer EXCEPT ![c][i] = "sent"]

(* Secret, connection, status or answer: the message or the ticket may     *)
(* have been made.                                                         *)
NotifyFails(c, i) ==
    /\ Handling(c) /\ ItsTurn(c, i)
    /\ Told(c, i) \/ UNCHANGED notified
    /\ answer' = [answer EXCEPT ![c][i] = "failed"]

MakeReport(c) ==
    /\ \A i \in Integration : answer[c][i] # "none"
    /\ Process(c) /\ pc'[c] = "publishing"
    /\ UNCHANGED agentVars

(* The payload is no remediation result. *)
Invalid(c) ==
    /\ answer[c] = Unasked
    /\ Process(c) /\ pc'[c] = "failed"
    /\ UNCHANGED agentVars

-----------------------------------------------------------------------------
(* The runtime's steps *)

Forget(c) == answer' = [answer EXCEPT ![c] = Unasked]
Reported(c) == reports' = [reports EXCEPT ![msg[c]] = @ \cup {answer[c]}]

PublishReport(c) ==
    /\ Publish(c) /\ Reported(c) /\ Forget(c)
    /\ UNCHANGED notified

PublishReportError(c) ==
    /\ PublishError(c) /\ Forget(c)
    /\ \/ emitted' = emitted /\ UNCHANGED reports
       \/ 1 \in emitted'[msg[c]] /\ ~stopped /\ Reported(c)
    /\ UNCHANGED notified

(* A new process knows nothing of the calls of the old one. *)
StartAgain ==
    /\ Exit \/ Kill
    /\ answer' = [c \in Callback |-> Unasked]
    /\ UNCHANGED <<notified, reports>>

Quiet ==
    \/ Main \/ Signal \/ StreamBreaks
    \/ \E c \in Callback, m \in Message : Deliver(c, m)
    \/ \E m \in Message : DeadLetter(m)
    \/ \E c \in Callback : Ack(c) \/ Nack(c) \/ Leave(c)

AgentWork(c) ==
    \/ \E i \in Integration : Notify(c, i) \/ NotifyFails(c, i)
    \/ MakeReport(c) \/ Invalid(c) \/ PublishReport(c) \/ PublishReportError(c)

AgentNext ==
    \/ Quiet /\ UNCHANGED agentVars
    \/ StartAgain
    \/ \E c \in Callback : AgentWork(c)

AgentSpec == AgentInit /\ [][AgentNext]_allVars

FairAgentSpec == AgentSpec /\ Fairness

-----------------------------------------------------------------------------
(* Properties *)

(* safe_integration_call 570-584 and process 599-611: a failure that is    *)
(* swallowed is not lost.  Of a result that is acknowledged, each channel  *)
(* that is in use either has a message, or a published report says that it *)
(* failed; and no report claims a message that its channel never had.      *)
SilenceIsOnRecord ==
    /\ \A m \in Message, i \in Integration :
          status[m] = "acked" /\ Setting[i] = "ready" =>
              notified[m][i] > 0 \/ \E r \in reports[m] : r[i] = "failed"
    /\ \A m \in Message : \A r \in reports[m], i \in Integration :
          r[i] = "sent" => notified[m][i] > 0

(* send_slack 324-435, send_jira 466-567: a channel hears of a result as   *)
(* often as the message was delivered, at most: a failed call is not made  *)
(* again, and a restart of the pod repeats nothing by itself.              *)
NotifiedOnceADelivery ==
    \A m \in Message, i \in Integration : notified[m][i] <= attempts[m]
=============================================================================
