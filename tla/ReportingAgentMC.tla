--------------------------- MODULE ReportingAgentMC ---------------------------
(* TLC instance of ReportingAgent, and with it of AgentRuntime. *)
EXTENDS ReportingAgent, TLC
CONSTANT m1

(* One message, one report; both integrations in use. *)
One == m1 :> 1
InUse == "slack" :> "ready" @@ "jira" :> "ready"
=============================================================================
