--------------------------- MODULE EventAggregatorMC ---------------------------
(***************************************************************************)
(* TLC instances of EventAggregator: the events each producer sends, the   *)
(* way the deployment has them come in, and the reports a scan leaves.     *)
(***************************************************************************)
EXTENDS EventAggregator, TLC

CONSTANTS h1, h2, p1, e1, f1

Named(field, name) == {<<field, name>>}
Workload == {<<"namespace", <<"app01">> >>, <<"pod", <<"broken", "app", "7d9f", "xk2lp">> >>}
Host == {<<"namespace", Null>>, <<"pod", Null>>, <<"image", Null>>}
Cluster == {<<"namespace", <<"app01">> >>, <<"pod", Null>>}
Image == Named("image", <<"app:v1">>)

(* Terraform's SCC notification and log sink set no source; the MCP server *)
(* calls itself "mcp-audit".                                               *)
SccEvent == RawEvent("security-command-center", "", "object", {"finding"},
                     << <<Item("scc-1", "finding", "HIGH", TRUE, Named("resource", <<"vm">>))>> >>)
LogEvent == RawEvent("cloud-logging", "", "object", {"logName"},
                     << <<Item("log-1", "entry", "WARNING", TRUE, Workload)>> >>)
AuditEvent == RawEvent("mcp-server", "mcp-audit", "object", {"mcp", "tool"},
                       << <<Item("mcp-1", "restart_deployment", "MEDIUM", TRUE,
                                 {<<"namespace", <<"app01">> >>, <<"deployment", <<"app">> >>})>> >>)
BrokenEvent == [SccEvent EXCEPT !.malformed = TRUE]

FalcoEvent(asset) == RawEvent("falco", "falco", "object", {"rule", "priority"},
                              << <<Item("falco-1", "rule", "NOTICE", FALSE, asset)>> >>)

(* A list of reports: an image with nothing to report, and one with more   *)
(* findings than the event may still yield, one of them without id.        *)
Summary(name) == Item(name, "summary", "", FALSE, Image)
TrivyUpload ==
    << RawEvent("trivy", "trivy", "list", {"SchemaVersion", "Results"},
                << <<Summary("sum-1")>>,
                   << Item("cve-1", "misconfiguration", "LOW", FALSE, Image),
                      Item("cve-2", "vulnerability", "CRITICAL", TRUE, Image),
                      Summary("sum-2") >> >>) >>

Check(name, kind) == Item(name, kind, "MEDIUM", TRUE, Named("resource", <<"bucket">>))
ProwlerUpload ==
    << RawEvent("prowler", "prowler", "list", {"finding_info"},
                << << Check("check-1", "failed"), Check("check-2", "passed"),
                      Check("check-3", "failed") >> >>) >>

ThePods == [h \in {h1, h2} |-> p1]
NoEvents == [e \in {} |-> BrokenEvent]
Input(events, reports) == [sent |-> events, upload |-> reports]

(* An event of each kind, a webhook event beside a pulled one, or a scan.  *)
SmallInputs ==
    {Input(e1 :> r, <<>>) : r \in {SccEvent, LogEvent, AuditEvent, BrokenEvent}}
    \cup {Input((e1 :> LogEvent) @@ (f1 :> FalcoEvent(a)), <<>>) : a \in {Workload, Host, Cluster}}
    \cup {Input(NoEvents, u) : u \in {TrivyUpload, ProwlerUpload}}
Spelling == "Falco" :> "falco"
=============================================================================
