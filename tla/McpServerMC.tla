------------------------------ MODULE McpServerMC ------------------------------
(***************************************************************************)
(* TLC instance of McpServer: two calls out of the requests that differ    *)
(* for the code.                                                           *)
(***************************************************************************)
EXTENDS McpServer, TLC

CONSTANTS c1, c2

Request(tool, fails) == [tool |-> tool, fails |-> fails]

(* Each check failing by itself, a request without body failing the rest   *)
(* as well, and good requests of each tool.                                *)
SomeRequests ==
    {Request("restart_deployment", {k}) : k \in Check}
    \cup {Request("restart_deployment", {"body", "name", "approval", "source", "fields"})}
    \cup {Request(tool, {}) : tool \in Tool}
    \cup {Request("get_logs", {"target"}), Request("get_pods", {"body"})}

Symmetry == Permutations({c1, c2})
=============================================================================
