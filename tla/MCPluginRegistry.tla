-------------------------- MODULE MCPluginRegistry --------------------------
(***************************************************************************)
(* Instance of PluginRegistry for TLC: four documents.                     *)
(***************************************************************************)
EXTENDS PluginRegistry, TLC

CONSTANTS a1, a2, b1, bad

HttpDoc(id) ==
    [unmarshals |-> TRUE, apiVersion |-> "shclop.io/v1alpha1",
     kind |-> "IntegrationPlugin", id |-> id, pluginKind |-> "http_template",
     scopes |-> {}, auth |-> "pat_token", fields |-> {"token"},
     http |-> [method |-> "GET", url |-> "u", success |-> {200}],
     sidecar |-> None, mcp |-> {}, templatesParse |-> TRUE]

SidecarDoc(id) ==
    [HttpDoc(id) EXCEPT !.pluginKind = "sidecar", !.http = None,
                        !.sidecar = "u", !.scopes = {"org"},
        !.mcp = {[name |-> "m", ref |-> "r", external |-> None]}]

\* A server that is both in the cluster and external.
AmbiguousDoc(id) ==
    [HttpDoc(id) EXCEPT
        !.mcp = {[name |-> "m", ref |-> "r", external |-> "u"]}]

Docs == a1 :> HttpDoc("a") @@ a2 :> SidecarDoc("a") @@ b1 :> HttpDoc("b")
        @@ bad :> AmbiguousDoc("a")
=============================================================================
