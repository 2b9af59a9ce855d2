--------------------------- MODULE MCIntegrations ---------------------------
(***************************************************************************)
(* Instance of Integrations for TLC: a user's agent, an administrator and  *)
(* one provider of each kind.                                              *)
(***************************************************************************)
EXTENDS Integrations, TLC

CONSTANTS u1, u2, a1, p1, p2

RoleOf == u1 :> "user" @@ u2 :> "admin"
OwnerOf == a1 :> u1
Manifests ==
    p1 :> [kind |-> "http_template", success |-> {200}, uses |-> {"token"}, mcp |-> {}]
    @@ p2 :> [kind |-> "sidecar", success |-> {}, uses |-> {},
              mcp |-> {[uses |-> {"token"}, external |-> FALSE],
                       [uses |-> {}, external |-> TRUE]}]

Symmetry == Permutations(Reqs) \cup Permutations(Keys)
=============================================================================
