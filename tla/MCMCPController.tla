--------------------------- MODULE MCMCPController ---------------------------
(***************************************************************************)
(* Instance of MCPController for TLC: two specs that differ in every       *)
(* field, with and without defaults, and one that does not convert.        *)
(***************************************************************************)
EXTENDS MCPController, TLC

CONSTANTS s1, s2, bad

SpecOf ==
    s1 :> [converts |-> TRUE, image |-> "i1", port |-> 1, env |-> {}, replicas |-> 0,
           cidrs |-> {}]
    @@ s2 :> [converts |-> TRUE, image |-> "i2", port |-> 2, env |-> {"e"},
              replicas |-> 2, cidrs |-> {"10.0.0.0/8"}]
    @@ bad :> [converts |-> FALSE, image |-> "i1", port |-> 1, env |-> {},
               replicas |-> 0, cidrs |-> {}]
=============================================================================
