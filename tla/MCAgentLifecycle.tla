-------------------------- MODULE MCAgentLifecycle --------------------------
(***************************************************************************)
(* Instances of AgentLifecycle for TLC: which requests are made.           *)
(***************************************************************************)
EXTENDS AgentLifecycle, TLC

CONSTANTS s1, s2, p1, d1, c1, c2

\* Two starts, a stop and a delete.
AllKinds == s1 :> "start" @@ s2 :> "start" @@ p1 :> "stop" @@ d1 :> "delete"
TwoStarts == s1 :> "start" @@ s2 :> "start"
StartsAndStop == s1 :> "start" @@ s2 :> "start" @@ p1 :> "stop"
StartAndStop == s1 :> "start" @@ p1 :> "stop"
=============================================================================
