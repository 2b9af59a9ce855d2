-------------------------- MODULE MCRuntimeGateway --------------------------
(***************************************************************************)
(* Instances of RuntimeGateway for TLC: which agent each connection and    *)
(* each chat is for, and which message id each chat uses.                  *)
(***************************************************************************)
EXTENDS RuntimeGateway, TLC

CONSTANTS a1, a2, m1, m2, c1, c2, h1, h2

\* One of each.
OneConn == c1 :> a1
OneChat == h1 :> a1
OneMessage == h1 :> m1

\* Two connections of one agent, so that one replaces the other.
TwoOfOneAgent == c1 :> a1 @@ c2 :> a1

\* Two chats of that agent, with the same message id or distinct ones.
ChatsOfOneAgent == h1 :> a1 @@ h2 :> a1
SameMessage == h1 :> m1 @@ h2 :> m1
DistinctMessages == h1 :> m1 @@ h2 :> m2

\* The two connections, and the two chats of one key, can be exchanged.
TwinSymmetry == Permutations({c1, c2}) \cup Permutations({h1, h2})
=============================================================================
