--------------------------- MODULE GatewayStream ---------------------------
(***************************************************************************)
(* RuntimeGateway as an implementation of ChatStream.  A history variable  *)
(* records, for every chat, the events of its connection that Dispatch has *)
(* looked at while the chat waited, those that it dropped included: what   *)
(* the chat was shown can then be compared with what it should have been   *)
(* shown.                                                                  *)
(***************************************************************************)
EXTENDS RuntimeGateway

VARIABLE sent

streamVars == <<vars, sent>>

\* The chats that wait for events.
Listening == {ch \in Chats : pc[ch] \in {"write", "range"}}

\* This step is the Dispatch of an event of ch's connection for ch's message.
Heard(ch) ==
  LET c == target[ch]
  IN /\ ch \in Listening
     /\ pc[c] = "lookup" /\ pc'[c] # "lookup"
     /\ evt[c].msg = ChatMsg[ch]

StreamInit == Init /\ sent = [ch \in Chats |-> <<>>]

StreamNext ==
  /\ Next
  /\ sent' = [ch \in Chats |->
                IF Heard(ch) THEN Append(sent[ch], evt[target[ch]]) ELSE sent[ch]]

StreamSpec == StreamInit /\ [][StreamNext]_streamVars

\* The chats whose handlers have left the loop over the events.
Over == {ch \in Chats : pc[ch] \notin {"send", "write", "range"}}

\* The connections that were refused, or were registered and no longer are.
Gone == {c \in Conns : /\ pc[c] \notin {"hello", "register"}
                       /\ runtimes[ConnAgent[c]] # c}

Stream == INSTANCE ChatStream
            WITH MsgOf <- ChatMsg, conn <- target, seen <- got, over <- Over,
                 gone <- Gone

\* Whatever connections, runtimes and browsers do, a browser is shown the events
\* of the connection its task was written to, in the order in which they were
\* read, without a gap or a repetition, up to the first terminal one; the
\* registry's error is shown only after that connection is no longer registered
\* (Dispatch and deliver against Register, Unregister, failWaitersLocked,
\* removeWaiter and the chat's own loop).
StreamsInOrder == Stream!Spec
=============================================================================
