----------------------------- MODULE ChatStream -----------------------------
(***************************************************************************)
(* What the gateway promises a browser chat, without locks, maps and       *)
(* channels: a chat is bound to one connection and is shown that           *)
(* connection's events for its message in the order in which they were     *)
(* sent, none twice and none left out, up to the first terminal one; the   *)
(* gateway adds an error of its own only when the connection is gone, and  *)
(* that ends the chat too.                                                 *)
(***************************************************************************)
EXTENDS Naturals, Sequences

CONSTANTS Conns, Chats,
          MsgOf,   \* MsgOf[ch]: the message the chat asks about
          Event,   \* records with a message id, a terminal flag and a source
          None

VARIABLES
  conn,  \* the connection a chat is bound to, or None
  sent,  \* what that connection has sent about the chat's message
  seen,  \* what the chat has been shown
  over,  \* chats that have ended
  gone   \* connections that are no longer registered

svars == <<conn, sent, seen, over, gone>>

Init ==
  /\ conn = [ch \in Chats |-> None]
  /\ sent = [ch \in Chats |-> <<>>]
  /\ seen = [ch \in Chats |-> <<>>]
  /\ over = {}
  /\ gone = {}

\* A chat is bound once, to a connection that is still there.
Open(ch, c) ==
  /\ ch \notin over
  /\ conn[ch] = None
  /\ c \notin gone
  /\ conn' = [conn EXCEPT ![ch] = c]
  /\ UNCHANGED <<sent, seen, over, gone>>

\* A connection's event is meant for the chats bound to it that ask about its
\* message.
Say(c, e) ==
  /\ e.from = c
  /\ sent' = [ch \in Chats |->
                IF ch \notin over /\ conn[ch] = c /\ MsgOf[ch] = e.msg
                  THEN Append(sent[ch], e) ELSE sent[ch]]
  /\ UNCHANGED <<conn, seen, over, gone>>

\* A chat is shown an event and ends with a terminal one.
Show(ch, e) ==
  /\ ch \notin over
  /\ seen' = [seen EXCEPT ![ch] = Append(@, e)]
  /\ over' = IF e.terminal THEN over \cup {ch} ELSE over
  /\ UNCHANGED <<conn, sent, gone>>

\* The next event that its connection has sent.
See(ch) ==
  /\ Len(seen[ch]) < Len(sent[ch])
  /\ Show(ch, sent[ch][Len(seen[ch]) + 1])

\* The gateway's own error.
Break(ch) ==
  /\ conn[ch] \in gone
  /\ Show(ch, [msg |-> MsgOf[ch], terminal |-> TRUE, from |-> None])

\* No connection to bind to, a task that cannot be written, or a browser that
\* leaves.
Leave(ch) ==
  /\ ch \notin over
  /\ over' = over \cup {ch}
  /\ UNCHANGED <<conn, sent, seen, gone>>

\* A connection is refused, replaced or lost.
Lose(c) ==
  /\ gone' = gone \cup {c}
  /\ UNCHANGED <<conn, sent, seen, over>>

Next ==
  \/ \E ch \in Chats, c \in Conns : Open(ch, c)
  \/ \E c \in Conns, e \in Event : Say(c, e)
  \/ \E ch \in Chats : See(ch) \/ Break(ch) \/ Leave(ch)
  \/ \E c \in Conns : Lose(c)

Spec == Init /\ [][Next]_svars
=============================================================================
