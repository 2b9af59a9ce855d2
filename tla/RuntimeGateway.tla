--------------------------- MODULE RuntimeGateway ---------------------------
(***************************************************************************)
(* The in-memory gateway between browsers and agent runtimes:              *)
(* internal/gateway/registry.go together with its two callers in           *)
(* internal/api/server.go, handleWebSocket (one goroutine per browser      *)
(* chat) and handleRuntimeWebSocket (one goroutine per runtime             *)
(* connection).                                                            *)
(*                                                                         *)
(* A critical section that cannot block is one action guarded by mu =      *)
(* None.  failWaitersLocked can block while it holds the registry's lock,  *)
(* so it is several actions and mu records its holder.  A chat owns at     *)
(* most one waiter, and the waiter is named by its chat.                   *)
(***************************************************************************)
EXTENDS Naturals, Sequences

CONSTANTS
  Agents, MsgIDs,
  Conns,          \* runtime websocket connections, each with its handler
  Chats,          \* browser websocket requests, each with its handler
  ConnAgent,      \* ConnAgent[c]: the agent named by c's runtime.hello
  ChatAgent,      \* ChatAgent[ch]: the agent_id of the browser's request
  ChatMsg,        \* ChatMsg[ch]: its message_id (chosen by the browser)
  Cap,            \* capacity of waiter.events (16 in newWaiter)
  MaxStray,       \* bound: events runtimes send beyond one answer per task
  BrowserLeaves,  \* whether a write to a browser may fail
  RuntimesObey,   \* whether runtimes only send events of tasks they received
  None            \* Go's nil; as an event's source, the registry itself

ASSUME ConstantsAssumption ==
  /\ ConnAgent \in [Conns -> Agents]
  /\ ChatAgent \in [Chats -> Agents]
  /\ ChatMsg \in [Chats -> MsgIDs]
  /\ Cap \in Nat \ {0}
  /\ MaxStray \in Nat
  /\ BrowserLeaves \in BOOLEAN
  /\ RuntimesObey \in BOOLEAN
  /\ Conns \cap Chats = {}
  /\ None \notin Conns \cup Chats

VARIABLES
  mu,        \* the handler that holds RuntimeRegistry.mu across steps, or None
  runtimes,  \* RuntimeRegistry.runtimes
  waiters,   \* RuntimeRegistry.waiters, keyed by agent and message id
  events,    \* waiter.events, the buffered channel
  done,      \* whether waiter.done is closed
  wmu,       \* the handler that holds waiter.mu, or None
  pc,        \* where each handler is
  at,        \* the waiter a handler is working on
  evt,       \* the event a connection's handler is dispatching
  target,    \* the connection SendTask captured for a chat
  closed,    \* connections the server has closed
  owed,      \* tasks a runtime has received and not answered
  stray,     \* number of stray events sent so far
  got        \* history: what each browser was sent

vars == <<mu, runtimes, waiters, events, done, wmu, pc, at, evt, target,
          closed, owed, stray, got>>

Procs == Conns \cup Chats
Keys == Agents \X MsgIDs
Key(ch) == <<ChatAgent[ch], ChatMsg[ch]>>

\* An envelope: its message id, whether it is terminal (message.done and
\* message.error, which the code treats alike), and the connection it was read
\* from.
Event == [msg : MsgIDs, terminal : BOOLEAN, from : Conns \cup {None}]

(***************************************************************************)
(* handleRuntimeWebSocket: hello, register, read loop, unregister, closed. *)
(*   failing, failLock, fail     failWaitersLocked and waiter.fail         *)
(*   lookup, deliverLock, deliver  Dispatch and waiter.deliver             *)
(* handleWebSocket: send and write are SendTask, range is the loop over    *)
(* the events, end is the handler's return.                                *)
(*   remove, cancel              removeWaiter, in both handlers            *)
(***************************************************************************)
ConnPC == {"hello", "register", "failing", "failLock", "fail", "read",
           "lookup", "deliverLock", "deliver", "remove", "cancel",
           "unregister", "closed"}
ChatPC == {"send", "write", "range", "remove", "cancel", "end"}

Init ==
  /\ mu = None
  /\ runtimes = [a \in Agents |-> None]
  /\ waiters = [k \in Keys |-> None]
  /\ events = [ch \in Chats |-> <<>>]
  /\ done = [ch \in Chats |-> FALSE]
  /\ wmu = [ch \in Chats |-> None]
  /\ pc = [p \in Procs |-> IF p \in Conns THEN "hello" ELSE "send"]
  /\ at = [p \in Procs |-> None]
  /\ evt = [c \in Conns |-> None]
  /\ target = [ch \in Chats |-> None]
  /\ closed = {}
  /\ owed = [c \in Conns |-> {}]
  /\ stray = 0
  /\ got = [ch \in Chats |-> <<>>]

Goto(p, l) == pc' = [pc EXCEPT ![p] = l]

\* The registered runtime of c's agent is c itself: the conn comparison of
\* Unregister and of Dispatch.  Mutants: the comparison is dropped; the current
\* connection is taken for a replaced one.
NoConnComparison(c) == TRUE
NeverCurrent(c) == FALSE
IsCurrent(c) == runtimes[ConnAgent[c]] = c

\* A send on the buffered channel does not block.  Mutant: off by one.
RoomForOneTooMany(w) == Len(events[w]) <= Cap
HasRoom(w) == Len(events[w]) < Cap

\* The other case of the two selects: the waiter is cancelled.  Mutant: deliver's
\* select has a default case, so it gives up on a full channel.
DefaultCase(w) == done[w] \/ Len(events[w]) = Cap
GivesUp(w) == done[w]

\* The range of failWaitersLocked is over.  Mutant: it stops early.
StopsEarly(a) == TRUE
AllFailed(a) == \A m \in MsgIDs : waiters[<<a, m>>] = None

\* Dispatch removes the waiter of a delivered terminal event.  Mutant: of any.
AnyEvent(e) == TRUE
RemovesWaiter(e) == e.terminal

\* The chat's loop returns after a terminal event.  Mutant: after any event.
AfterOneEvent(e) == TRUE
EndsChat(e) == e.terminal

-----------------------------------------------------------------------------
(* The runtime connection's handler *)

\* The hello is read and validRuntimeToken decides; a rejected connection is
\* closed by the handler's deferred conn.Close.
Hello(c) ==
  /\ pc[c] = "hello"
  /\ \/ Goto(c, "register") /\ UNCHANGED closed
     \/ Goto(c, "closed") /\ closed' = closed \cup {c}
  /\ UNCHANGED <<mu, runtimes, waiters, events, done, wmu, at, evt, target,
                 owed, stray, got>>

Register(c) ==
  LET a == ConnAgent[c]
      previous == runtimes[a]
  IN /\ pc[c] = "register"
     /\ mu = None
     /\ runtimes' = [runtimes EXCEPT ![a] = c]
     /\ IF previous # None
          THEN /\ closed' = closed \cup {previous}
               /\ mu' = c
               /\ Goto(c, "failing")
          ELSE Goto(c, "read") /\ UNCHANGED <<mu, closed>>
     /\ UNCHANGED <<waiters, events, done, wmu, at, evt, target, owed, stray,
                    got>>

\* The read loop's error return runs the deferred Unregister.
Unregister(c) ==
  LET a == ConnAgent[c]
  IN /\ pc[c] = "unregister"
     /\ mu = None
     /\ IF IsCurrent(c)
          THEN /\ runtimes' = [runtimes EXCEPT ![a] = None]
               /\ mu' = c
               /\ Goto(c, "failing")
               /\ UNCHANGED closed
          ELSE /\ Goto(c, "closed")
               /\ closed' = closed \cup {c}
               /\ UNCHANGED <<runtimes, mu>>
     /\ UNCHANGED <<waiters, events, done, wmu, at, evt, target, owed, stray,
                    got>>

\* failWaitersLocked: the range over the map takes the agent's waiters in any
\* order, deletes each and calls w.fail.
FailNext(c, m) ==
  LET k == <<ConnAgent[c], m>>
  IN /\ pc[c] = "failing"
     /\ waiters[k] # None
     /\ at' = [at EXCEPT ![c] = waiters[k]]
     /\ waiters' = [waiters EXCEPT ![k] = None]
     /\ Goto(c, "failLock")
     /\ UNCHANGED <<mu, runtimes, events, done, wmu, evt, target, closed, owed,
                    stray, got>>

FailLock(c) ==
  /\ pc[c] = "failLock"
  /\ wmu[at[c]] = None
  /\ wmu' = [wmu EXCEPT ![at[c]] = c]
  /\ Goto(c, "fail")
  /\ UNCHANGED <<mu, runtimes, waiters, events, done, at, evt, target, closed,
                 owed, stray, got>>

\* waiter.fail's select: either ready case may be taken, and with neither
\* ready the handler blocks here, holding mu and w.mu.
Fail(c) ==
  LET w == at[c]
      error == [msg |-> ChatMsg[w], terminal |-> TRUE, from |-> None]
  IN /\ pc[c] = "fail"
     /\ \/ GivesUp(w) /\ UNCHANGED <<events, done>>
        \/ /\ HasRoom(w)
           /\ events' = [events EXCEPT ![w] = Append(@, error)]
           /\ done' = [done EXCEPT ![w] = TRUE]
     /\ wmu' = [wmu EXCEPT ![w] = None]
     /\ at' = [at EXCEPT ![c] = None]
     /\ Goto(c, "failing")
     /\ UNCHANGED <<mu, runtimes, waiters, evt, target, closed, owed, stray,
                    got>>

\* No waiter of the agent is left: mu is released.  After Register the handler
\* reads on; after Unregister it closes its connection and returns.
FailEnd(c) ==
  LET a == ConnAgent[c]
  IN /\ pc[c] = "failing"
     /\ AllFailed(a)
     /\ mu' = None
     /\ IF runtimes[a] = c    \* called by Register, not by Unregister
          THEN Goto(c, "read") /\ UNCHANGED closed
          ELSE Goto(c, "closed") /\ closed' = closed \cup {c}
     /\ UNCHANGED <<runtimes, waiters, events, done, wmu, at, evt, target, owed,
                    stray, got>>

\* ReadJSON returns an event.  The runtime is external: unless RuntimesObey it
\* may name any agent and any message, and frames already buffered are read
\* from a connection that was closed meanwhile.  Dispatch drops an event that
\* names another agent before it takes the lock.
Read(c, agent, m, terminal) ==
  /\ pc[c] = "read"
  /\ IF terminal /\ agent = ConnAgent[c] /\ m \in owed[c]
       THEN owed' = [owed EXCEPT ![c] = @ \ {m}] /\ UNCHANGED stray
       ELSE /\ stray < MaxStray
            /\ RuntimesObey => agent = ConnAgent[c] /\ m \in owed[c]
            /\ stray' = stray + 1
            /\ UNCHANGED owed
  /\ IF agent = ConnAgent[c]
       THEN /\ evt' = [evt EXCEPT ![c] =
                         [msg |-> m, terminal |-> terminal, from |-> c]]
            /\ Goto(c, "lookup")
       ELSE UNCHANGED <<evt, pc>>
  /\ UNCHANGED <<mu, runtimes, waiters, events, done, wmu, at, target, closed,
                 got>>

\* ReadJSON fails: the peer left, the network broke or Register closed c.
ReadError(c) ==
  /\ pc[c] = "read"
  /\ Goto(c, "unregister")
  /\ UNCHANGED <<mu, runtimes, waiters, events, done, wmu, at, evt, target,
                 closed, owed, stray, got>>

\* Dispatch's critical section: a snapshot of the runtime and of the waiter.
Dispatch(c) ==
  LET a == ConnAgent[c]
      w == waiters[<<a, evt[c].msg>>]
  IN /\ pc[c] = "lookup"
     /\ mu = None
     /\ IF IsCurrent(c) /\ w # None
          THEN /\ Goto(c, "deliverLock")
               /\ at' = [at EXCEPT ![c] = w]
               /\ UNCHANGED evt
          ELSE /\ Goto(c, "read")
               /\ evt' = [evt EXCEPT ![c] = None]
               /\ UNCHANGED at
     /\ UNCHANGED <<mu, runtimes, waiters, events, done, wmu, target, closed,
                    owed, stray, got>>

DeliverLock(c) ==
  /\ pc[c] = "deliverLock"
  /\ wmu[at[c]] = None
  /\ wmu' = [wmu EXCEPT ![at[c]] = c]
  /\ Goto(c, "deliver")
  /\ UNCHANGED <<mu, runtimes, waiters, events, done, at, evt, target, closed,
                 owed, stray, got>>

\* waiter.deliver's select: blocks, holding w.mu, until there is room or the
\* waiter is cancelled.  Only a delivered terminal event removes the waiter.
Deliver(c) ==
  LET w == at[c]
  IN /\ pc[c] = "deliver"
     /\ \/ /\ GivesUp(w)
           /\ Goto(c, "read")
           /\ evt' = [evt EXCEPT ![c] = None]
           /\ UNCHANGED events
        \/ /\ HasRoom(w)
           /\ events' = [events EXCEPT ![w] = Append(@, evt[c])]
           /\ IF RemovesWaiter(evt[c])
                THEN Goto(c, "remove") /\ UNCHANGED evt
                ELSE Goto(c, "read") /\ evt' = [evt EXCEPT ![c] = None]
     /\ wmu' = [wmu EXCEPT ![w] = None]
     /\ at' = [at EXCEPT ![c] = None]
     /\ UNCHANGED <<mu, runtimes, waiters, done, target, closed, owed, stray,
                    got>>

-----------------------------------------------------------------------------
(* removeWaiter, used by Dispatch and by the chat's cancel function *)

RemovalKey(p) ==
  IF p \in Chats THEN Key(p) ELSE <<ConnAgent[p], evt[p].msg>>

AfterRemoval(p) == IF p \in Chats THEN "end" ELSE "read"

\* The critical section: whatever waiter the key names now is taken out.
RemoveWaiter(p) ==
  LET k == RemovalKey(p)
      w == waiters[k]
  IN /\ pc[p] = "remove"
     /\ mu = None
     /\ waiters' = [waiters EXCEPT ![k] = None]
     /\ at' = [at EXCEPT ![p] = w]
     /\ Goto(p, IF w = None THEN AfterRemoval(p) ELSE "cancel")
     /\ evt' = IF p \in Conns THEN [evt EXCEPT ![p] = None] ELSE evt
     /\ UNCHANGED <<mu, runtimes, events, done, wmu, target, closed, owed, stray,
                    got>>

\* w.cancel(), after the lock is released.
Cancel(p) ==
  /\ pc[p] = "cancel"
  /\ done' = [done EXCEPT ![at[p]] = TRUE]
  /\ at' = [at EXCEPT ![p] = None]
  /\ Goto(p, AfterRemoval(p))
  /\ UNCHANGED <<mu, runtimes, waiters, events, wmu, evt, target, closed, owed,
                 stray, got>>

-----------------------------------------------------------------------------
(* The browser chat's handler *)

\* SendTask's critical section; with no runtime the browser is told so.
SendTask(ch) ==
  LET runtime == runtimes[ChatAgent[ch]]
  IN /\ pc[ch] = "send"
     /\ mu = None
     /\ IF runtime = None
          THEN Goto(ch, "end") /\ UNCHANGED <<waiters, target>>
          ELSE /\ waiters' = [waiters EXCEPT ![Key(ch)] = ch]
               /\ target' = [target EXCEPT ![ch] = runtime]
               /\ Goto(ch, "write")
     /\ UNCHANGED <<mu, runtimes, events, done, wmu, at, evt, closed, owed,
                    stray, got>>

\* WriteJSON to the captured connection, outside the lock.
WriteTask(ch) ==
  /\ pc[ch] = "write"
  /\ \/ /\ target[ch] \notin closed
        /\ owed' = [owed EXCEPT ![target[ch]] = @ \cup {ChatMsg[ch]}]
        /\ Goto(ch, "range")
     \/ Goto(ch, "remove") /\ UNCHANGED owed
  /\ UNCHANGED <<mu, runtimes, waiters, events, done, wmu, at, evt, target,
                 closed, stray, got>>

\* One turn of the loop over the events: receive and write to the browser.
Forward(ch) ==
  LET e == Head(events[ch])
  IN /\ pc[ch] = "range"
     /\ events[ch] # <<>>
     /\ events' = [events EXCEPT ![ch] = Tail(@)]
     /\ \/ /\ got' = [got EXCEPT ![ch] = Append(@, e)]
           /\ Goto(ch, IF EndsChat(e) THEN "remove" ELSE "range")
        \/ /\ BrowserLeaves
           /\ Goto(ch, "remove")
           /\ UNCHANGED got
     /\ UNCHANGED <<mu, runtimes, waiters, done, wmu, at, evt, target, closed,
                    owed, stray>>

-----------------------------------------------------------------------------
\* What a connection's handler does by itself, given the locks.
ConnStep(c) ==
  \/ Register(c) \/ Unregister(c)
  \/ \E m \in MsgIDs : FailNext(c, m)
  \/ FailLock(c) \/ Fail(c) \/ FailEnd(c)
  \/ Dispatch(c) \/ DeliverLock(c) \/ Deliver(c)
  \/ RemoveWaiter(c) \/ Cancel(c)

ChatStep(ch) ==
  SendTask(ch) \/ WriteTask(ch) \/ Forward(ch) \/ RemoveWaiter(ch) \/ Cancel(ch)

\* What the runtime at the other end does.
RuntimeStep(c) ==
  \/ Hello(c)
  \/ \E agent \in Agents, m \in MsgIDs, terminal \in BOOLEAN :
       Read(c, agent, m, terminal)
  \/ ReadError(c)

Next ==
  \/ \E c \in Conns : ConnStep(c) \/ RuntimeStep(c)
  \/ \E ch \in Chats : ChatStep(ch)

Spec == Init /\ [][Next]_vars

\* What the connection's other end is bound to do: a runtime ends every task
\* it received with message.done or message.error unless its connection fails
\* first (cmd/shclop-runtime synthesises the error when its adapter sends
\* none), and the read of a closed connection fails.
Answer(c) ==
  \/ \E m \in owed[c] : Read(c, ConnAgent[c], m, TRUE)
  \/ c \in closed /\ ReadError(c)

\* Goroutines run, and sync.Mutex hands the lock to a goroutine that has waited
\* long: a step that is enabled again and again is taken.
Fairness ==
  /\ \A c \in Conns : SF_vars(ConnStep(c) \/ Answer(c))
  /\ \A ch \in Chats : SF_vars(ChatStep(ch))

FairSpec == Spec /\ Fairness

-----------------------------------------------------------------------------
(* Properties *)

\* Every value stays in the domain the Go types give it, and a channel never
\* holds more than its capacity.
TypeOK ==
  /\ mu \in Conns \cup {None}
  /\ runtimes \in [Agents -> Conns \cup {None}]
  /\ waiters \in [Keys -> Chats \cup {None}]
  /\ events \in [Chats -> Seq(Event)]
  /\ \A ch \in Chats : Len(events[ch]) <= Cap
  /\ done \in [Chats -> BOOLEAN]
  /\ wmu \in [Chats -> Conns \cup {None}]
  /\ pc \in [Procs -> ConnPC \cup ChatPC]
  /\ at \in [Procs -> Chats \cup {None}]
  /\ evt \in [Conns -> Event \cup {None}]
  /\ target \in [Chats -> Conns \cup {None}]
  /\ closed \in SUBSET Conns
  /\ owed \in [Conns -> SUBSET MsgIDs]
  /\ stray \in 0..MaxStray
  /\ got \in [Chats -> Seq(Event)]
  /\ \A c \in Conns : pc[c] \in ConnPC
  /\ \A ch \in Chats : pc[ch] \in ChatPC

Answers(ch, e) == e.msg = ChatMsg[ch] /\ e.from \in {target[ch], None}

\* What a browser is sent, or has waiting, answers its own message and comes
\* from the very connection its task was written to, or is the registry's own
\* error: no event of another agent, another message or a connection that
\* replaced the one the task went to (Dispatch's checks on agent, connection
\* and waiter, against Register and SendTask running concurrently).
AnswersComeFromTaskConnection ==
  \A ch \in Chats :
    /\ \A i \in DOMAIN got[ch] : Answers(ch, got[ch][i])
    /\ \A i \in DOMAIN events[ch] : Answers(ch, events[ch][i])

\* A waiter in the map waits for the connection registered now, except while
\* the handler that changed the registration is still failing the agent's
\* waiters under the lock (Register, Unregister and failWaitersLocked).
WaitersMatchRuntime ==
  \A k \in Keys : waiters[k] # None =>
    \/ target[waiters[k]] = runtimes[k[1]]
    \/ mu # None /\ ConnAgent[mu] = k[1]

\* The registered connection belongs to the agent and has not been closed by
\* the server (Register closes what it replaces, a handler unregisters before
\* it closes).
RegisteredIsOpen ==
  \A a \in Agents : runtimes[a] # None =>
    ConnAgent[runtimes[a]] = a /\ runtimes[a] \notin closed

\* The chats whose key no other chat has put a waiter under.
Unshared ==
  {ch \in Chats : \A other \in Chats \ {ch} :
                    Key(other) = Key(ch) => target[other] = None}

\* A chat that waits for events is in the map, or is being failed by a handler
\* that took it out, or has its terminal event in the channel: whoever removes
\* or fails a waiter leaves its chat something that ends it.  Only a chat that
\* shares its agent and message id with another chat may be forgotten, because
\* SendTask overwrites the waiter of an equal key and removeWaiter takes out
\* whichever of the two the map holds.
NoChatForgotten ==
  \A ch \in Unshared : pc[ch] \in {"write", "range"} =>
    \/ waiters[Key(ch)] = ch
    \/ \E i \in DOMAIN events[ch] : events[ch][i].terminal
    \/ \E c \in Conns : pc[c] \in {"failLock", "fail"} /\ at[c] = ch

\* A registration ends only by a newer connection's Register or by the
\* registered connection's own exit: the late exit of a replaced connection
\* never evicts its replacement (Unregister's conn comparison).
StaleExitIsHarmless ==
  [][\A a \in Agents : runtimes[a] # None /\ runtimes'[a] # runtimes[a] =>
       IF runtimes'[a] = None THEN pc[runtimes[a]] = "unregister"
                              ELSE pc[runtimes'[a]] = "register"]_vars

\* Every chat's handler returns: it is told that no runtime is connected, gets
\* its terminal event, or is failed when the connection goes.
EveryChatEnds == <>(\A ch \in Chats : pc[ch] = "end")

\* A pending waiter is completed when its runtime's connection is replaced or
\* unregistered: failWaitersLocked terminates and the registry's lock is freed.
UnregisterCompletesPendingWaiters == (mu # None) ~> (mu = None)
=============================================================================
