------------------------ MODULE RuntimeGatewayProofs ------------------------
(***************************************************************************)
(* Proofs about RuntimeGateway, for any number of agents, connections and  *)
(* chats, any channel capacity and any message ids; the last part shows    *)
(* that it implements ChatStream under the mapping of GatewayStream.       *)
(***************************************************************************)
EXTENDS GatewayStream, TLAPS

USE ConstantsAssumption

\* A handler that is about to use a waiter or an event has one in hand.
InHand ==
  /\ \A c \in Conns : pc[c] \in {"failLock", "fail", "deliverLock", "deliver"}
                        => at[c] \in Chats
  /\ \A p \in Procs : pc[p] = "cancel" => at[p] \in Chats
  /\ \A c \in Conns : pc[c] \in {"lookup", "deliverLock", "deliver", "remove"}
                        => evt[c] \in Event /\ evt[c].from = c

\* Only handlers inside failWaitersLocked hold mu across steps.
LockHolder ==
  \A c \in Conns : (mu = c) <=> (pc[c] \in {"failing", "failLock", "fail"})

\* A chat that has not called SendTask has captured no connection.
Unsent == \A ch \in Chats : pc[ch] = "send" => target[ch] = None

\* A waiter in the map sits under its own chat's key, and its chat has sent.
WaiterKeys ==
  \A k \in Keys : waiters[k] # None =>
    /\ Key(waiters[k]) = k
    /\ target[waiters[k]] # None

\* The waiter a connection delivers to waits for that connection and for the
\* message in hand.
DeliverTarget ==
  \A c \in Conns : pc[c] \in {"deliverLock", "deliver"} =>
    target[at[c]] = c /\ ChatMsg[at[c]] = evt[c].msg

\* Registration and closing follow the handler's progress.
Registered ==
  /\ \A a \in Agents : runtimes[a] # None =>
       /\ ConnAgent[runtimes[a]] = a
       /\ pc[runtimes[a]] \notin {"hello", "register", "closed"}
       /\ runtimes[a] \notin closed
  /\ \A c \in Conns : pc[c] \in {"hello", "register"} => c \notin closed

TypeInv == TypeOK /\ InHand

RoutingInv ==
  /\ LockHolder /\ Unsent /\ WaiterKeys /\ DeliverTarget /\ Registered
  /\ WaitersMatchRuntime
  /\ AnswersComeFromTaskConnection

\* The chats whose terminal event is in their channel.
Settled ==
  {ch \in Chats : \E i \in DOMAIN events[ch] : events[ch][i].terminal}

\* The chats that wait for events under a key of their own.
Waiting == {ch \in Chats : ch \in Unshared /\ pc[ch] \in {"write", "range"}}

\* A chat whose waiter is or may be in the map has captured its connection.
SentTarget ==
  \A ch \in Chats : pc[ch] \in {"write", "range", "remove"} => target[ch] # None

\* Whoever cancels or removes a waiting chat's waiter has settled it.
DoneSettled == \A ch \in Chats : done[ch] /\ ch \in Waiting => ch \in Settled

CancelSettled ==
  \A p \in Procs : pc[p] = "cancel" /\ at[p] \in Waiting => at[p] \in Settled

\* The chats that have sent and that a removal of their waiter does not strand.
Released ==
  {ch \in Chats : target[ch] # None /\ (ch \in Waiting => ch \in Settled)}

RemoveSettled ==
  \A c \in Conns : pc[c] = "remove" =>
    \E ch \in Released : Key(ch) = <<ConnAgent[c], evt[c].msg>>

\* The waiter a connection delivers to has the key of the event in hand, and its
\* chat has sent its task, as has that of every waiter in the map.
DeliverKey ==
  \A c \in Conns : pc[c] \in {"deliverLock", "deliver"} =>
    Key(at[c]) = <<ConnAgent[c], evt[c].msg>> /\ pc[at[c]] # "send"

WaiterSent == \A k \in Keys : waiters[k] # None => pc[waiters[k]] # "send"

\* Nothing has touched the waiter of a chat that has not sent.
UnsentUntouched ==
  \A ch \in Chats : pc[ch] = "send" =>
    /\ ~done[ch]
    /\ \A p \in Procs : pc[p] \in {"cancel", "failLock", "fail"} => at[p] # ch

SettledInv ==
  /\ SentTarget /\ DoneSettled /\ CancelSettled /\ RemoveSettled
  /\ DeliverKey /\ WaiterSent /\ UnsentUntouched

-----------------------------------------------------------------------------
(* Type correctness *)

\* The initial state is well typed and no handler holds anything.
LEMMA InitTypeInv == Init => TypeInv
  BY DEF Init, TypeInv, TypeOK, InHand, Procs, Keys, ConnPC, ChatPC, Event

\* The control part of TypeOK.
PCType ==
  /\ pc \in [Procs -> ConnPC \cup ChatPC]
  /\ \A c \in Conns : pc[c] \in ConnPC
  /\ \A ch \in Chats : pc[ch] \in ChatPC

\* A connection's handler moves alone, and to a label of its own.
LEMMA ConnGoto ==
  ASSUME PCType, NEW c \in Conns, NEW l \in ConnPC, Goto(c, l)
  PROVE  PCType' /\ pc'[c] = l /\ \A p \in Procs \ {c} : pc'[p] = pc[p]
  BY DEF PCType, Goto, Procs

\* A chat's handler moves alone, and to a label of its own.
LEMMA ChatGoto ==
  ASSUME PCType, NEW ch \in Chats, NEW l \in ChatPC, Goto(ch, l)
  PROVE  PCType' /\ pc'[ch] = l /\ \A p \in Procs \ {ch} : pc'[p] = pc[p]
  BY DEF PCType, Goto, Procs

\* A channel that had room holds well-typed events within its capacity after a
\* send.
LEMMA SendType ==
  ASSUME NEW w \in Chats, NEW e \in Event, events \in [Chats -> Seq(Event)],
         \A ch \in Chats : Len(events[ch]) <= Cap, HasRoom(w),
         events' = [events EXCEPT ![w] = Append(@, e)]
  PROVE  /\ events' \in [Chats -> Seq(Event)]
         /\ \A ch \in Chats : Len(events'[ch]) <= Cap
  BY DEF HasRoom

\* Every action keeps the types and what the handlers have in hand.
LEMMA NextTypeInv == ASSUME TypeInv, [Next]_vars PROVE TypeInv'
  <1> USE DEF TypeInv
  <1>0. PCType
    BY DEF TypeOK, PCType
  <1>1. ASSUME NEW c \in Conns, Hello(c) PROVE TypeInv'
    <2>1. PICK l \in {"register", "closed"} : Goto(c, l)
      BY <1>1 DEF Hello
    <2>2. PCType' /\ pc'[c] = l /\ \A p \in Procs \ {c} : pc'[p] = pc[p]
      BY <1>0, <2>1, ConnGoto DEF ConnPC
    <2>3. closed' \subseteq Conns
      BY <1>1 DEF TypeOK, Hello
    <2>4. TypeOK'
      BY <1>1, <2>2, <2>3 DEF TypeOK, PCType, Hello
    <2>5. InHand'
      <3>1. at' = at /\ evt' = evt
        BY <1>1 DEF Hello
      <3> QED BY <2>2, <3>1 DEF InHand, Procs
    <2> QED BY <2>4, <2>5
  <1>2. ASSUME NEW c \in Conns, FailLock(c) PROVE TypeInv'
    <2>1. TypeOK'
      BY <1>2 DEF TypeOK, InHand, ConnPC, ChatPC, Procs, Keys, Goto, FailLock
    <2>2. InHand'
      BY <1>2 DEF TypeOK, InHand, Procs, Keys, Goto, FailLock
    <2> QED BY <2>1, <2>2
  <1>3. ASSUME NEW c \in Conns, ReadError(c) PROVE TypeInv'
    <2>1. TypeOK'
      BY <1>3 DEF TypeOK, InHand, ConnPC, ChatPC, Procs, Keys, Goto, ReadError
    <2>2. InHand'
      BY <1>3 DEF TypeOK, InHand, Procs, Keys, Goto, ReadError
    <2> QED BY <2>1, <2>2
  <1>4. ASSUME NEW c \in Conns, DeliverLock(c) PROVE TypeInv'
    <2>1. TypeOK'
      BY <1>4 DEF TypeOK, InHand, ConnPC, ChatPC, Procs, Keys, Goto, DeliverLock
    <2>2. InHand'
      BY <1>4 DEF TypeOK, InHand, Procs, Keys, Goto, DeliverLock
    <2> QED BY <2>1, <2>2
  <1>5. ASSUME NEW p \in Procs, Cancel(p) PROVE TypeInv'
    <2>1. TypeOK'
      BY <1>5 DEF TypeOK, InHand, ConnPC, ChatPC, Procs, Keys, Goto, Cancel,
          AfterRemoval
    <2>2. InHand'
      BY <1>5 DEF TypeOK, InHand, Procs, Keys, Goto, Cancel, AfterRemoval
    <2> QED BY <2>1, <2>2
  <1>6. ASSUME NEW c \in Conns, Register(c) PROVE TypeInv'
    <2>1. PICK l \in {"failing", "read"} : Goto(c, l)
      BY <1>6 DEF Register
    <2>2. PCType' /\ pc'[c] = l /\ \A p \in Procs \ {c} : pc'[p] = pc[p]
      BY <1>0, <2>1, ConnGoto DEF ConnPC
    <2>3. runtimes' \in [Agents -> Conns \cup {None}] /\ closed' \subseteq Conns /\ mu' \in Conns \cup {None}
      BY <1>6 DEF TypeOK, InHand, Register
    <2>4. TypeOK'
      BY <1>6, <2>2, <2>3 DEF TypeOK, PCType, Register
    <2>5. InHand'
      BY <1>6, <2>1, <2>2 DEF TypeOK, InHand, Procs, Register
    <2> QED BY <2>4, <2>5
  <1>7. ASSUME NEW c \in Conns, Unregister(c) PROVE TypeInv'
    <2>1. PICK l \in {"failing", "closed"} : Goto(c, l)
      BY <1>7 DEF Unregister
    <2>2. PCType' /\ pc'[c] = l /\ \A p \in Procs \ {c} : pc'[p] = pc[p]
      BY <1>0, <2>1, ConnGoto DEF ConnPC
    <2>3. runtimes' \in [Agents -> Conns \cup {None}] /\ closed' \subseteq Conns /\ mu' \in Conns \cup {None}
      <3>1. \/ /\ runtimes' = [runtimes EXCEPT ![ConnAgent[c]] = None]
               /\ mu' = c /\ closed' = closed
            \/ closed' = closed \cup {c} /\ runtimes' = runtimes /\ mu' = mu
        BY <1>7 DEF Unregister
      <3> QED BY <3>1 DEF TypeOK
    <2>4. TypeOK'
      BY <1>7, <2>2, <2>3 DEF TypeOK, PCType, Unregister
    <2>5. InHand'
      BY <1>7, <2>1, <2>2 DEF TypeOK, InHand, Procs, Unregister
    <2> QED BY <2>4, <2>5
  <1>8. ASSUME NEW c \in Conns, FailEnd(c) PROVE TypeInv'
    <2>1. PICK l \in {"read", "closed"} : Goto(c, l)
      BY <1>8 DEF FailEnd
    <2>2. PCType' /\ pc'[c] = l /\ \A p \in Procs \ {c} : pc'[p] = pc[p]
      BY <1>0, <2>1, ConnGoto DEF ConnPC
    <2>3. closed' \subseteq Conns /\ mu' \in Conns \cup {None}
      BY <1>8 DEF TypeOK, InHand, FailEnd
    <2>4. TypeOK'
      BY <1>8, <2>2, <2>3 DEF TypeOK, PCType, FailEnd
    <2>5. InHand'
      BY <1>8, <2>1, <2>2 DEF TypeOK, InHand, Procs, FailEnd
    <2> QED BY <2>4, <2>5
  <1>9. ASSUME NEW c \in Conns, Fail(c) PROVE TypeInv'
    <2>1. PICK l \in {"failing"} : Goto(c, l)
      BY <1>9 DEF Fail
    <2>2. PCType' /\ pc'[c] = l /\ \A p \in Procs \ {c} : pc'[p] = pc[p]
      BY <1>0, <2>1, ConnGoto DEF ConnPC
    <2>3. done' \in [Chats -> BOOLEAN] /\ wmu' \in [Chats -> Conns \cup {None}] /\ at' \in [Procs -> Chats \cup {None}]
      BY <1>9 DEF TypeOK, InHand, Fail, Procs
    <2>4. [msg |-> ChatMsg[at[c]], terminal |-> TRUE, from |-> None] \in Event
      BY <1>9 DEF TypeOK, InHand, Fail, Event
    <2>5. events' \in [Chats -> Seq(Event)] /\ \A ch \in Chats : Len(events'[ch]) <= Cap
      BY <1>9, <2>4, SendType DEF TypeOK, InHand, Fail
    <2>6. TypeOK'
      BY <1>9, <2>2, <2>3, <2>4, <2>5 DEF TypeOK, PCType, Fail
    <2>7. InHand'
      BY <1>9, <2>1, <2>2 DEF TypeOK, InHand, Procs, Fail
    <2> QED BY <2>6, <2>7
  <1>10. ASSUME NEW c \in Conns, Dispatch(c) PROVE TypeInv'
    <2> DEFINE w == waiters[<<ConnAgent[c], evt[c].msg>>]
    <2>1. evt[c] \in Event /\ evt[c].from = c /\ w \in Chats \cup {None}
      BY <1>10 DEF TypeOK, InHand, Dispatch, Keys, Event
    <2>2. CASE IsCurrent(c) /\ w # None
      <3>1. Goto(c, "deliverLock") /\ at' = [at EXCEPT ![c] = w]
        BY <1>10, <2>2 DEF Dispatch
      <3>2. /\ PCType' /\ pc'[c] = "deliverLock"
            /\ \A p \in Procs \ {c} : pc'[p] = pc[p]
        BY <1>0, <3>1, ConnGoto DEF ConnPC
      <3>3. at' \in [Procs -> Chats \cup {None}] /\ at'[c] \in Chats
        BY <2>1, <2>2, <3>1 DEF TypeOK, Procs
      <3>4. UNCHANGED evt
        BY <1>10, <2>2 DEF Dispatch
      <3>5. TypeOK'
        BY <1>10, <3>2, <3>3, <3>4 DEF TypeOK, PCType, Dispatch
      <3>6. InHand'
        BY <2>1, <3>1, <3>2, <3>3, <3>4 DEF InHand, TypeOK, Procs
      <3> QED BY <3>5, <3>6
    <2>3. CASE ~(IsCurrent(c) /\ w # None)
      <3>1. Goto(c, "read") /\ at' = at /\ evt' = [evt EXCEPT ![c] = None]
        BY <1>10, <2>3 DEF Dispatch
      <3>2. PCType' /\ pc'[c] = "read" /\ \A p \in Procs \ {c} : pc'[p] = pc[p]
        BY <1>0, <3>1, ConnGoto DEF ConnPC
      <3>3. evt' \in [Conns -> Event \cup {None}]
        BY <3>1 DEF TypeOK
      <3>4. TypeOK'
        BY <1>10, <3>1, <3>2, <3>3 DEF TypeOK, PCType, Dispatch
      <3>5. InHand'
        BY <3>1, <3>2 DEF InHand, TypeOK, Procs
      <3> QED BY <3>4, <3>5
    <2> QED BY <2>2, <2>3
  <1>11. ASSUME NEW c \in Conns, Deliver(c) PROVE TypeInv'
    <2>1. PICK l \in {"remove", "read"} : Goto(c, l)
      BY <1>11 DEF Deliver
    <2>2. PCType' /\ pc'[c] = l /\ \A p \in Procs \ {c} : pc'[p] = pc[p]
      BY <1>0, <2>1, ConnGoto DEF ConnPC
    <2>3. evt[c] \in Event /\ evt[c].from = c /\ at[c] \in Chats
      BY <1>11 DEF TypeOK, InHand, Deliver
    <2>4. /\ wmu' \in [Chats -> Conns \cup {None}]
          /\ at' \in [Procs -> Chats \cup {None}]
          /\ at' = [at EXCEPT ![c] = None]
      BY <1>11 DEF TypeOK, Deliver, Procs
    <2>5. \/ evt' = evt
          \/ evt' = [evt EXCEPT ![c] = None] /\ l = "read"
      BY <1>11, <2>1, <2>2 DEF Deliver, Goto, TypeOK, Procs
    <2>6. evt' \in [Conns -> Event \cup {None}]
      BY <2>5 DEF TypeOK
    <2>7. /\ events' \in [Chats -> Seq(Event)]
          /\ \A ch \in Chats : Len(events'[ch]) <= Cap
      BY <1>11, <2>3, SendType DEF TypeOK, Deliver
    <2>8. TypeOK'
      BY <1>11, <2>2, <2>4, <2>6, <2>7 DEF TypeOK, PCType, Deliver
    <2>9. InHand'
      <3>1. \A d \in Conns : d # c => pc'[d] = pc[d] /\ evt'[d] = evt[d]
        BY <2>2, <2>5 DEF Procs, TypeOK
      <3>2. \A p \in Procs : p # c => at'[p] = at[p] /\ pc'[p] = pc[p]
        BY <2>2, <2>4 DEF TypeOK
      <3>3. \A d \in Conns : d # c => at'[d] = at[d]
        BY <3>2 DEF Procs
      <3>4. pc'[c] \in {"remove", "read"} /\ (pc'[c] = "remove" => evt'[c] = evt[c])
        BY <2>1, <2>2, <2>5
      <3> QED BY <2>3, <3>1, <3>2, <3>3, <3>4 DEF InHand
    <2> QED BY <2>8, <2>9
  <1>12. ASSUME NEW p \in Procs, RemoveWaiter(p) PROVE TypeInv'
    <2> DEFINE w == waiters[RemovalKey(p)]
    <2>1. RemovalKey(p) \in Keys
      BY <1>12 DEF RemoveWaiter, RemovalKey, Key, Keys, Procs, TypeOK, InHand,
          Event
    <2>2. w \in Chats \cup {None}
      BY <2>1 DEF TypeOK
    <2>3. /\ waiters' \in [Keys -> Chats \cup {None}]
          /\ at' \in [Procs -> Chats \cup {None}]
          /\ at' = [at EXCEPT ![p] = w]
      BY <1>12, <2>1, <2>2 DEF TypeOK, RemoveWaiter
    <2>4. Goto(p, IF w = None THEN AfterRemoval(p) ELSE "cancel")
      BY <1>12 DEF RemoveWaiter
    <2>5. CASE p \in Conns
      <3>1. p \notin Chats /\ AfterRemoval(p) = "read"
        BY <2>5 DEF AfterRemoval
      <3>2. PICK l \in {"read", "cancel"} : Goto(p, l) /\ (l = "cancel" => w # None)
        BY <2>4, <3>1
      <3>3. PCType' /\ pc'[p] = l /\ \A q \in Procs \ {p} : pc'[q] = pc[q]
        BY <1>0, <2>5, <3>2, ConnGoto DEF ConnPC
      <3>4. evt' = [evt EXCEPT ![p] = None]
        BY <1>12, <2>5 DEF RemoveWaiter
      <3>5. evt' \in [Conns -> Event \cup {None}]
        BY <3>4 DEF TypeOK
      <3>6. TypeOK'
        BY <1>12, <2>3, <3>3, <3>5 DEF TypeOK, PCType, RemoveWaiter
      <3>7. InHand'
        BY <2>2, <2>3, <2>5, <3>2, <3>3, <3>4 DEF TypeOK, InHand, Procs
      <3> QED BY <3>6, <3>7
    <2>6. CASE p \in Chats
      <3>1. p \notin Conns /\ AfterRemoval(p) = "end"
        BY <2>6 DEF AfterRemoval
      <3>2. PICK l \in {"end", "cancel"} : Goto(p, l) /\ (l = "cancel" => w # None)
        BY <2>4, <3>1
      <3>3. PCType' /\ pc'[p] = l /\ \A q \in Procs \ {p} : pc'[q] = pc[q]
        BY <1>0, <2>6, <3>2, ChatGoto DEF ChatPC
      <3>4. evt' = evt
        BY <1>12, <3>1 DEF RemoveWaiter
      <3>5. TypeOK'
        BY <1>12, <2>3, <3>3, <3>4 DEF TypeOK, PCType, RemoveWaiter
      <3>6. InHand'
        BY <2>2, <2>3, <2>6, <3>1, <3>2, <3>3, <3>4 DEF TypeOK, InHand, Procs
      <3> QED BY <3>5, <3>6
    <2> QED BY <2>5, <2>6 DEF Procs
  <1>13. ASSUME NEW ch \in Chats, SendTask(ch) PROVE TypeInv'
    <2>1. PICK l \in {"end", "write"} : Goto(ch, l)
      BY <1>13 DEF SendTask
    <2>2. PCType' /\ pc'[ch] = l /\ \A p \in Procs \ {ch} : pc'[p] = pc[p]
      BY <1>0, <2>1, ChatGoto DEF ChatPC
    <2>3. /\ waiters' \in [Keys -> Chats \cup {None}]
          /\ target' \in [Chats -> Conns \cup {None}]
      <3>1. Key(ch) \in Keys /\ runtimes[ChatAgent[ch]] \in Conns \cup {None}
        BY DEF TypeOK, Key, Keys
      <3>2. CASE runtimes[ChatAgent[ch]] = None
        BY <1>13, <3>2 DEF TypeOK, SendTask
      <3>3. CASE runtimes[ChatAgent[ch]] # None
        <4>1. /\ waiters' = [waiters EXCEPT ![Key(ch)] = ch]
              /\ target' = [target EXCEPT ![ch] = runtimes[ChatAgent[ch]]]
          BY <1>13, <3>3 DEF SendTask
        <4> QED BY <4>1, <3>1 DEF TypeOK
      <3> QED BY <3>2, <3>3
    <2>4. TypeOK'
      BY <1>13, <2>2, <2>3 DEF TypeOK, PCType, SendTask
    <2>5. InHand'
      BY <1>13, <2>1, <2>2 DEF TypeOK, InHand, Procs, SendTask
    <2> QED BY <2>4, <2>5
  <1>14. ASSUME NEW ch \in Chats, WriteTask(ch) PROVE TypeInv'
    <2>1. PICK l \in {"range", "remove"} : Goto(ch, l)
      BY <1>14 DEF WriteTask
    <2>2. PCType' /\ pc'[ch] = l /\ \A p \in Procs \ {ch} : pc'[p] = pc[p]
      BY <1>0, <2>1, ChatGoto DEF ChatPC
    <2>3. owed' \in [Conns -> SUBSET MsgIDs]
      <3>1. \/ owed' = owed
            \/ owed' = [owed EXCEPT ![target[ch]] = @ \cup {ChatMsg[ch]}]
        BY <1>14 DEF WriteTask
      <3>2. /\ owed \in [Conns -> SUBSET MsgIDs]
            /\ target[ch] \in Conns => owed[target[ch]] \in SUBSET MsgIDs
            /\ ChatMsg[ch] \in MsgIDs
        BY ConstantsAssumption DEF TypeOK
      <3> QED BY <3>1, <3>2
    <2>4. TypeOK'
      BY <1>14, <2>2, <2>3 DEF TypeOK, PCType, WriteTask
    <2>5. InHand'
      <3>1. at' = at /\ evt' = evt /\ ch \notin Conns
        BY <1>14, ConstantsAssumption DEF WriteTask
      <3> QED BY <2>2, <3>1 DEF InHand, Procs
    <2> QED BY <2>4, <2>5
  <1>15. ASSUME NEW ch \in Chats, Forward(ch) PROVE TypeInv'
    <2>1. PICK l \in {"range", "remove"} : Goto(ch, l)
      BY <1>15 DEF Forward
    <2>2. PCType' /\ pc'[ch] = l /\ \A p \in Procs \ {ch} : pc'[p] = pc[p]
      BY <1>0, <2>1, ChatGoto DEF ChatPC
    <2>3. events[ch] \in Seq(Event) /\ events[ch] # <<>>
      BY <1>15 DEF TypeOK, Forward
    <2>4. /\ Head(events[ch]) \in Event /\ Tail(events[ch]) \in Seq(Event)
          /\ Len(Tail(events[ch])) = Len(events[ch]) - 1
      BY <2>3
    <2>5. /\ events' \in [Chats -> Seq(Event)]
          /\ \A x \in Chats : Len(events'[x]) <= Cap
      BY <1>15, <2>3, <2>4 DEF TypeOK, Forward
    <2>6. got' \in [Chats -> Seq(Event)]
      <3>1. got' = got \/ got' = [got EXCEPT ![ch] = Append(@, Head(events[ch]))]
        BY <1>15 DEF Forward
      <3>2. Append(got[ch], Head(events[ch])) \in Seq(Event)
        BY <2>4 DEF TypeOK
      <3>3. got \in [Chats -> Seq(Event)]
        BY DEF TypeOK
      <3> QED BY <3>1, <3>2, <3>3
    <2>7. TypeOK'
      BY <1>15, <2>2, <2>5, <2>6 DEF TypeOK, PCType, Forward
    <2>8. InHand'
      <3>1. at' = at /\ evt' = evt /\ ch \notin Conns
        BY <1>15, ConstantsAssumption DEF Forward
      <3> QED BY <2>2, <3>1 DEF InHand, Procs
    <2> QED BY <2>7, <2>8
  <1>16. ASSUME NEW c \in Conns, NEW m \in MsgIDs, FailNext(c, m) PROVE TypeInv'
    <2>1. Goto(c, "failLock")
      BY <1>16 DEF FailNext
    <2>2. PCType' /\ pc'[c] = "failLock" /\ \A p \in Procs \ {c} : pc'[p] = pc[p]
      BY <1>0, <2>1, ConnGoto DEF ConnPC
    <2>3. /\ waiters' \in [Keys -> Chats \cup {None}]
          /\ at' \in [Procs -> Chats \cup {None}]
          /\ at'[c] \in Chats /\ \A p \in Procs \ {c} : at'[p] = at[p]
      BY <1>16 DEF TypeOK, FailNext, Keys, Procs
    <2>4. TypeOK'
      BY <1>16, <2>2, <2>3 DEF TypeOK, PCType, FailNext
    <2>5. InHand'
      BY <1>16, <2>2, <2>3 DEF TypeOK, InHand, Procs, FailNext
    <2> QED BY <2>4, <2>5
  <1>17. ASSUME NEW c \in Conns, NEW agent \in Agents, NEW m \in MsgIDs,
                NEW terminal \in BOOLEAN, Read(c, agent, m, terminal)
         PROVE  TypeInv'
    <2>1. owed' \in [Conns -> SUBSET MsgIDs] /\ stray' \in 0..MaxStray
      <3>1. \/ owed' = [owed EXCEPT ![c] = @ \ {m}] /\ stray' = stray
            \/ owed' = owed /\ stray < MaxStray /\ stray' = stray + 1
        BY <1>17 DEF Read
      <3>2. owed[c] \in SUBSET MsgIDs
        BY DEF TypeOK
      <3>3. owed \in [Conns -> SUBSET MsgIDs] /\ stray \in 0..MaxStray
        BY DEF TypeOK
      <3>4. owed[c] \ {m} \in SUBSET MsgIDs
        BY <3>2
      <3>5. stray < MaxStray => stray + 1 \in 0..MaxStray
        BY <3>3
      <3> QED BY <3>1, <3>3, <3>4, <3>5
    <2>2. CASE agent = ConnAgent[c]
      <3> DEFINE e == [msg |-> m, terminal |-> terminal, from |-> c]
      <3>1. Goto(c, "lookup") /\ evt' = [evt EXCEPT ![c] = e]
        BY <1>17, <2>2 DEF Read
      <3>2. PCType' /\ pc'[c] = "lookup" /\ \A p \in Procs \ {c} : pc'[p] = pc[p]
        BY <1>0, <3>1, ConnGoto DEF ConnPC
      <3>3. e \in Event /\ e.from = c
        BY DEF Event
      <3> HIDE DEF e
      <3>4. /\ evt' \in [Conns -> Event \cup {None}] /\ evt'[c] = e
            /\ \A d \in Conns \ {c} : evt'[d] = evt[d]
        BY <3>1, <3>3 DEF TypeOK
      <3>5. TypeOK'
        BY <1>17, <2>1, <3>2, <3>4 DEF TypeOK, PCType, Read
      <3>6. UNCHANGED at
        BY <1>17 DEF Read
      <3>7. InHand'
        <4>1. \A d \in Conns : d # c => pc'[d] = pc[d] /\ evt'[d] = evt[d]
          BY <3>2, <3>4 DEF Procs
        <4>2. \A p \in Procs : pc'[p] = "cancel" => pc[p] = "cancel"
          BY <3>2
        <4> QED BY <3>2, <3>3, <3>4, <3>6, <4>1, <4>2 DEF InHand
      <3> QED BY <3>5, <3>7
    <2>3. CASE agent # ConnAgent[c]
      <3>1. UNCHANGED <<evt, pc, at>>
        BY <1>17, <2>3 DEF Read
      <3>2. TypeOK'
        BY <1>17, <2>1, <3>1 DEF TypeOK, Read
      <3>3. InHand'
        BY <3>1 DEF InHand
      <3> QED BY <3>2, <3>3
    <2> QED BY <2>2, <2>3
  <1>18. CASE UNCHANGED vars
    BY <1>18 DEF vars, TypeOK, InHand
  <1>19. QED
    BY <1>1, <1>2, <1>3, <1>4, <1>5, <1>6, <1>7, <1>8, <1>9, <1>10, <1>11, <1>12,
       <1>13, <1>14, <1>15, <1>16, <1>17, <1>18
       DEF Next, ConnStep, RuntimeStep, ChatStep, Procs

\* Every reachable state of the gateway is well typed.
THEOREM TypeCorrect == Spec => []TypeOK
  <1>1. TypeInv /\ [Next]_vars => TypeInv'
    BY NextTypeInv
  <1>2. QED
    BY InitTypeInv, <1>1, PTL DEF Spec, TypeInv

\* mu is taken on the way into failWaitersLocked and freed on the way out.
LEMMA NextLockHolder ==
  ASSUME TypeInv, LockHolder, [Next]_vars
  PROVE  LockHolder'
  <1> USE DEF TypeInv, TypeOK, LockHolder, Goto, Procs
  <1>1. ASSUME NEW c \in Conns, Hello(c) PROVE LockHolder'
    BY <1>1 DEF Hello
  <1>2. ASSUME NEW c \in Conns, Register(c) PROVE LockHolder'
    BY <1>2 DEF Register
  <1>3. ASSUME NEW c \in Conns, Unregister(c) PROVE LockHolder'
    BY <1>3 DEF Unregister, IsCurrent
  <1>4. ASSUME NEW c \in Conns, FailLock(c) PROVE LockHolder'
    BY <1>4 DEF FailLock
  <1>5. ASSUME NEW c \in Conns, Fail(c) PROVE LockHolder'
    BY <1>5 DEF Fail, HasRoom
  <1>6. ASSUME NEW c \in Conns, FailEnd(c) PROVE LockHolder'
    <2>1. mu = c /\ mu' = None
      BY <1>6 DEF FailEnd
    <2>2. PICK l \in {"read", "closed"} : pc' = [pc EXCEPT ![c] = l]
      BY <1>6 DEF FailEnd
    <2> QED BY <2>1, <2>2
  <1>7. ASSUME NEW c \in Conns, ReadError(c) PROVE LockHolder'
    BY <1>7 DEF ReadError
  <1>8. ASSUME NEW c \in Conns, Dispatch(c) PROVE LockHolder'
    BY <1>8 DEF Dispatch, IsCurrent
  <1>9. ASSUME NEW c \in Conns, DeliverLock(c) PROVE LockHolder'
    BY <1>9 DEF DeliverLock
  <1>10. ASSUME NEW c \in Conns, Deliver(c) PROVE LockHolder'
    <2>1. mu' = mu /\ pc[c] = "deliver"
      BY <1>10 DEF Deliver
    <2>2. PICK l \in {"read", "remove"} : pc' = [pc EXCEPT ![c] = l]
      BY <1>10 DEF Deliver
    <2> QED BY <2>1, <2>2
  <1>11. ASSUME NEW p \in Procs, RemoveWaiter(p) PROVE LockHolder'
    BY <1>11 DEF RemoveWaiter, RemovalKey, AfterRemoval
  <1>12. ASSUME NEW p \in Procs, Cancel(p) PROVE LockHolder'
    BY <1>12 DEF Cancel, AfterRemoval
  <1>13. ASSUME NEW ch \in Chats, SendTask(ch) PROVE LockHolder'
    BY <1>13 DEF SendTask
  <1>14. ASSUME NEW ch \in Chats, WriteTask(ch) PROVE LockHolder'
    BY <1>14 DEF WriteTask
  <1>15. ASSUME NEW ch \in Chats, Forward(ch) PROVE LockHolder'
    BY <1>15 DEF Forward, EndsChat
  <1>16. ASSUME NEW c \in Conns, NEW m \in MsgIDs, FailNext(c, m) PROVE LockHolder'
    BY <1>16 DEF FailNext
  <1>17. ASSUME NEW c \in Conns, NEW agent \in Agents, NEW m \in MsgIDs,
                NEW terminal \in BOOLEAN, Read(c, agent, m, terminal)
         PROVE  LockHolder'
    <2>1. mu' = mu /\ pc[c] = "read"
      BY <1>17 DEF Read
    <2>2. pc' = pc \/ pc' = [pc EXCEPT ![c] = "lookup"]
      BY <1>17 DEF Read
    <2> QED BY <2>1, <2>2
  <1>18. CASE UNCHANGED vars
    BY <1>18 DEF vars
  <1> HIDE DEF TypeInv, TypeOK, LockHolder, Goto, Procs
  <1> QED
    BY <1>1, <1>2, <1>3, <1>4, <1>5, <1>6, <1>7, <1>8, <1>9, <1>10, <1>11,
        <1>12, <1>13, <1>14, <1>15, <1>16, <1>17, <1>18
       DEF Next, ConnStep, RuntimeStep, ChatStep, Procs

\* Only SendTask captures a connection.
LEMMA NextUnsent ==
  ASSUME TypeInv, Unsent, [Next]_vars
  PROVE  Unsent'
  <1> USE DEF TypeInv, TypeOK, Unsent, Goto, Procs
  <1>1. ASSUME NEW c \in Conns, Hello(c) PROVE Unsent'
    BY <1>1 DEF Hello
  <1>2. ASSUME NEW c \in Conns, Register(c) PROVE Unsent'
    BY <1>2 DEF Register
  <1>3. ASSUME NEW c \in Conns, Unregister(c) PROVE Unsent'
    BY <1>3 DEF Unregister, IsCurrent
  <1>4. ASSUME NEW c \in Conns, FailLock(c) PROVE Unsent'
    BY <1>4 DEF FailLock
  <1>5. ASSUME NEW c \in Conns, Fail(c) PROVE Unsent'
    BY <1>5 DEF Fail, HasRoom
  <1>6. ASSUME NEW c \in Conns, FailEnd(c) PROVE Unsent'
    BY <1>6 DEF FailEnd, AllFailed
  <1>7. ASSUME NEW c \in Conns, ReadError(c) PROVE Unsent'
    BY <1>7 DEF ReadError
  <1>8. ASSUME NEW c \in Conns, Dispatch(c) PROVE Unsent'
    BY <1>8 DEF Dispatch, IsCurrent
  <1>9. ASSUME NEW c \in Conns, DeliverLock(c) PROVE Unsent'
    BY <1>9 DEF DeliverLock
  <1>10. ASSUME NEW c \in Conns, Deliver(c) PROVE Unsent'
    BY <1>10 DEF Deliver, HasRoom, RemovesWaiter
  <1>11. ASSUME NEW p \in Procs, RemoveWaiter(p) PROVE Unsent'
    BY <1>11 DEF RemoveWaiter, RemovalKey, AfterRemoval
  <1>12. ASSUME NEW p \in Procs, Cancel(p) PROVE Unsent'
    BY <1>12 DEF Cancel, AfterRemoval
  <1>13. ASSUME NEW ch \in Chats, SendTask(ch) PROVE Unsent'
    BY <1>13 DEF SendTask
  <1>14. ASSUME NEW ch \in Chats, WriteTask(ch) PROVE Unsent'
    BY <1>14 DEF WriteTask
  <1>15. ASSUME NEW ch \in Chats, Forward(ch) PROVE Unsent'
    BY <1>15 DEF Forward, EndsChat
  <1>16. ASSUME NEW c \in Conns, NEW m \in MsgIDs, FailNext(c, m) PROVE Unsent'
    BY <1>16 DEF FailNext
  <1>17. ASSUME NEW c \in Conns, NEW agent \in Agents, NEW m \in MsgIDs,
                NEW terminal \in BOOLEAN, Read(c, agent, m, terminal)
         PROVE  Unsent'
    BY <1>17 DEF Read
  <1>18. CASE UNCHANGED vars
    BY <1>18 DEF vars
  <1> HIDE DEF TypeInv, TypeOK, Unsent, Goto, Procs
  <1> QED
    BY <1>1, <1>2, <1>3, <1>4, <1>5, <1>6, <1>7, <1>8, <1>9, <1>10, <1>11,
        <1>12, <1>13, <1>14, <1>15, <1>16, <1>17, <1>18
       DEF Next, ConnStep, RuntimeStep, ChatStep, Procs

\* Register and Unregister keep registration in step with the handlers.
LEMMA NextRegistered ==
  ASSUME TypeInv, Registered, [Next]_vars
  PROVE  Registered'
  <1> USE DEF TypeInv, TypeOK, Registered, Goto, Procs
  <1>1. ASSUME NEW c \in Conns, Hello(c) PROVE Registered'
    BY <1>1, SMTT(60) DEF Hello
  <1>2. ASSUME NEW c \in Conns, Register(c) PROVE Registered'
    <2>1. /\ pc[c] = "register" /\ c \notin closed
          /\ runtimes' = [runtimes EXCEPT ![ConnAgent[c]] = c]
      BY <1>2 DEF Register
    <2>2. \A a \in Agents : runtimes[a] # c
      BY <2>1
    <2>3. PICK l \in {"failing", "read"} : pc' = [pc EXCEPT ![c] = l]
      BY <1>2 DEF Register
    <2>4. \/ closed' = closed
          \/ /\ runtimes[ConnAgent[c]] # None
             /\ closed' = closed \cup {runtimes[ConnAgent[c]]}
      BY <1>2 DEF Register
    <2>5. \A a \in Agents : runtimes'[a] # None =>
            /\ ConnAgent[runtimes'[a]] = a
            /\ pc'[runtimes'[a]] \notin {"hello", "register", "closed"}
      BY <2>1, <2>3
    <2>6. \A a \in Agents : runtimes'[a] # None => runtimes'[a] \notin closed'
      BY <2>1, <2>2, <2>4
    <2>7. \A d \in Conns : pc'[d] \in {"hello", "register"} => d \notin closed'
      BY <2>3, <2>4
    <2> QED BY <2>5, <2>6, <2>7
  <1>3. ASSUME NEW c \in Conns, Unregister(c) PROVE Registered'
    <2>1. CASE runtimes[ConnAgent[c]] = c
      <3>1. /\ runtimes' = [runtimes EXCEPT ![ConnAgent[c]] = None]
            /\ pc' = [pc EXCEPT ![c] = "failing"] /\ closed' = closed
        BY <1>3, <2>1 DEF Unregister, IsCurrent
      <3> QED BY <3>1
    <2>2. CASE runtimes[ConnAgent[c]] # c
      <3>1. /\ runtimes' = runtimes
            /\ pc' = [pc EXCEPT ![c] = "closed"] /\ closed' = closed \cup {c}
        BY <1>3, <2>2 DEF Unregister, IsCurrent
      <3>2. \A a \in Agents : runtimes[a] # c
        BY <2>2
      <3> QED BY <3>1, <3>2
    <2> QED BY <2>1, <2>2
  <1>4. ASSUME NEW c \in Conns, FailLock(c) PROVE Registered'
    BY <1>4 DEF FailLock
  <1>5. ASSUME NEW c \in Conns, Fail(c) PROVE Registered'
    BY <1>5 DEF Fail, HasRoom
  <1>6. ASSUME NEW c \in Conns, FailEnd(c) PROVE Registered'
    <2>1. CASE runtimes[ConnAgent[c]] = c
      <3>1. pc' = [pc EXCEPT ![c] = "read"] /\ UNCHANGED <<closed, runtimes>>
        BY <1>6, <2>1 DEF FailEnd
      <3> QED BY <3>1
    <2>2. CASE runtimes[ConnAgent[c]] # c
      <3>1. /\ runtimes' = runtimes
            /\ pc' = [pc EXCEPT ![c] = "closed"] /\ closed' = closed \cup {c}
        BY <1>6, <2>2 DEF FailEnd
      <3>2. \A a \in Agents : runtimes[a] # c
        BY <2>2
      <3> QED BY <3>1, <3>2
    <2> QED BY <2>1, <2>2
  <1>7. ASSUME NEW c \in Conns, ReadError(c) PROVE Registered'
    BY <1>7 DEF ReadError
  <1>8. ASSUME NEW c \in Conns, Dispatch(c) PROVE Registered'
    BY <1>8 DEF Dispatch, IsCurrent
  <1>9. ASSUME NEW c \in Conns, DeliverLock(c) PROVE Registered'
    BY <1>9 DEF DeliverLock
  <1>10. ASSUME NEW c \in Conns, Deliver(c) PROVE Registered'
    BY <1>10 DEF Deliver, HasRoom, RemovesWaiter
  <1>11. ASSUME NEW p \in Procs, RemoveWaiter(p) PROVE Registered'
    BY <1>11 DEF RemoveWaiter, RemovalKey, AfterRemoval
  <1>12. ASSUME NEW p \in Procs, Cancel(p) PROVE Registered'
    BY <1>12 DEF Cancel, AfterRemoval
  <1>13. ASSUME NEW ch \in Chats, SendTask(ch) PROVE Registered'
    BY <1>13 DEF SendTask
  <1>14. ASSUME NEW ch \in Chats, WriteTask(ch) PROVE Registered'
    BY <1>14 DEF WriteTask
  <1>15. ASSUME NEW ch \in Chats, Forward(ch) PROVE Registered'
    BY <1>15 DEF Forward, EndsChat
  <1>16. ASSUME NEW c \in Conns, NEW m \in MsgIDs, FailNext(c, m) PROVE Registered'
    BY <1>16 DEF FailNext
  <1>17. ASSUME NEW c \in Conns, NEW agent \in Agents, NEW m \in MsgIDs,
                NEW terminal \in BOOLEAN, Read(c, agent, m, terminal)
         PROVE  Registered'
    BY <1>17 DEF Read
  <1>18. CASE UNCHANGED vars
    BY <1>18 DEF vars
  <1> HIDE DEF TypeInv, TypeOK, Registered, Goto, Procs
  <1> QED
    BY <1>1, <1>2, <1>3, <1>4, <1>5, <1>6, <1>7, <1>8, <1>9, <1>10, <1>11,
        <1>12, <1>13, <1>14, <1>15, <1>16, <1>17, <1>18
       DEF Next, ConnStep, RuntimeStep, ChatStep, Procs

\* Only SendTask adds a waiter, under its own key.
LEMMA NextWaiterKeys ==
  ASSUME TypeInv, WaiterKeys, Unsent, [Next]_vars
  PROVE  WaiterKeys'
  <1> USE DEF TypeInv, TypeOK, WaiterKeys, Unsent, Goto, Procs, Keys, Key
  <1>1. ASSUME NEW c \in Conns, Hello(c) PROVE WaiterKeys'
    BY <1>1 DEF Hello
  <1>2. ASSUME NEW c \in Conns, Register(c) PROVE WaiterKeys'
    BY <1>2 DEF Register
  <1>3. ASSUME NEW c \in Conns, Unregister(c) PROVE WaiterKeys'
    BY <1>3 DEF Unregister, IsCurrent
  <1>4. ASSUME NEW c \in Conns, FailLock(c) PROVE WaiterKeys'
    BY <1>4 DEF FailLock
  <1>5. ASSUME NEW c \in Conns, Fail(c) PROVE WaiterKeys'
    BY <1>5 DEF Fail, HasRoom
  <1>6. ASSUME NEW c \in Conns, FailEnd(c) PROVE WaiterKeys'
    BY <1>6 DEF FailEnd, AllFailed
  <1>7. ASSUME NEW c \in Conns, ReadError(c) PROVE WaiterKeys'
    BY <1>7 DEF ReadError
  <1>8. ASSUME NEW c \in Conns, Dispatch(c) PROVE WaiterKeys'
    BY <1>8 DEF Dispatch, IsCurrent
  <1>9. ASSUME NEW c \in Conns, DeliverLock(c) PROVE WaiterKeys'
    BY <1>9 DEF DeliverLock
  <1>10. ASSUME NEW c \in Conns, Deliver(c) PROVE WaiterKeys'
    BY <1>10 DEF Deliver, HasRoom, RemovesWaiter
  <1>11. ASSUME NEW p \in Procs, RemoveWaiter(p) PROVE WaiterKeys'
    BY <1>11 DEF RemoveWaiter, RemovalKey, AfterRemoval
  <1>12. ASSUME NEW p \in Procs, Cancel(p) PROVE WaiterKeys'
    BY <1>12 DEF Cancel, AfterRemoval
  <1>13. ASSUME NEW ch \in Chats, SendTask(ch) PROVE WaiterKeys'
    <2>1. CASE runtimes[ChatAgent[ch]] = None
      BY <1>13, <2>1 DEF SendTask
    <2>2. CASE runtimes[ChatAgent[ch]] # None
      <3>1. /\ waiters' = [waiters EXCEPT ![Key(ch)] = ch]
            /\ target' = [target EXCEPT ![ch] = runtimes[ChatAgent[ch]]]
        BY <1>13, <2>2 DEF SendTask
      <3>2. /\ \A k \in Keys : waiters'[k] = ch \/ waiters'[k] = waiters[k]
            /\ \A k \in Keys : waiters'[k] = ch => Key(ch) = k
        BY <1>13, <3>1 DEF SendTask
      <3>3. \A x \in Chats : target[x] # None => target'[x] # None
        BY <2>2, <3>1
      <3>4. target'[ch] # None
        BY <2>2, <3>1
      <3>5. ASSUME NEW k \in Keys, waiters'[k] # None
            PROVE  Key(waiters'[k]) = k /\ target'[waiters'[k]] # None
        <4>1. CASE waiters'[k] = ch
          BY <3>2, <3>4, <4>1
        <4>2. CASE waiters'[k] = waiters[k]
          <5>1. waiters[k] \in Chats /\ Key(waiters[k]) = k /\ target[waiters[k]] # None
            BY <3>5, <4>2
          <5> QED BY <3>3, <4>2, <5>1
        <4> QED BY <3>2, <4>1, <4>2
      <3> QED BY <3>5
    <2> QED BY <2>1, <2>2
  <1>14. ASSUME NEW ch \in Chats, WriteTask(ch) PROVE WaiterKeys'
    BY <1>14 DEF WriteTask
  <1>15. ASSUME NEW ch \in Chats, Forward(ch) PROVE WaiterKeys'
    BY <1>15 DEF Forward, EndsChat
  <1>16. ASSUME NEW c \in Conns, NEW m \in MsgIDs, FailNext(c, m) PROVE WaiterKeys'
    BY <1>16 DEF FailNext
  <1>17. ASSUME NEW c \in Conns, NEW agent \in Agents, NEW m \in MsgIDs,
                NEW terminal \in BOOLEAN, Read(c, agent, m, terminal)
         PROVE  WaiterKeys'
    BY <1>17 DEF Read
  <1>18. CASE UNCHANGED vars
    BY <1>18 DEF vars
  <1> HIDE DEF TypeInv, TypeOK, WaiterKeys, Unsent, Goto, Procs, Keys, Key
  <1> QED
    BY <1>1, <1>2, <1>3, <1>4, <1>5, <1>6, <1>7, <1>8, <1>9, <1>10, <1>11,
        <1>12, <1>13, <1>14, <1>15, <1>16, <1>17, <1>18
       DEF Next, ConnStep, RuntimeStep, ChatStep, Procs

\* A change of registration fails the agent's waiters before mu is freed.
LEMMA NextWaitersMatch ==
  ASSUME TypeInv, WaitersMatchRuntime, WaiterKeys, Unsent, LockHolder, [Next]_vars
  PROVE  WaitersMatchRuntime'
  <1> USE DEF TypeInv, TypeOK, WaiterKeys, Unsent, LockHolder,
      WaitersMatchRuntime, Goto, Procs, Keys, Key
  <1>1. ASSUME NEW c \in Conns, Hello(c) PROVE WaitersMatchRuntime'
    BY <1>1 DEF Hello
  <1>2. ASSUME NEW c \in Conns, Register(c) PROVE WaitersMatchRuntime'
    BY <1>2 DEF Register
  <1>3. ASSUME NEW c \in Conns, Unregister(c) PROVE WaitersMatchRuntime'
    BY <1>3 DEF Unregister, IsCurrent
  <1>4. ASSUME NEW c \in Conns, FailLock(c) PROVE WaitersMatchRuntime'
    BY <1>4 DEF FailLock
  <1>5. ASSUME NEW c \in Conns, Fail(c) PROVE WaitersMatchRuntime'
    BY <1>5 DEF Fail, HasRoom
  <1>6. ASSUME NEW c \in Conns, FailEnd(c) PROVE WaitersMatchRuntime'
    <2>1. mu = c /\ UNCHANGED <<waiters, target, runtimes>>
      BY <1>6 DEF FailEnd
    <2>2. \A k \in Keys : waiters[k] # None => k[1] # ConnAgent[c]
      BY <1>6 DEF FailEnd, AllFailed
    <2> QED BY <2>1, <2>2
  <1>7. ASSUME NEW c \in Conns, ReadError(c) PROVE WaitersMatchRuntime'
    BY <1>7 DEF ReadError
  <1>8. ASSUME NEW c \in Conns, Dispatch(c) PROVE WaitersMatchRuntime'
    BY <1>8 DEF Dispatch, IsCurrent
  <1>9. ASSUME NEW c \in Conns, DeliverLock(c) PROVE WaitersMatchRuntime'
    BY <1>9 DEF DeliverLock
  <1>10. ASSUME NEW c \in Conns, Deliver(c) PROVE WaitersMatchRuntime'
    BY <1>10 DEF Deliver, HasRoom, RemovesWaiter
  <1>11. ASSUME NEW p \in Procs, RemoveWaiter(p) PROVE WaitersMatchRuntime'
    BY <1>11 DEF RemoveWaiter, RemovalKey, AfterRemoval
  <1>12. ASSUME NEW p \in Procs, Cancel(p) PROVE WaitersMatchRuntime'
    BY <1>12 DEF Cancel, AfterRemoval
  <1>13. ASSUME NEW ch \in Chats, SendTask(ch) PROVE WaitersMatchRuntime'
    <2>1. CASE runtimes[ChatAgent[ch]] = None
      BY <1>13, <2>1 DEF SendTask
    <2>2. CASE runtimes[ChatAgent[ch]] # None
      <3>1. /\ waiters' = [waiters EXCEPT ![Key(ch)] = ch]
            /\ target' = [target EXCEPT ![ch] = runtimes[ChatAgent[ch]]]
            /\ mu = None /\ UNCHANGED <<runtimes, mu>>
        BY <1>13, <2>2 DEF SendTask
      <3>2. target[ch] = None
        BY <1>13 DEF SendTask
      <3>3. ASSUME NEW k \in Keys, waiters'[k] # None
            PROVE  target'[waiters'[k]] = runtimes'[k[1]]
        <4>1. CASE k = Key(ch)
          BY <3>1, <4>1
        <4>2. CASE k # Key(ch)
          <5>1. waiters'[k] = waiters[k] /\ waiters[k] \in Chats /\ waiters[k] # ch
            BY <3>1, <3>2, <3>3, <4>2
          <5>2. target'[waiters[k]] = target[waiters[k]]
            BY <3>1, <5>1
          <5> QED BY <3>1, <3>3, <5>1, <5>2
        <4> QED BY <4>1, <4>2
      <3> QED BY <3>3
    <2> QED BY <2>1, <2>2
  <1>14. ASSUME NEW ch \in Chats, WriteTask(ch) PROVE WaitersMatchRuntime'
    BY <1>14 DEF WriteTask
  <1>15. ASSUME NEW ch \in Chats, Forward(ch) PROVE WaitersMatchRuntime'
    BY <1>15 DEF Forward, EndsChat
  <1>16. ASSUME NEW c \in Conns, NEW m \in MsgIDs, FailNext(c, m) PROVE WaitersMatchRuntime'
    BY <1>16 DEF FailNext
  <1>17. ASSUME NEW c \in Conns, NEW agent \in Agents, NEW m \in MsgIDs,
                NEW terminal \in BOOLEAN, Read(c, agent, m, terminal)
         PROVE  WaitersMatchRuntime'
    BY <1>17 DEF Read
  <1>18. CASE UNCHANGED vars
    BY <1>18 DEF vars
  <1> HIDE DEF TypeInv, TypeOK, WaiterKeys, Unsent, LockHolder,
      WaitersMatchRuntime, Goto, Procs, Keys, Key
  <1> QED
    BY <1>1, <1>2, <1>3, <1>4, <1>5, <1>6, <1>7, <1>8, <1>9, <1>10, <1>11,
        <1>12, <1>13, <1>14, <1>15, <1>16, <1>17, <1>18
       DEF Next, ConnStep, RuntimeStep, ChatStep, Procs

\* Dispatch looks the waiter up while its connection is the registered one.
LEMMA NextDeliverTarget ==
  ASSUME TypeInv, DeliverTarget, WaitersMatchRuntime, WaiterKeys, Unsent,
      LockHolder, [Next]_vars
  PROVE  DeliverTarget'
  <1> USE DEF TypeInv, TypeOK, InHand, DeliverTarget, WaiterKeys, Unsent,
      LockHolder, WaitersMatchRuntime, Goto, Procs, Keys, Key
  <1>1. ASSUME NEW c \in Conns, Hello(c) PROVE DeliverTarget'
    BY <1>1 DEF Hello
  <1>2. ASSUME NEW c \in Conns, Register(c) PROVE DeliverTarget'
    BY <1>2 DEF Register
  <1>3. ASSUME NEW c \in Conns, Unregister(c) PROVE DeliverTarget'
    BY <1>3 DEF Unregister, IsCurrent
  <1>4. ASSUME NEW c \in Conns, FailLock(c) PROVE DeliverTarget'
    BY <1>4 DEF FailLock
  <1>5. ASSUME NEW c \in Conns, Fail(c) PROVE DeliverTarget'
    BY <1>5 DEF Fail, HasRoom
  <1>6. ASSUME NEW c \in Conns, FailEnd(c) PROVE DeliverTarget'
    BY <1>6 DEF FailEnd, AllFailed
  <1>7. ASSUME NEW c \in Conns, ReadError(c) PROVE DeliverTarget'
    BY <1>7 DEF ReadError
  <1>8. ASSUME NEW c \in Conns, Dispatch(c) PROVE DeliverTarget'
    <2> DEFINE w == waiters[<<ConnAgent[c], evt[c].msg>>]
    <2>1. CASE IsCurrent(c) /\ w # None
      <3>1. /\ mu = None /\ UNCHANGED <<target, evt>>
            /\ pc' = [pc EXCEPT ![c] = "deliverLock"] /\ at' = [at EXCEPT ![c] = w]
        BY <1>8, <2>1 DEF Dispatch
      <3>2. <<ConnAgent[c], evt[c].msg>> \in Keys
        BY <1>8 DEF Dispatch, Event
      <3>3. target[w] = c /\ Key(w) = <<ConnAgent[c], evt[c].msg>>
        BY <2>1, <3>1, <3>2 DEF IsCurrent
      <3>4. \A d \in Conns : d # c => pc'[d] = pc[d] /\ at'[d] = at[d]
        BY <3>1
      <3>5. pc'[c] = "deliverLock" /\ at'[c] = w
        BY <3>1
      <3>6. ChatMsg[w] = evt[c].msg
        BY <3>3
      <3> HIDE DEF w
      <3> QED BY <3>1, <3>3, <3>4, <3>5, <3>6
    <2>2. CASE ~(IsCurrent(c) /\ w # None)
      <3>1. /\ pc' = [pc EXCEPT ![c] = "read"] /\ UNCHANGED <<at, target>>
            /\ evt' = [evt EXCEPT ![c] = None]
        BY <1>8, <2>2 DEF Dispatch
      <3> QED BY <3>1
    <2> QED BY <2>1, <2>2
  <1>9. ASSUME NEW c \in Conns, DeliverLock(c) PROVE DeliverTarget'
    BY <1>9 DEF DeliverLock
  <1>10. ASSUME NEW c \in Conns, Deliver(c) PROVE DeliverTarget'
    BY <1>10 DEF Deliver, HasRoom, RemovesWaiter
  <1>11. ASSUME NEW p \in Procs, RemoveWaiter(p) PROVE DeliverTarget'
    BY <1>11 DEF RemoveWaiter, RemovalKey, AfterRemoval
  <1>12. ASSUME NEW p \in Procs, Cancel(p) PROVE DeliverTarget'
    BY <1>12 DEF Cancel, AfterRemoval
  <1>13. ASSUME NEW ch \in Chats, SendTask(ch) PROVE DeliverTarget'
    BY <1>13 DEF SendTask
  <1>14. ASSUME NEW ch \in Chats, WriteTask(ch) PROVE DeliverTarget'
    BY <1>14 DEF WriteTask
  <1>15. ASSUME NEW ch \in Chats, Forward(ch) PROVE DeliverTarget'
    BY <1>15 DEF Forward, EndsChat
  <1>16. ASSUME NEW c \in Conns, NEW m \in MsgIDs, FailNext(c, m) PROVE DeliverTarget'
    BY <1>16 DEF FailNext
  <1>17. ASSUME NEW c \in Conns, NEW agent \in Agents, NEW m \in MsgIDs,
                NEW terminal \in BOOLEAN, Read(c, agent, m, terminal)
         PROVE  DeliverTarget'
    BY <1>17 DEF Read
  <1>18. CASE UNCHANGED vars
    BY <1>18 DEF vars
  <1> HIDE DEF TypeInv, TypeOK, InHand, DeliverTarget, WaiterKeys, Unsent,
      LockHolder, WaitersMatchRuntime, Goto, Procs, Keys, Key
  <1> QED
    BY <1>1, <1>2, <1>3, <1>4, <1>5, <1>6, <1>7, <1>8, <1>9, <1>10, <1>11,
        <1>12, <1>13, <1>14, <1>15, <1>16, <1>17, <1>18
       DEF Next, ConnStep, RuntimeStep, ChatStep, Procs

\* Sending an answer on a channel leaves only answers in it.
LEMMA AppendAnswers ==
  ASSUME NEW w \in Chats, NEW e, Answers(w, e), TypeOK,
         AnswersComeFromTaskConnection, UNCHANGED <<got, target>>,
         events' = [events EXCEPT ![w] = Append(@, e)]
  PROVE  AnswersComeFromTaskConnection'
  <1>1. events[w] \in Seq(Event)
    BY DEF TypeOK
  <1>2. \A i \in DOMAIN Append(events[w], e) : Answers(w, Append(events[w], e)[i])
    BY <1>1 DEF AnswersComeFromTaskConnection
  <1>3. \A x \in Chats : x # w => events'[x] = events[x]
    BY DEF TypeOK
  <1>4. events'[w] = Append(events[w], e)
    BY DEF TypeOK
  <1> QED BY <1>2, <1>3, <1>4 DEF AnswersComeFromTaskConnection, Answers

\* What reaches a channel or a browser answers its chat.
LEMMA NextAnswers ==
  ASSUME TypeInv, AnswersComeFromTaskConnection, DeliverTarget, Unsent,
      [Next]_vars
  PROVE  AnswersComeFromTaskConnection'
  <1> USE DEF TypeInv, TypeOK, InHand, DeliverTarget, Unsent,
      AnswersComeFromTaskConnection, Answers, Goto, Procs
  <1>1. ASSUME NEW c \in Conns, Hello(c) PROVE AnswersComeFromTaskConnection'
    BY <1>1 DEF Hello
  <1>2. ASSUME NEW c \in Conns, Register(c) PROVE AnswersComeFromTaskConnection'
    BY <1>2 DEF Register
  <1>3. ASSUME NEW c \in Conns, Unregister(c) PROVE AnswersComeFromTaskConnection'
    BY <1>3 DEF Unregister, IsCurrent
  <1>4. ASSUME NEW c \in Conns, FailLock(c) PROVE AnswersComeFromTaskConnection'
    BY <1>4 DEF FailLock
  <1>5. ASSUME NEW c \in Conns, Fail(c) PROVE AnswersComeFromTaskConnection'
    <2> DEFINE e == [msg |-> ChatMsg[at[c]], terminal |-> TRUE, from |-> None]
    <2>1. at[c] \in Chats /\ UNCHANGED <<got, target>>
      BY <1>5 DEF Fail
    <2>2. events' = events \/ events' = [events EXCEPT ![at[c]] = Append(@, e)]
      BY <1>5 DEF Fail
    <2>3. Answers(at[c], e)
      OBVIOUS
    <2> HIDE DEF e
    <2>4. CASE events' = events
      BY <2>1, <2>4
    <2>5. CASE events' = [events EXCEPT ![at[c]] = Append(@, e)]
      <3> HIDE DEF AnswersComeFromTaskConnection, Answers
      <3> QED BY <2>1, <2>3, <2>5, AppendAnswers
    <2>6. QED BY <2>2, <2>4, <2>5
  <1>6. ASSUME NEW c \in Conns, FailEnd(c) PROVE AnswersComeFromTaskConnection'
    BY <1>6 DEF FailEnd, AllFailed
  <1>7. ASSUME NEW c \in Conns, ReadError(c) PROVE AnswersComeFromTaskConnection'
    BY <1>7 DEF ReadError
  <1>8. ASSUME NEW c \in Conns, Dispatch(c) PROVE AnswersComeFromTaskConnection'
    BY <1>8 DEF Dispatch, IsCurrent
  <1>9. ASSUME NEW c \in Conns, DeliverLock(c) PROVE AnswersComeFromTaskConnection'
    BY <1>9 DEF DeliverLock
  <1>10. ASSUME NEW c \in Conns, Deliver(c) PROVE AnswersComeFromTaskConnection'
    <2>1. at[c] \in Chats /\ UNCHANGED <<got, target>>
      BY <1>10 DEF Deliver
    <2>2. events' = events \/ events' = [events EXCEPT ![at[c]] = Append(@, evt[c])]
      BY <1>10 DEF Deliver
    <2>3. evt[c] \in Event /\ Answers(at[c], evt[c])
      BY <1>10 DEF Deliver
    <2>4. CASE events' = events
      BY <2>1, <2>4
    <2>5. CASE events' = [events EXCEPT ![at[c]] = Append(@, evt[c])]
      <3> HIDE DEF AnswersComeFromTaskConnection, Answers
      <3> QED BY <2>1, <2>3, <2>5, AppendAnswers
    <2>6. QED BY <2>2, <2>4, <2>5
  <1>11. ASSUME NEW p \in Procs, RemoveWaiter(p) PROVE AnswersComeFromTaskConnection'
    BY <1>11 DEF RemoveWaiter, RemovalKey, AfterRemoval
  <1>12. ASSUME NEW p \in Procs, Cancel(p) PROVE AnswersComeFromTaskConnection'
    BY <1>12 DEF Cancel, AfterRemoval
  <1>13. ASSUME NEW ch \in Chats, SendTask(ch) PROVE AnswersComeFromTaskConnection'
    BY <1>13 DEF SendTask
  <1>14. ASSUME NEW ch \in Chats, WriteTask(ch) PROVE AnswersComeFromTaskConnection'
    BY <1>14 DEF WriteTask
  <1>15. ASSUME NEW ch \in Chats, Forward(ch) PROVE AnswersComeFromTaskConnection'
    <2> DEFINE e == Head(events[ch])
    <2>1. events[ch] \in Seq(Event) /\ events[ch] # <<>> /\ UNCHANGED target
      BY <1>15 DEF Forward
    <2>2. events' = [events EXCEPT ![ch] = Tail(@)]
      BY <1>15 DEF Forward
    <2>3. got' = got \/ got' = [got EXCEPT ![ch] = Append(@, e)]
      BY <1>15 DEF Forward
    <2>4. Answers(ch, e)
      BY <2>1
    <2>5. \A x \in Chats : \A i \in DOMAIN events'[x] : Answers(x, events'[x][i])
      BY <2>1, <2>2
    <2>6. \A x \in Chats : \A i \in DOMAIN got'[x] : Answers(x, got'[x][i])
      <3> HIDE DEF e, Answers
      <3>1. /\ got[ch] \in Seq(Event) /\ Answers(ch, e)
            /\ \A x \in Chats : \A i \in DOMAIN got[x] : Answers(x, got[x][i])
        BY <2>4
      <3>2. \A i \in DOMAIN Append(got[ch], e) : Answers(ch, Append(got[ch], e)[i])
        BY <3>1
      <3>3. got' = [got EXCEPT ![ch] = Append(@, e)] =>
              /\ got'[ch] = Append(got[ch], e)
              /\ \A x \in Chats \ {ch} : got'[x] = got[x]
        OBVIOUS
      <3>4. CASE got' = got
        BY <3>1, <3>4
      <3>5. CASE got' = [got EXCEPT ![ch] = Append(@, e)]
        <4>1. ASSUME NEW x \in Chats, NEW i \in DOMAIN got'[x]
              PROVE  Answers(x, got'[x][i])
          <5>1. CASE x = ch
            BY <3>2, <3>3, <3>5, <5>1
          <5>2. CASE x # ch
            BY <3>1, <3>3, <3>5, <5>2
          <5> QED BY <5>1, <5>2
        <4> QED BY <4>1
      <3> QED BY <2>3, <3>4, <3>5
    <2> QED BY <2>1, <2>5, <2>6
  <1>16. ASSUME NEW c \in Conns, NEW m \in MsgIDs, FailNext(c, m) PROVE AnswersComeFromTaskConnection'
    BY <1>16 DEF FailNext
  <1>17. ASSUME NEW c \in Conns, NEW agent \in Agents, NEW m \in MsgIDs,
                NEW terminal \in BOOLEAN, Read(c, agent, m, terminal)
         PROVE  AnswersComeFromTaskConnection'
    BY <1>17 DEF Read
  <1>18. CASE UNCHANGED vars
    BY <1>18 DEF vars
  <1> HIDE DEF TypeInv, TypeOK, InHand, DeliverTarget, Unsent,
      AnswersComeFromTaskConnection, Answers, Goto, Procs
  <1> QED
    BY <1>1, <1>2, <1>3, <1>4, <1>5, <1>6, <1>7, <1>8, <1>9, <1>10, <1>11,
        <1>12, <1>13, <1>14, <1>15, <1>16, <1>17, <1>18
       DEF Next, ConnStep, RuntimeStep, ChatStep, Procs


\* The routing invariant holds initially.
LEMMA InitRoutingInv == Init => RoutingInv
  BY DEF Init, RoutingInv, LockHolder, Unsent, WaiterKeys, DeliverTarget,
      Registered,
         WaitersMatchRuntime, AnswersComeFromTaskConnection, Procs, Keys

\* Every action keeps the routing invariant.
LEMMA NextRoutingInv == TypeInv /\ RoutingInv /\ [Next]_vars => RoutingInv'
  BY NextLockHolder, NextUnsent, NextRegistered, NextWaiterKeys, NextWaitersMatch,
     NextDeliverTarget, NextAnswers DEF RoutingInv

\* Types and routing hold in every state.
LEMMA Routing == Spec => [](TypeInv /\ RoutingInv)
  <1>1. TypeInv /\ [Next]_vars => TypeInv'
    BY NextTypeInv
  <1>2. QED
    BY InitTypeInv, InitRoutingInv, <1>1, NextRoutingInv, PTL DEF Spec

\* A browser only ever gets answers to its own message, from the connection its
\* task was written to or from the registry.
THEOREM AnswersCorrect == Spec => []AnswersComeFromTaskConnection
  BY Routing, PTL DEF RoutingInv

\* A waiter in the map waits for the registered connection, or is being failed.
THEOREM WaitersCorrect == Spec => []WaitersMatchRuntime
  BY Routing, PTL DEF RoutingInv

\* The registry never holds a connection the server has closed.
THEOREM RegistryCorrect == Spec => []RegisteredIsOpen
  <1>1. RoutingInv => RegisteredIsOpen
    BY DEF RoutingInv, Registered, RegisteredIsOpen
  <1>2. QED
    BY Routing, <1>1, PTL

-----------------------------------------------------------------------------
(* A waiting chat is never forgotten *)

\* What every step keeps of a chat: a settled chat stays settled while it waits,
\* and a chat starts waiting only by sending its task.
Keep(ch) ==
  /\ ch \in Settled /\ ch \in Waiting' => ch \in Settled'
  /\ ch \in Waiting' => ch \in Waiting \/ pc[ch] = "send"
  /\ pc'[ch] = "send" => pc[ch] = "send"

\* A send settles its chat if the event is terminal, and unsettles none.
LEMMA AppendSettled ==
  ASSUME TypeOK, NEW w \in Chats, NEW e, events' = [events EXCEPT ![w] = Append(@, e)]
  PROVE  /\ e.terminal => w \in Settled'
         /\ \A y \in Chats : y \in Settled => y \in Settled'
  <1> DEFINE s == events[w]
  <1>1. s \in Seq(Event) /\ events'[w] = Append(s, e)
    BY DEF TypeOK
  <1>2. \A y \in Chats : y # w => events'[y] = events[y]
    BY DEF TypeOK
  <1>3. e.terminal => w \in Settled'
    <2>1. Len(s) + 1 \in DOMAIN Append(s, e) /\ Append(s, e)[Len(s) + 1] = e
      BY <1>1
    <2> QED BY <1>1, <2>1 DEF Settled
  <1>4. w \in Settled => w \in Settled'
    <2>1. \A i \in DOMAIN s : i \in DOMAIN Append(s, e) /\ Append(s, e)[i] = s[i]
      BY <1>1
    <2> QED BY <1>1, <2>1 DEF Settled
  <1> QED BY <1>2, <1>3, <1>4 DEF Settled

\* A receive leaves its chat settled unless it takes the terminal event.
LEMMA TailSettled ==
  ASSUME TypeOK, NEW ch \in Chats, events[ch] # <<>>, ~Head(events[ch]).terminal,
         events' = [events EXCEPT ![ch] = Tail(@)], ch \in Settled
  PROVE  ch \in Settled'
  <1> DEFINE s == events[ch]
  <1>1. s \in Seq(Event) /\ s # <<>> /\ events'[ch] = Tail(s)
    BY DEF TypeOK
  <1>2. PICK i \in DOMAIN s : s[i].terminal
    BY DEF Settled
  <1>3. i # 1
    BY <1>1, <1>2
  <1>4. i - 1 \in DOMAIN Tail(s) /\ Tail(s)[i - 1] = s[i]
    BY <1>1, <1>2, <1>3
  <1> QED BY <1>1, <1>2, <1>4 DEF Settled

\* A chat keeps the connection it has captured, so a shared key stays shared.
LEMMA NextUnshared ==
  ASSUME TypeInv, Unsent, [Next]_vars
  PROVE  /\ \A ch \in Chats : target[ch] # None => target'[ch] = target[ch]
         /\ Unshared' \subseteq Unshared
  <1>1. ASSUME NEW ch \in Chats, SendTask(ch)
        PROVE  \A x \in Chats : target[x] # None => target'[x] = target[x]
    BY <1>1 DEF SendTask, Unsent, TypeInv, TypeOK
  <1>2. CASE UNCHANGED target
    BY <1>2 DEF Unshared, Key
  <1>3. \A ch \in Chats : target[ch] # None => target'[ch] = target[ch]
    BY <1>1, <1>2, ZenonT(60)
       DEF Next, ConnStep, RuntimeStep, ChatStep, vars, Hello, Register, Unregister,
           FailNext, FailLock, Fail, FailEnd, Read, ReadError, Dispatch, DeliverLock,
           Deliver, RemoveWaiter, Cancel, WriteTask, Forward
  <1>4. Unshared' \subseteq Unshared
    BY <1>3 DEF Unshared, Key
  <1> QED BY <1>3, <1>4

\* A chat leaves Settled only while it leaves Waiting, and never unsends.
LEMMA NextKeep ==
  ASSUME TypeInv, NEW x \in Chats, Unshared' \subseteq Unshared, [Next]_vars
  PROVE  Keep(x)
  <1> USE DEF TypeInv, TypeOK, InHand, Keep, Settled, Waiting, Goto, Procs
  <1>1. ASSUME NEW c \in Conns, Hello(c) PROVE Keep(x)
    BY <1>1 DEF Hello
  <1>2. ASSUME NEW c \in Conns, Register(c) PROVE Keep(x)
    BY <1>2 DEF Register
  <1>3. ASSUME NEW c \in Conns, Unregister(c) PROVE Keep(x)
    BY <1>3 DEF Unregister, IsCurrent
  <1>4. ASSUME NEW c \in Conns, FailLock(c) PROVE Keep(x)
    BY <1>4 DEF FailLock
  <1>5. ASSUME NEW c \in Conns, Fail(c) PROVE Keep(x)
    <2> DEFINE e == [msg |-> ChatMsg[at[c]], terminal |-> TRUE, from |-> None]
    <2>1. at[c] \in Chats /\ pc' = [pc EXCEPT ![c] = "failing"]
      BY <1>5 DEF Fail
    <2>2. events' = events \/ events' = [events EXCEPT ![at[c]] = Append(@, e)]
      BY <1>5 DEF Fail
    <2> HIDE DEF e, Settled
    <2>3. x \in Settled => x \in Settled'
      <3>1. CASE events' = events
        BY <3>1 DEF Settled
      <3>2. CASE events' = [events EXCEPT ![at[c]] = Append(@, e)]
        BY <2>1, <3>2, AppendSettled
      <3> QED BY <2>2, <3>1, <3>2
    <2>4. pc'[x] = pc[x]
      BY <2>1
    <2> QED BY <2>3, <2>4
  <1>6. ASSUME NEW c \in Conns, FailEnd(c) PROVE Keep(x)
    BY <1>6 DEF FailEnd, AllFailed
  <1>7. ASSUME NEW c \in Conns, ReadError(c) PROVE Keep(x)
    BY <1>7 DEF ReadError
  <1>8. ASSUME NEW c \in Conns, Dispatch(c) PROVE Keep(x)
    BY <1>8 DEF Dispatch, IsCurrent
  <1>9. ASSUME NEW c \in Conns, DeliverLock(c) PROVE Keep(x)
    BY <1>9 DEF DeliverLock
  <1>10. ASSUME NEW c \in Conns, Deliver(c) PROVE Keep(x)
    <2>1. at[c] \in Chats /\ pc'[x] = pc[x]
      BY <1>10 DEF Deliver
    <2>2. events' = events \/ events' = [events EXCEPT ![at[c]] = Append(@, evt[c])]
      BY <1>10 DEF Deliver
    <2>3. x \in Settled => x \in Settled'
      <3>1. CASE events' = events
        BY <3>1 DEF Settled
      <3>2. CASE events' = [events EXCEPT ![at[c]] = Append(@, evt[c])]
        <4>1. TypeOK
          OBVIOUS
        <4> HIDE DEF Settled, TypeOK, InHand, Waiting, Keep
        <4> QED BY <2>1, <3>2, <4>1, AppendSettled
      <3> QED BY <2>2, <3>1, <3>2
    <2> HIDE DEF Settled
    <2> QED BY <2>1, <2>3
  <1>11. ASSUME NEW p \in Procs, RemoveWaiter(p) PROVE Keep(x)
    BY <1>11 DEF RemoveWaiter, RemovalKey, AfterRemoval
  <1>12. ASSUME NEW p \in Procs, Cancel(p) PROVE Keep(x)
    BY <1>12 DEF Cancel, AfterRemoval
  <1>13. ASSUME NEW ch \in Chats, SendTask(ch) PROVE Keep(x)
    BY <1>13 DEF SendTask
  <1>14. ASSUME NEW ch \in Chats, WriteTask(ch) PROVE Keep(x)
    BY <1>14 DEF WriteTask
  <1>15. ASSUME NEW ch \in Chats, Forward(ch) PROVE Keep(x)
    <2>1. /\ events[ch] # <<>> /\ pc[ch] = "range"
          /\ events' = [events EXCEPT ![ch] = Tail(@)]
      BY <1>15 DEF Forward
    <2>2. PICK l \in {"range", "remove"} :
            /\ pc' = [pc EXCEPT ![ch] = l]
            /\ l = "range" => ~Head(events[ch]).terminal
      BY <1>15 DEF Forward, EndsChat
    <2>3. CASE x # ch
      BY <2>1, <2>2, <2>3
    <2>4. CASE x = ch
      <3>1. l = "range" /\ ch \in Settled => ch \in Settled'
        BY <2>1, <2>2, TailSettled
      <3> QED BY <2>1, <2>2, <2>4, <3>1
    <2> QED BY <2>3, <2>4
  <1>16. ASSUME NEW c \in Conns, NEW m \in MsgIDs, FailNext(c, m) PROVE Keep(x)
    BY <1>16 DEF FailNext
  <1>17. ASSUME NEW c \in Conns, NEW agent \in Agents, NEW m \in MsgIDs,
                NEW terminal \in BOOLEAN, Read(c, agent, m, terminal)
         PROVE  Keep(x)
    BY <1>17 DEF Read
  <1>18. CASE UNCHANGED vars
    BY <1>18 DEF vars
  <1> HIDE DEF TypeInv, TypeOK, InHand, Keep, Settled, Waiting, Goto, Procs
  <1> QED
    BY <1>1, <1>2, <1>3, <1>4, <1>5, <1>6, <1>7, <1>8, <1>9, <1>10, <1>11,
        <1>12, <1>13, <1>14, <1>15, <1>16, <1>17, <1>18
       DEF Next, ConnStep, RuntimeStep, ChatStep, Procs

\* Dispatch takes the waiter of the event's key, whose chat has sent.
LEMMA NextDeliverKey ==
  ASSUME TypeInv, DeliverKey, WaiterKeys, WaiterSent, \A x \in Chats : Keep(x),
      [Next]_vars
  PROVE  DeliverKey'
  <1> USE DEF TypeInv, TypeOK, InHand, DeliverKey, WaiterKeys, WaiterSent,
      Goto, Procs, Keys, Keep
  <1>1. ASSUME NEW c \in Conns, Hello(c) PROVE DeliverKey'
    BY <1>1 DEF Hello
  <1>2. ASSUME NEW c \in Conns, Register(c) PROVE DeliverKey'
    BY <1>2 DEF Register
  <1>3. ASSUME NEW c \in Conns, Unregister(c) PROVE DeliverKey'
    BY <1>3 DEF Unregister, IsCurrent
  <1>4. ASSUME NEW c \in Conns, FailLock(c) PROVE DeliverKey'
    BY <1>4 DEF FailLock
  <1>5. ASSUME NEW c \in Conns, Fail(c) PROVE DeliverKey'
    BY <1>5 DEF Fail, HasRoom
  <1>6. ASSUME NEW c \in Conns, FailEnd(c) PROVE DeliverKey'
    BY <1>6 DEF FailEnd, AllFailed
  <1>7. ASSUME NEW c \in Conns, ReadError(c) PROVE DeliverKey'
    BY <1>7 DEF ReadError
  <1>8. ASSUME NEW c \in Conns, Dispatch(c) PROVE DeliverKey'
    <2> DEFINE w == waiters[<<ConnAgent[c], evt[c].msg>>]
    <2>1. CASE IsCurrent(c) /\ w # None
      <3>1. /\ UNCHANGED evt
            /\ pc' = [pc EXCEPT ![c] = "deliverLock"] /\ at' = [at EXCEPT ![c] = w]
        BY <1>8, <2>1 DEF Dispatch
      <3>2. <<ConnAgent[c], evt[c].msg>> \in Keys
        BY <1>8 DEF Dispatch, Event
      <3>3. w \in Chats /\ Key(w) = <<ConnAgent[c], evt[c].msg>> /\ pc[w] # "send"
        BY <2>1, <3>2
      <3>4. \A d \in Conns : d # c => pc'[d] = pc[d] /\ at'[d] = at[d]
        BY <3>1
      <3>5. pc'[c] = "deliverLock" /\ at'[c] = w
        BY <3>1
      <3> HIDE DEF w
      <3> QED BY <3>1, <3>3, <3>4, <3>5
    <2>2. CASE ~(IsCurrent(c) /\ w # None)
      <3>1. /\ pc' = [pc EXCEPT ![c] = "read"] /\ UNCHANGED at
            /\ evt' = [evt EXCEPT ![c] = None]
        BY <1>8, <2>2 DEF Dispatch
      <3> QED BY <3>1
    <2> QED BY <2>1, <2>2
  <1>9. ASSUME NEW c \in Conns, DeliverLock(c) PROVE DeliverKey'
    BY <1>9 DEF DeliverLock
  <1>10. ASSUME NEW c \in Conns, Deliver(c) PROVE DeliverKey'
    BY <1>10 DEF Deliver, HasRoom, RemovesWaiter
  <1>11. ASSUME NEW p \in Procs, RemoveWaiter(p) PROVE DeliverKey'
    BY <1>11 DEF RemoveWaiter, RemovalKey, AfterRemoval
  <1>12. ASSUME NEW p \in Procs, Cancel(p) PROVE DeliverKey'
    BY <1>12 DEF Cancel, AfterRemoval
  <1>13. ASSUME NEW ch \in Chats, SendTask(ch) PROVE DeliverKey'
    BY <1>13 DEF SendTask
  <1>14. ASSUME NEW ch \in Chats, WriteTask(ch) PROVE DeliverKey'
    BY <1>14 DEF WriteTask
  <1>15. ASSUME NEW ch \in Chats, Forward(ch) PROVE DeliverKey'
    BY <1>15 DEF Forward, EndsChat
  <1>16. ASSUME NEW c \in Conns, NEW m \in MsgIDs, FailNext(c, m) PROVE DeliverKey'
    BY <1>16 DEF FailNext
  <1>17. ASSUME NEW c \in Conns, NEW agent \in Agents, NEW m \in MsgIDs,
                NEW terminal \in BOOLEAN, Read(c, agent, m, terminal)
         PROVE  DeliverKey'
    BY <1>17 DEF Read
  <1>18. CASE UNCHANGED vars
    BY <1>18 DEF vars
  <1> HIDE DEF TypeInv, TypeOK, InHand, DeliverKey, WaiterKeys, WaiterSent,
      Goto, Procs, Keys, Keep
  <1> QED
    BY <1>1, <1>2, <1>3, <1>4, <1>5, <1>6, <1>7, <1>8, <1>9, <1>10, <1>11,
        <1>12, <1>13, <1>14, <1>15, <1>16, <1>17, <1>18
       DEF Next, ConnStep, RuntimeStep, ChatStep, Procs

\* A waiter is added by the chat that sends.
LEMMA NextWaiterSent ==
  ASSUME TypeInv, WaiterSent, \A x \in Chats : Keep(x), [Next]_vars
  PROVE  WaiterSent'
  <1> USE DEF TypeInv, TypeOK, WaiterSent, Goto, Procs, Keys, Keep
  <1>1. ASSUME NEW c \in Conns, Hello(c) PROVE WaiterSent'
    BY <1>1 DEF Hello
  <1>2. ASSUME NEW c \in Conns, Register(c) PROVE WaiterSent'
    BY <1>2 DEF Register
  <1>3. ASSUME NEW c \in Conns, Unregister(c) PROVE WaiterSent'
    BY <1>3 DEF Unregister, IsCurrent
  <1>4. ASSUME NEW c \in Conns, FailLock(c) PROVE WaiterSent'
    BY <1>4 DEF FailLock
  <1>5. ASSUME NEW c \in Conns, Fail(c) PROVE WaiterSent'
    BY <1>5 DEF Fail, HasRoom
  <1>6. ASSUME NEW c \in Conns, FailEnd(c) PROVE WaiterSent'
    BY <1>6 DEF FailEnd, AllFailed
  <1>7. ASSUME NEW c \in Conns, ReadError(c) PROVE WaiterSent'
    BY <1>7 DEF ReadError
  <1>8. ASSUME NEW c \in Conns, Dispatch(c) PROVE WaiterSent'
    BY <1>8 DEF Dispatch, IsCurrent
  <1>9. ASSUME NEW c \in Conns, DeliverLock(c) PROVE WaiterSent'
    BY <1>9 DEF DeliverLock
  <1>10. ASSUME NEW c \in Conns, Deliver(c) PROVE WaiterSent'
    BY <1>10 DEF Deliver, HasRoom, RemovesWaiter
  <1>11. ASSUME NEW p \in Procs, RemoveWaiter(p) PROVE WaiterSent'
    BY <1>11 DEF RemoveWaiter, RemovalKey, AfterRemoval
  <1>12. ASSUME NEW p \in Procs, Cancel(p) PROVE WaiterSent'
    BY <1>12 DEF Cancel, AfterRemoval
  <1>13. ASSUME NEW ch \in Chats, SendTask(ch) PROVE WaiterSent'
    BY <1>13 DEF SendTask
  <1>14. ASSUME NEW ch \in Chats, WriteTask(ch) PROVE WaiterSent'
    BY <1>14 DEF WriteTask
  <1>15. ASSUME NEW ch \in Chats, Forward(ch) PROVE WaiterSent'
    BY <1>15 DEF Forward, EndsChat
  <1>16. ASSUME NEW c \in Conns, NEW m \in MsgIDs, FailNext(c, m) PROVE WaiterSent'
    BY <1>16 DEF FailNext
  <1>17. ASSUME NEW c \in Conns, NEW agent \in Agents, NEW m \in MsgIDs,
                NEW terminal \in BOOLEAN, Read(c, agent, m, terminal)
         PROVE  WaiterSent'
    BY <1>17 DEF Read
  <1>18. CASE UNCHANGED vars
    BY <1>18 DEF vars
  <1> HIDE DEF TypeInv, TypeOK, WaiterSent, Goto, Procs, Keys, Keep
  <1> QED
    BY <1>1, <1>2, <1>3, <1>4, <1>5, <1>6, <1>7, <1>8, <1>9, <1>10, <1>11,
        <1>12, <1>13, <1>14, <1>15, <1>16, <1>17, <1>18
       DEF Next, ConnStep, RuntimeStep, ChatStep, Procs

\* A waiter is closed after its terminal event, or by its own chat.
LEMMA NextDoneSettled ==
  ASSUME TypeInv, DoneSettled, CancelSettled, \A x \in Chats : Keep(x),
      UnsentUntouched, [Next]_vars
  PROVE  DoneSettled'
  <1> USE DEF TypeInv, TypeOK, InHand, DoneSettled, CancelSettled,
      UnsentUntouched, Goto, Procs, Keep
  <1>1. ASSUME NEW c \in Conns, Hello(c) PROVE DoneSettled'
    BY <1>1 DEF Hello
  <1>2. ASSUME NEW c \in Conns, Register(c) PROVE DoneSettled'
    BY <1>2 DEF Register
  <1>3. ASSUME NEW c \in Conns, Unregister(c) PROVE DoneSettled'
    BY <1>3 DEF Unregister, IsCurrent
  <1>4. ASSUME NEW c \in Conns, FailLock(c) PROVE DoneSettled'
    BY <1>4 DEF FailLock
  <1>5. ASSUME NEW c \in Conns, Fail(c) PROVE DoneSettled'
    <2> DEFINE e == [msg |-> ChatMsg[at[c]], terminal |-> TRUE, from |-> None]
    <2>1. at[c] \in Chats
      BY <1>5 DEF Fail
    <2>2. CASE UNCHANGED done
      BY <2>2
    <2>3. CASE /\ events' = [events EXCEPT ![at[c]] = Append(@, e)]
               /\ done' = [done EXCEPT ![at[c]] = TRUE]
      <3>0. e.terminal
        OBVIOUS
      <3> HIDE DEF e
      <3>1. at[c] \in Settled'
        BY <2>1, <2>3, <3>0, AppendSettled
      <3> QED BY <2>3, <3>1
    <2> QED BY <1>5, <2>2, <2>3 DEF Fail
  <1>6. ASSUME NEW c \in Conns, FailEnd(c) PROVE DoneSettled'
    BY <1>6 DEF FailEnd, AllFailed
  <1>7. ASSUME NEW c \in Conns, ReadError(c) PROVE DoneSettled'
    BY <1>7 DEF ReadError
  <1>8. ASSUME NEW c \in Conns, Dispatch(c) PROVE DoneSettled'
    BY <1>8 DEF Dispatch, IsCurrent
  <1>9. ASSUME NEW c \in Conns, DeliverLock(c) PROVE DoneSettled'
    BY <1>9 DEF DeliverLock
  <1>10. ASSUME NEW c \in Conns, Deliver(c) PROVE DoneSettled'
    BY <1>10 DEF Deliver, HasRoom, RemovesWaiter
  <1>11. ASSUME NEW p \in Procs, RemoveWaiter(p) PROVE DoneSettled'
    BY <1>11 DEF RemoveWaiter, RemovalKey, AfterRemoval
  <1>12. ASSUME NEW p \in Procs, Cancel(p) PROVE DoneSettled'
    <2>1. /\ at[p] \in Chats /\ pc[p] = "cancel"
          /\ done' = [done EXCEPT ![at[p]] = TRUE]
      BY <1>12 DEF Cancel
    <2>2. at[p] \in Waiting' => at[p] \in Settled'
      BY <2>1
    <2> QED BY <2>1, <2>2
  <1>13. ASSUME NEW ch \in Chats, SendTask(ch) PROVE DoneSettled'
    BY <1>13 DEF SendTask
  <1>14. ASSUME NEW ch \in Chats, WriteTask(ch) PROVE DoneSettled'
    BY <1>14 DEF WriteTask
  <1>15. ASSUME NEW ch \in Chats, Forward(ch) PROVE DoneSettled'
    BY <1>15 DEF Forward, EndsChat
  <1>16. ASSUME NEW c \in Conns, NEW m \in MsgIDs, FailNext(c, m) PROVE DoneSettled'
    BY <1>16 DEF FailNext
  <1>17. ASSUME NEW c \in Conns, NEW agent \in Agents, NEW m \in MsgIDs,
                NEW terminal \in BOOLEAN, Read(c, agent, m, terminal)
         PROVE  DoneSettled'
    BY <1>17 DEF Read
  <1>18. CASE UNCHANGED vars
    BY <1>18 DEF vars
  <1> HIDE DEF TypeInv, TypeOK, InHand, DoneSettled, CancelSettled,
      UnsentUntouched, Goto, Procs, Keep
  <1> QED
    BY <1>1, <1>2, <1>3, <1>4, <1>5, <1>6, <1>7, <1>8, <1>9, <1>10, <1>11,
        <1>12, <1>13, <1>14, <1>15, <1>16, <1>17, <1>18
       DEF Next, ConnStep, RuntimeStep, ChatStep, Procs

\* No handler has the waiter of a chat that has not sent.
LEMMA NextUnsentUntouched ==
  ASSUME TypeInv, UnsentUntouched, WaiterSent, \A x \in Chats : Keep(x),
      [Next]_vars
  PROVE  UnsentUntouched'
  <1> USE DEF TypeInv, TypeOK, InHand, UnsentUntouched, WaiterSent, Goto,
      Procs, Keys, Keep
  <1>1. ASSUME NEW c \in Conns, Hello(c) PROVE UnsentUntouched'
    BY <1>1 DEF Hello
  <1>2. ASSUME NEW c \in Conns, Register(c) PROVE UnsentUntouched'
    BY <1>2 DEF Register
  <1>3. ASSUME NEW c \in Conns, Unregister(c) PROVE UnsentUntouched'
    BY <1>3 DEF Unregister, IsCurrent
  <1>4. ASSUME NEW c \in Conns, FailLock(c) PROVE UnsentUntouched'
    BY <1>4 DEF FailLock
  <1>5. ASSUME NEW c \in Conns, Fail(c) PROVE UnsentUntouched'
    BY <1>5 DEF Fail, HasRoom
  <1>6. ASSUME NEW c \in Conns, FailEnd(c) PROVE UnsentUntouched'
    BY <1>6 DEF FailEnd, AllFailed
  <1>7. ASSUME NEW c \in Conns, ReadError(c) PROVE UnsentUntouched'
    BY <1>7 DEF ReadError
  <1>8. ASSUME NEW c \in Conns, Dispatch(c) PROVE UnsentUntouched'
    BY <1>8 DEF Dispatch, IsCurrent
  <1>9. ASSUME NEW c \in Conns, DeliverLock(c) PROVE UnsentUntouched'
    BY <1>9 DEF DeliverLock
  <1>10. ASSUME NEW c \in Conns, Deliver(c) PROVE UnsentUntouched'
    BY <1>10 DEF Deliver, HasRoom, RemovesWaiter
  <1>11. ASSUME NEW p \in Procs, RemoveWaiter(p) PROVE UnsentUntouched'
    <2> DEFINE k == RemovalKey(p)
    <2>1. k \in Keys
      BY <1>11 DEF RemoveWaiter, RemovalKey, Key, Event
    <2>2. at' = [at EXCEPT ![p] = waiters[k]] /\ UNCHANGED done
      BY <1>11 DEF RemoveWaiter
    <2>3. PICK l : pc' = [pc EXCEPT ![p] = l]
      BY <1>11 DEF RemoveWaiter
    <2>4. \A x \in Chats : pc[x] = "send" => waiters[k] # x
      BY <2>1
    <2> HIDE DEF k
    <2>5. ASSUME NEW x \in Chats, pc'[x] = "send", NEW q \in Procs,
                 pc'[q] \in {"cancel", "failLock", "fail"}
          PROVE  at'[q] # x
      <3>1. CASE q = p
        BY <2>2, <2>4, <2>5, <3>1
      <3>2. CASE q # p
        BY <2>2, <2>3, <2>5, <3>2
      <3> QED BY <3>1, <3>2
    <2> QED BY <2>2, <2>5
  <1>12. ASSUME NEW p \in Procs, Cancel(p) PROVE UnsentUntouched'
    BY <1>12 DEF Cancel, AfterRemoval
  <1>13. ASSUME NEW ch \in Chats, SendTask(ch) PROVE UnsentUntouched'
    BY <1>13 DEF SendTask
  <1>14. ASSUME NEW ch \in Chats, WriteTask(ch) PROVE UnsentUntouched'
    BY <1>14 DEF WriteTask
  <1>15. ASSUME NEW ch \in Chats, Forward(ch) PROVE UnsentUntouched'
    BY <1>15 DEF Forward, EndsChat
  <1>16. ASSUME NEW c \in Conns, NEW m \in MsgIDs, FailNext(c, m) PROVE UnsentUntouched'
    BY <1>16 DEF FailNext
  <1>17. ASSUME NEW c \in Conns, NEW agent \in Agents, NEW m \in MsgIDs,
                NEW terminal \in BOOLEAN, Read(c, agent, m, terminal)
         PROVE  UnsentUntouched'
    BY <1>17 DEF Read
  <1>18. CASE UNCHANGED vars
    BY <1>18 DEF vars
  <1> HIDE DEF TypeInv, TypeOK, InHand, UnsentUntouched, WaiterSent, Goto,
      Procs, Keys, Keep
  <1> QED
    BY <1>1, <1>2, <1>3, <1>4, <1>5, <1>6, <1>7, <1>8, <1>9, <1>10, <1>11,
        <1>12, <1>13, <1>14, <1>15, <1>16, <1>17, <1>18
       DEF Next, ConnStep, RuntimeStep, ChatStep, Procs

\* A chat that waits, or is about to remove its waiter, has sent.
LEMMA NextSentTarget ==
  ASSUME TypeInv, SentTarget, Unsent, [Next]_vars
  PROVE  SentTarget'
  <1> USE DEF TypeInv, TypeOK, SentTarget, Unsent, Goto, Procs
  <1>1. ASSUME NEW c \in Conns, Hello(c) PROVE SentTarget'
    BY <1>1 DEF Hello
  <1>2. ASSUME NEW c \in Conns, Register(c) PROVE SentTarget'
    BY <1>2 DEF Register
  <1>3. ASSUME NEW c \in Conns, Unregister(c) PROVE SentTarget'
    BY <1>3 DEF Unregister, IsCurrent
  <1>4. ASSUME NEW c \in Conns, FailLock(c) PROVE SentTarget'
    BY <1>4 DEF FailLock
  <1>5. ASSUME NEW c \in Conns, Fail(c) PROVE SentTarget'
    BY <1>5 DEF Fail, HasRoom
  <1>6. ASSUME NEW c \in Conns, FailEnd(c) PROVE SentTarget'
    BY <1>6 DEF FailEnd, AllFailed
  <1>7. ASSUME NEW c \in Conns, ReadError(c) PROVE SentTarget'
    BY <1>7 DEF ReadError
  <1>8. ASSUME NEW c \in Conns, Dispatch(c) PROVE SentTarget'
    BY <1>8 DEF Dispatch, IsCurrent
  <1>9. ASSUME NEW c \in Conns, DeliverLock(c) PROVE SentTarget'
    BY <1>9 DEF DeliverLock
  <1>10. ASSUME NEW c \in Conns, Deliver(c) PROVE SentTarget'
    BY <1>10 DEF Deliver, HasRoom, RemovesWaiter
  <1>11. ASSUME NEW p \in Procs, RemoveWaiter(p) PROVE SentTarget'
    BY <1>11 DEF RemoveWaiter, RemovalKey, AfterRemoval
  <1>12. ASSUME NEW p \in Procs, Cancel(p) PROVE SentTarget'
    BY <1>12 DEF Cancel, AfterRemoval
  <1>13. ASSUME NEW ch \in Chats, SendTask(ch) PROVE SentTarget'
    BY <1>13 DEF SendTask
  <1>14. ASSUME NEW ch \in Chats, WriteTask(ch) PROVE SentTarget'
    BY <1>14 DEF WriteTask
  <1>15. ASSUME NEW ch \in Chats, Forward(ch) PROVE SentTarget'
    BY <1>15 DEF Forward, EndsChat
  <1>16. ASSUME NEW c \in Conns, NEW m \in MsgIDs, FailNext(c, m) PROVE SentTarget'
    BY <1>16 DEF FailNext
  <1>17. ASSUME NEW c \in Conns, NEW agent \in Agents, NEW m \in MsgIDs,
                NEW terminal \in BOOLEAN, Read(c, agent, m, terminal)
         PROVE  SentTarget'
    BY <1>17 DEF Read
  <1>18. CASE UNCHANGED vars
    BY <1>18 DEF vars
  <1> HIDE DEF TypeInv, TypeOK, SentTarget, Unsent, Goto, Procs
  <1> QED
    BY <1>1, <1>2, <1>3, <1>4, <1>5, <1>6, <1>7, <1>8, <1>9, <1>10, <1>11,
        <1>12, <1>13, <1>14, <1>15, <1>16, <1>17, <1>18
       DEF Next, ConnStep, RuntimeStep, ChatStep, Procs

\* A released chat stays released.
LEMMA NextReleased ==
  ASSUME Unsent, \A x \in Chats : Keep(x), Unshared' \subseteq Unshared,
         \A x \in Chats : target[x] # None => target'[x] = target[x]
  PROVE  Released \subseteq Released'
  <1>1. ASSUME NEW x \in Released PROVE x \in Released'
    <2>1. target'[x] # None
      BY <1>1 DEF Released
    <2>2. x \in Waiting' => x \in Waiting
      BY <1>1 DEF Released, Keep, Unsent
    <2>3. x \in Waiting' => x \in Settled'
      BY <1>1, <2>2 DEF Released, Keep
    <2> QED BY <1>1, <2>1, <2>3 DEF Released
  <1> QED BY <1>1

\* Of the chats of one key, a waiting one is the one that has sent.
LEMMA WaitingAlone ==
  ASSUME NEW x \in Waiting, NEW y \in Chats, Key(y) = Key(x), target[y] # None
  PROVE  y = x
  BY DEF Waiting, Unshared

\* A step that sends no connection to its removal keeps RemoveSettled.
LEMMA RemoveSettledStays ==
  ASSUME RemoveSettled, Released \subseteq Released',
         \A d \in Conns : pc'[d] = "remove" => pc[d] = "remove" /\ evt'[d] = evt[d]
  PROVE  RemoveSettled'
  BY DEF RemoveSettled, Key

\* A connection removes a waiter only after a terminal event for its key.
LEMMA NextRemoveSettled ==
  ASSUME TypeInv, RemoveSettled, DeliverKey, DeliverTarget,
         Released \subseteq Released', [Next]_vars
  PROVE  RemoveSettled'
  <1> DEFINE Same == \A d \in Conns : pc'[d] = "remove" => pc[d] = "remove" /\ evt'[d] = evt[d]
  <1>0. ASSUME Same PROVE RemoveSettled'
    BY <1>0, RemoveSettledStays
  <1> USE DEF TypeInv, TypeOK, Goto, Procs
  <1>1. ASSUME NEW c \in Conns, Hello(c) PROVE RemoveSettled'
    <2>1. Same
      BY <1>1 DEF Hello
    <2> QED BY <1>0, <2>1
  <1>2. ASSUME NEW c \in Conns, Register(c) PROVE RemoveSettled'
    <2>1. Same
      BY <1>2 DEF Register
    <2> QED BY <1>0, <2>1
  <1>3. ASSUME NEW c \in Conns, Unregister(c) PROVE RemoveSettled'
    <2>1. Same
      BY <1>3 DEF Unregister, IsCurrent
    <2> QED BY <1>0, <2>1
  <1>4. ASSUME NEW c \in Conns, FailLock(c) PROVE RemoveSettled'
    <2>1. Same
      BY <1>4 DEF FailLock
    <2> QED BY <1>0, <2>1
  <1>5. ASSUME NEW c \in Conns, Fail(c) PROVE RemoveSettled'
    <2>1. Same
      BY <1>5 DEF Fail, HasRoom
    <2> QED BY <1>0, <2>1
  <1>6. ASSUME NEW c \in Conns, FailEnd(c) PROVE RemoveSettled'
    <2>1. Same
      BY <1>6 DEF FailEnd, AllFailed
    <2> QED BY <1>0, <2>1
  <1>7. ASSUME NEW c \in Conns, ReadError(c) PROVE RemoveSettled'
    <2>1. Same
      BY <1>7 DEF ReadError
    <2> QED BY <1>0, <2>1
  <1>8. ASSUME NEW c \in Conns, Dispatch(c) PROVE RemoveSettled'
    <2>1. Same
      BY <1>8 DEF Dispatch, IsCurrent
    <2> QED BY <1>0, <2>1
  <1>9. ASSUME NEW c \in Conns, DeliverLock(c) PROVE RemoveSettled'
    <2>1. Same
      BY <1>9 DEF DeliverLock
    <2> QED BY <1>0, <2>1
  <1>10. ASSUME NEW c \in Conns, Deliver(c) PROVE RemoveSettled'
    <2> DEFINE w == at[c]
    <2>1. w \in Chats /\ Key(w) = <<ConnAgent[c], evt[c].msg>> /\ target[w] = c
      BY <1>10 DEF Deliver, DeliverKey, DeliverTarget, InHand
    <2>2. \/ /\ pc' = [pc EXCEPT ![c] = "read"]
             /\ evt' = evt \/ evt' = [evt EXCEPT ![c] = None]
          \/ /\ pc' = [pc EXCEPT ![c] = "remove"] /\ evt' = evt /\ evt[c].terminal
             /\ events' = [events EXCEPT ![w] = Append(@, evt[c])]
      BY <1>10 DEF Deliver, RemovesWaiter
    <2>3. TypeOK
      OBVIOUS
    <2>4. \A d \in Conns : d # c => pc'[d] = pc[d] /\ evt'[d] = evt[d]
      BY <2>2
    <2>5. pc'[c] = "remove" =>
            /\ events' = [events EXCEPT ![w] = Append(@, evt[c])]
            /\ evt[c].terminal /\ evt'[c] = evt[c]
      BY <2>2
    <2>6. target' = target
      BY <1>10 DEF Deliver
    <2> HIDE DEF w, TypeOK, TypeInv, Goto, Procs
    <2>7. pc'[c] = "remove" => w \in Settled' /\ evt'[c] = evt[c]
      BY <2>1, <2>3, <2>5, AppendSettled
    <2>8. pc'[c] = "remove" => w \in Released'
      BY <2>1, <2>6, <2>7 DEF Released
    <2>9. ASSUME NEW d \in Conns, pc'[d] = "remove"
          PROVE  \E y \in Released' : Key(y) = <<ConnAgent[d], evt'[d].msg>>
      <3>1. CASE d = c
        BY <2>1, <2>7, <2>8, <2>9, <3>1
      <3>2. CASE d # c
        BY <2>4, <2>9, <3>2 DEF RemoveSettled
      <3> QED BY <3>1, <3>2
    <2> QED BY <2>9 DEF RemoveSettled, Key
  <1>11. ASSUME NEW p \in Procs, RemoveWaiter(p) PROVE RemoveSettled'
    <2>1. Same
      BY <1>11 DEF RemoveWaiter, RemovalKey, AfterRemoval
    <2> QED BY <1>0, <2>1
  <1>12. ASSUME NEW p \in Procs, Cancel(p) PROVE RemoveSettled'
    <2>1. Same
      BY <1>12 DEF Cancel, AfterRemoval
    <2> QED BY <1>0, <2>1
  <1>13. ASSUME NEW ch \in Chats, SendTask(ch) PROVE RemoveSettled'
    <2>1. Same
      BY <1>13 DEF SendTask
    <2> QED BY <1>0, <2>1
  <1>14. ASSUME NEW ch \in Chats, WriteTask(ch) PROVE RemoveSettled'
    <2>1. Same
      BY <1>14 DEF WriteTask
    <2> QED BY <1>0, <2>1
  <1>15. ASSUME NEW ch \in Chats, Forward(ch) PROVE RemoveSettled'
    <2>1. Same
      BY <1>15 DEF Forward, EndsChat
    <2> QED BY <1>0, <2>1
  <1>16. ASSUME NEW c \in Conns, NEW m \in MsgIDs, FailNext(c, m) PROVE RemoveSettled'
    <2>1. Same
      BY <1>16 DEF FailNext
    <2> QED BY <1>0, <2>1
  <1>17. ASSUME NEW c \in Conns, NEW agent \in Agents, NEW m \in MsgIDs,
                NEW terminal \in BOOLEAN, Read(c, agent, m, terminal)
         PROVE  RemoveSettled'
    <2>1. Same
      BY <1>17 DEF Read
    <2> QED BY <1>0, <2>1
  <1>18. CASE UNCHANGED vars
    <2>1. Same
      BY <1>18 DEF vars
    <2> QED BY <1>0, <2>1
  <1> HIDE DEF TypeInv, TypeOK, Goto, Procs, Same
  <1> QED
    BY <1>1, <1>2, <1>3, <1>4, <1>5, <1>6, <1>7, <1>8, <1>9, <1>10, <1>11,
        <1>12, <1>13, <1>14, <1>15, <1>16, <1>17, <1>18
       DEF Next, ConnStep, RuntimeStep, ChatStep, Procs

\* A removed waiter is settled before it is cancelled.
LEMMA NextCancelSettled ==
  ASSUME TypeInv, SentTarget, CancelSettled, RemoveSettled, WaiterKeys,
         UnsentUntouched, Unshared' \subseteq Unshared, \A x \in Chats : Keep(x), [Next]_vars
  PROVE  CancelSettled'
  <1> USE DEF TypeInv, TypeOK, InHand, CancelSettled, WaiterKeys,
            UnsentUntouched, Goto, Procs, Keys, Keep
  <1>1. ASSUME NEW c \in Conns, Hello(c) PROVE CancelSettled'
    <2>1. \A q \in Procs : pc'[q] = "cancel" => pc[q] = "cancel" /\ at'[q] = at[q]
      BY <1>1 DEF Hello
    <2> QED BY <2>1
  <1>2. ASSUME NEW c \in Conns, Register(c) PROVE CancelSettled'
    <2>1. \A q \in Procs : pc'[q] = "cancel" => pc[q] = "cancel" /\ at'[q] = at[q]
      BY <1>2 DEF Register
    <2> QED BY <2>1
  <1>3. ASSUME NEW c \in Conns, Unregister(c) PROVE CancelSettled'
    <2>1. \A q \in Procs : pc'[q] = "cancel" => pc[q] = "cancel" /\ at'[q] = at[q]
      BY <1>3 DEF Unregister, IsCurrent
    <2> QED BY <2>1
  <1>4. ASSUME NEW c \in Conns, FailLock(c) PROVE CancelSettled'
    <2>1. \A q \in Procs : pc'[q] = "cancel" => pc[q] = "cancel" /\ at'[q] = at[q]
      BY <1>4 DEF FailLock
    <2> QED BY <2>1
  <1>5. ASSUME NEW c \in Conns, Fail(c) PROVE CancelSettled'
    <2>1. \A q \in Procs : pc'[q] = "cancel" => pc[q] = "cancel" /\ at'[q] = at[q]
      BY <1>5 DEF Fail, HasRoom
    <2> QED BY <2>1
  <1>6. ASSUME NEW c \in Conns, FailEnd(c) PROVE CancelSettled'
    <2>1. \A q \in Procs : pc'[q] = "cancel" => pc[q] = "cancel" /\ at'[q] = at[q]
      BY <1>6 DEF FailEnd, AllFailed
    <2> QED BY <2>1
  <1>7. ASSUME NEW c \in Conns, ReadError(c) PROVE CancelSettled'
    <2>1. \A q \in Procs : pc'[q] = "cancel" => pc[q] = "cancel" /\ at'[q] = at[q]
      BY <1>7 DEF ReadError
    <2> QED BY <2>1
  <1>8. ASSUME NEW c \in Conns, Dispatch(c) PROVE CancelSettled'
    <2>1. \A q \in Procs : pc'[q] = "cancel" => pc[q] = "cancel" /\ at'[q] = at[q]
      BY <1>8 DEF Dispatch, IsCurrent
    <2> QED BY <2>1
  <1>9. ASSUME NEW c \in Conns, DeliverLock(c) PROVE CancelSettled'
    <2>1. \A q \in Procs : pc'[q] = "cancel" => pc[q] = "cancel" /\ at'[q] = at[q]
      BY <1>9 DEF DeliverLock
    <2> QED BY <2>1
  <1>10. ASSUME NEW c \in Conns, Deliver(c) PROVE CancelSettled'
    <2>1. \A q \in Procs : pc'[q] = "cancel" => pc[q] = "cancel" /\ at'[q] = at[q]
      BY <1>10 DEF Deliver, HasRoom, RemovesWaiter
    <2> QED BY <2>1
  <1>11. ASSUME NEW p \in Procs, RemoveWaiter(p) PROVE CancelSettled'
    <2> DEFINE k == RemovalKey(p)
    <2>1. k \in Keys
      BY <1>11 DEF RemoveWaiter, RemovalKey, Key, Event
    <2>2. pc[p] = "remove" /\ at' = [at EXCEPT ![p] = waiters[k]]
      BY <1>11 DEF RemoveWaiter
    <2>3. PICK l : pc' = [pc EXCEPT ![p] = l] /\ (l = "cancel" => waiters[k] # None)
      <3>1. pc' = [pc EXCEPT ![p] = IF waiters[k] = None THEN AfterRemoval(p) ELSE "cancel"]
        BY <1>11 DEF RemoveWaiter, Goto
      <3>2. PICK w : w = waiters[k]
        OBVIOUS
      <3>3. AfterRemoval(p) # "cancel"
        BY DEF AfterRemoval
      <3> QED
        BY ONLY <3>1, <3>2, <3>3
    <2>4. ASSUME pc'[p] = "cancel", waiters[k] \in Waiting' PROVE waiters[k] \in Settled'
      <3>0. target' = target /\ UNCHANGED events
        BY <1>11 DEF RemoveWaiter
      <3>1. waiters[k] \in Chats /\ Key(waiters[k]) = k
        BY <2>1, <2>3, <2>4
      <3>. PICK w \in Chats : w = waiters[k]
        BY <3>1
      <3>4. w \in Waiting
        BY <2>2, <2>3, <2>4 DEF Waiting, Unshared
      <3>2. CASE p \in Chats
        <4>1. Key(p) = Key(w) /\ target[p] # None
          BY <2>2, <3>1, <3>2 DEF RemovalKey, SentTarget
        <4>2. p = w
          BY <3>2, <3>4, <4>1, WaitingAlone
        <4> QED BY <2>2, <3>4, <4>2 DEF Waiting
      <3>3. CASE p \in Conns
        <4>1. k = <<ConnAgent[p], evt[p].msg>>
          BY <3>3 DEF RemovalKey
        <4>2. PICK y \in Released : Key(y) = k
          BY <2>2, <3>3, <4>1 DEF RemoveSettled
        <4>3. y \in Chats /\ target[y] # None /\ (y \in Waiting => y \in Settled)
          BY DEF Released
        <4>4. y = w
          BY <3>1, <3>4, <4>2, <4>3, WaitingAlone
        <4> QED BY <2>4, <3>1, <3>4, <4>3, <4>4
      <3> QED BY <3>2, <3>3
    <2>5. ASSUME NEW q \in Procs, pc'[q] = "cancel", at'[q] \in Waiting'
          PROVE  at'[q] \in Settled'
      <3>1. CASE q = p
        BY <2>2, <2>4, <2>5, <3>1
      <3>2. CASE q # p
        <4>1. pc[q] = "cancel" /\ at'[q] = at[q] /\ at[q] \in Chats
          BY <2>2, <2>3, <2>5, <3>2
        <4> QED BY <2>5, <4>1
      <3> QED BY <3>1, <3>2
    <2> QED BY <2>5
  <1>12. ASSUME NEW p \in Procs, Cancel(p) PROVE CancelSettled'
    <2>1. \A q \in Procs : pc'[q] = "cancel" => pc[q] = "cancel" /\ at'[q] = at[q]
      BY <1>12 DEF Cancel, AfterRemoval
    <2> QED BY <2>1
  <1>13. ASSUME NEW ch \in Chats, SendTask(ch) PROVE CancelSettled'
    <2>1. \A q \in Procs : pc'[q] = "cancel" => pc[q] = "cancel" /\ at'[q] = at[q]
      BY <1>13 DEF SendTask
    <2> QED BY <2>1
  <1>14. ASSUME NEW ch \in Chats, WriteTask(ch) PROVE CancelSettled'
    <2>1. \A q \in Procs : pc'[q] = "cancel" => pc[q] = "cancel" /\ at'[q] = at[q]
      BY <1>14 DEF WriteTask
    <2> QED BY <2>1
  <1>15. ASSUME NEW ch \in Chats, Forward(ch) PROVE CancelSettled'
    <2>1. \A q \in Procs : pc'[q] = "cancel" => pc[q] = "cancel" /\ at'[q] = at[q]
      BY <1>15 DEF Forward, EndsChat
    <2> QED BY <2>1
  <1>16. ASSUME NEW c \in Conns, NEW m \in MsgIDs, FailNext(c, m) PROVE CancelSettled'
    <2>1. \A q \in Procs : pc'[q] = "cancel" => pc[q] = "cancel" /\ at'[q] = at[q]
      BY <1>16 DEF FailNext
    <2> QED BY <2>1
  <1>17. ASSUME NEW c \in Conns, NEW agent \in Agents, NEW m \in MsgIDs,
                NEW terminal \in BOOLEAN, Read(c, agent, m, terminal)
         PROVE  CancelSettled'
    <2>1. \A q \in Procs : pc'[q] = "cancel" => pc[q] = "cancel" /\ at'[q] = at[q]
      BY <1>17 DEF Read
    <2> QED BY <2>1
  <1>18. CASE UNCHANGED vars
    BY <1>18 DEF vars
  <1> HIDE DEF TypeInv, TypeOK, InHand, CancelSettled, WaiterKeys,
            UnsentUntouched, Goto, Procs, Keys, Keep
  <1> QED
    BY <1>1, <1>2, <1>3, <1>4, <1>5, <1>6, <1>7, <1>8, <1>9, <1>10, <1>11,
        <1>12, <1>13, <1>14, <1>15, <1>16, <1>17, <1>18
       DEF Next, ConnStep, RuntimeStep, ChatStep, Procs


InMap == {ch \in Chats : waiters[Key(ch)] = ch}
BeingFailed ==
  {ch \in Chats : \E c \in Conns : pc[c] \in {"failLock", "fail"} /\ at[c] = ch}
Tracked == Waiting \subseteq InMap \cup Settled \cup BeingFailed

\* A step that takes no waiter out of the map, finishes no fail and starts no chat.
Stays ==
  /\ waiters' = waiters
  /\ \A c \in Conns : pc[c] \in {"failLock", "fail"} =>
                        pc'[c] \in {"failLock", "fail"} /\ at'[c] = at[c]
  /\ Waiting' \subseteq Waiting

\* A chat stays tracked by a step that leaves its entry or settles it.
LEMMA StaysTracked ==
  ASSUME Stays, Tracked, \A x \in Chats : Keep(x)
  PROVE  Tracked'
  <1>1. InMap' = InMap
    BY DEF Stays, InMap
  <1>2. BeingFailed \subseteq BeingFailed'
    BY DEF Stays, BeingFailed
  <1>3. Waiting' \cap Settled \subseteq Settled'
    BY DEF Keep, Waiting
  <1> QED BY <1>1, <1>2, <1>3 DEF Stays, Tracked

\* Every action keeps every waiting chat tracked.
LEMMA NextTracked ==
  ASSUME TypeInv, Tracked, WaiterKeys, SettledInv, Unshared' \subseteq Unshared,
      \A x \in Chats : Keep(x), [Next]_vars
  PROVE  Tracked'
  <1> USE DEF TypeInv
  <1>1. ASSUME NEW c \in Conns, Hello(c) PROVE Tracked'
    <2>1. Stays
      BY <1>1 DEF Stays, TypeOK, Goto, Procs, Waiting, Hello
    <2> QED BY <2>1, StaysTracked
  <1>2. ASSUME NEW c \in Conns, Register(c) PROVE Tracked'
    <2>1. Stays
      BY <1>2 DEF Stays, TypeOK, Goto, Procs, Waiting, Register
    <2> QED BY <2>1, StaysTracked
  <1>3. ASSUME NEW c \in Conns, Unregister(c) PROVE Tracked'
    <2>1. Stays
      BY <1>3 DEF Stays, TypeOK, Goto, Procs, Waiting, Unregister, IsCurrent
    <2> QED BY <2>1, StaysTracked
  <1>4. ASSUME NEW c \in Conns, FailLock(c) PROVE Tracked'
    <2>1. Stays
      BY <1>4 DEF Stays, TypeOK, Goto, Procs, Waiting, FailLock
    <2> QED BY <2>1, StaysTracked
  <1>5. ASSUME NEW c \in Conns, Fail(c) PROVE Tracked'
    <2> DEFINE e == [msg |-> ChatMsg[at[c]], terminal |-> TRUE, from |-> None]
    <2>1. /\ at[c] \in Chats /\ pc[c] = "fail" /\ waiters' = waiters
          /\ at' = [at EXCEPT ![c] = None] /\ pc' = [pc EXCEPT ![c] = "failing"]
      BY <1>5 DEF Fail, Goto, InHand
    <2>2. at[c] \in Waiting' => at[c] \in Settled'
      <3>1. at[c] \in Waiting' => at[c] \in Waiting
        BY <2>1 DEF Waiting, TypeOK, Procs
      <3>2. CASE done[at[c]]
        BY <2>1, <3>1, <3>2 DEF SettledInv, DoneSettled, Keep
      <3>3. CASE events' = [events EXCEPT ![at[c]] = Append(@, e)]
        <4>1. e.terminal
          OBVIOUS
        <4> HIDE DEF e
        <4> QED BY <2>1, <3>3, <4>1, AppendSettled
      <3>4. done[at[c]] \/ events' = [events EXCEPT ![at[c]] = Append(@, e)]
        BY <1>5 DEF Fail, GivesUp
      <3> QED BY <3>2, <3>3, <3>4
    <2>3. ASSUME NEW x \in Waiting' PROVE x \in InMap' \cup Settled' \cup BeingFailed'
      <3>1. x \in Waiting
        BY <2>1 DEF Waiting, TypeOK, Procs
      <3>2. CASE x = at[c]
        BY <2>2, <3>2
      <3>3. CASE x # at[c]
        <4>1. \A d \in Conns : d # c => pc'[d] = pc[d] /\ at'[d] = at[d]
          BY <2>1 DEF TypeOK, Procs
        <4>2. x \in BeingFailed => x \in BeingFailed'
          BY <3>3, <4>1 DEF BeingFailed
        <4>3. x \in InMap => x \in InMap'
          BY <2>1 DEF InMap
        <4>4. x \in Settled => x \in Settled'
          BY <3>1 DEF Keep, Waiting
        <4> QED BY <3>1, <4>2, <4>3, <4>4 DEF Tracked
      <3> QED BY <3>2, <3>3
    <2> QED BY <2>3 DEF Tracked
  <1>6. ASSUME NEW c \in Conns, FailEnd(c) PROVE Tracked'
    <2>1. Stays
      BY <1>6 DEF Stays, TypeOK, Goto, Procs, Waiting, FailEnd, AllFailed
    <2> QED BY <2>1, StaysTracked
  <1>7. ASSUME NEW c \in Conns, ReadError(c) PROVE Tracked'
    <2>1. Stays
      BY <1>7 DEF Stays, TypeOK, Goto, Procs, Waiting, ReadError
    <2> QED BY <2>1, StaysTracked
  <1>8. ASSUME NEW c \in Conns, Dispatch(c) PROVE Tracked'
    <2>1. Stays
      BY <1>8 DEF Stays, TypeOK, Goto, Procs, Waiting, Dispatch, IsCurrent
    <2> QED BY <2>1, StaysTracked
  <1>9. ASSUME NEW c \in Conns, DeliverLock(c) PROVE Tracked'
    <2>1. Stays
      BY <1>9 DEF Stays, TypeOK, Goto, Procs, Waiting, DeliverLock
    <2> QED BY <2>1, StaysTracked
  <1>10. ASSUME NEW c \in Conns, Deliver(c) PROVE Tracked'
    <2>1. Stays
      BY <1>10 DEF Stays, TypeOK, Goto, Procs, Waiting, Deliver, HasRoom,
          RemovesWaiter
    <2> QED BY <2>1, StaysTracked
  <1>11. ASSUME NEW p \in Procs, RemoveWaiter(p) PROVE Tracked'
    <2> DEFINE k == RemovalKey(p)
    <2>1. /\ pc[p] = "remove" /\ waiters' = [waiters EXCEPT ![k] = None]
          /\ at' = [at EXCEPT ![p] = waiters[k]]
      BY <1>11 DEF RemoveWaiter
    <2>2. PICK l \in {"end", "read", "cancel"} : pc' = [pc EXCEPT ![p] = l]
      BY <1>11 DEF RemoveWaiter, AfterRemoval, Goto
    <2>3. ASSUME NEW x \in Waiting' PROVE x \in InMap' \cup Settled' \cup BeingFailed'
      <3>1. x \in Waiting /\ x # p
        BY <2>1, <2>2 DEF Waiting, TypeOK, Procs
      <3>2. CASE x \in InMap /\ Key(x) # k
        BY <2>1, <3>2 DEF InMap, TypeOK
      <3>3. CASE x \in InMap /\ Key(x) = k
        <4>1. p \in Conns
          <5>1. p \in Chats => Key(p) = Key(x) /\ target[p] # None
            BY <2>1, <3>3 DEF RemovalKey, SettledInv, SentTarget
          <5>2. p \notin Chats
            BY <3>1, <5>1, WaitingAlone
          <5> QED BY <5>2 DEF Procs
        <4>2. k = <<ConnAgent[p], evt[p].msg>>
          BY <4>1 DEF RemovalKey
        <4>3. PICK y \in Released : Key(y) = k
          BY <2>1, <4>1, <4>2 DEF SettledInv, RemoveSettled
        <4>4. y \in Chats /\ target[y] # None /\ (y \in Waiting => y \in Settled)
          BY DEF Released
        <4>5. y = x
          BY <3>1, <3>3, <4>3, <4>4, WaitingAlone
        <4> QED BY <3>1, <4>4, <4>5 DEF Keep, Waiting
      <3>4. CASE x \in Settled
        BY <3>1, <3>4 DEF Keep, Waiting
      <3>5. CASE x \in BeingFailed
        BY <2>1, <2>2, <3>5 DEF BeingFailed, TypeOK, Procs
      <3> QED BY <3>1, <3>2, <3>3, <3>4, <3>5 DEF Tracked
    <2> QED BY <2>3 DEF Tracked
  <1>12. ASSUME NEW p \in Procs, Cancel(p) PROVE Tracked'
    <2>1. Stays
      BY <1>12 DEF Stays, TypeOK, Goto, Procs, Waiting, Cancel, AfterRemoval
    <2> QED BY <2>1, StaysTracked
  <1>13. ASSUME NEW ch \in Chats, SendTask(ch) PROVE Tracked'
    <2>1. CASE runtimes[ChatAgent[ch]] = None
      <3>1. Stays
        BY <1>13, <2>1 DEF SendTask, Stays, TypeOK, Goto, Procs, Waiting
      <3> QED BY <3>1, StaysTracked
    <2>2. CASE runtimes[ChatAgent[ch]] # None
      <3>1. /\ waiters' = [waiters EXCEPT ![Key(ch)] = ch] /\ at' = at
            /\ pc' = [pc EXCEPT ![ch] = "write"]
        BY <1>13, <2>2 DEF SendTask, Goto
      <3>2. Key(ch) \in Keys
        BY DEF Key, Keys
      <3>3. ASSUME NEW x \in Waiting' PROVE x \in InMap' \cup Settled' \cup BeingFailed'
        <4>1. CASE x = ch
          BY <3>1, <3>2, <4>1 DEF InMap, TypeOK
        <4>2. CASE x # ch
          <5>1. x \in Waiting /\ Key(x) # Key(ch)
            <6>1. target'[ch] # None
              BY <1>13, <2>2 DEF SendTask, TypeOK
            <6>2. x \in Unshared' /\ pc'[x] = pc[x]
              BY <3>1, <3>3, <4>2 DEF Waiting, Unshared, TypeOK, Procs
            <6>3. Key(x) # Key(ch)
              BY <4>2, <6>1, <6>2 DEF Unshared, Key
            <6> QED BY <3>3, <6>2, <6>3 DEF Waiting
          <5>2. x \in InMap => x \in InMap'
            BY <3>1, <5>1 DEF InMap, TypeOK
          <5>3. x \in BeingFailed => x \in BeingFailed'
            BY <3>1 DEF BeingFailed, TypeOK, Procs
          <5>4. x \in Settled => x \in Settled'
            BY <5>1 DEF Keep, Waiting
          <5> QED BY <5>1, <5>2, <5>3, <5>4 DEF Tracked
        <4> QED BY <4>1, <4>2
      <3> QED BY <3>3 DEF Tracked
    <2> QED BY <2>1, <2>2
  <1>14. ASSUME NEW ch \in Chats, WriteTask(ch) PROVE Tracked'
    <2>1. Stays
      BY <1>14 DEF Stays, TypeOK, Goto, Procs, Waiting, WriteTask
    <2> QED BY <2>1, StaysTracked
  <1>15. ASSUME NEW ch \in Chats, Forward(ch) PROVE Tracked'
    <2>1. Stays
      BY <1>15 DEF Stays, TypeOK, Goto, Procs, Waiting, Forward, EndsChat
    <2> QED BY <2>1, StaysTracked
  <1>16. ASSUME NEW c \in Conns, NEW m \in MsgIDs, FailNext(c, m) PROVE Tracked'
    <2> DEFINE k == <<ConnAgent[c], m>>
    <2>1. /\ pc[c] = "failing" /\ waiters[k] # None
          /\ waiters' = [waiters EXCEPT ![k] = None]
          /\ at' = [at EXCEPT ![c] = waiters[k]] /\ pc' = [pc EXCEPT ![c] = "failLock"]
      BY <1>16 DEF FailNext, Goto
    <2>2. ASSUME NEW x \in Waiting' PROVE x \in InMap' \cup Settled' \cup BeingFailed'
      <3>1. x \in Waiting
        BY <2>1 DEF Waiting, TypeOK, Procs
      <3>2. x \in InMap /\ Key(x) # k => x \in InMap'
        BY <2>1 DEF InMap, TypeOK
      <3>3. x \in InMap /\ Key(x) = k => x \in BeingFailed'
        <4>1. pc'[c] = "failLock" /\ at'[c] = waiters[k]
          BY <2>1 DEF TypeOK, Procs
        <4> QED BY <4>1 DEF InMap, BeingFailed
      <3>4. x \in BeingFailed => x \in BeingFailed'
        <4>1. \A d \in Conns : d # c => pc'[d] = pc[d] /\ at'[d] = at[d]
          BY <2>1 DEF TypeOK, Procs
        <4> QED BY <2>1, <4>1 DEF BeingFailed
      <3>5. x \in Settled => x \in Settled'
        BY <3>1 DEF Keep, Waiting
      <3> QED BY <3>1, <3>2, <3>3, <3>4, <3>5 DEF Tracked
    <2> QED BY <2>2 DEF Tracked
  <1>17. ASSUME NEW c \in Conns, NEW agent \in Agents, NEW m \in MsgIDs,
                NEW terminal \in BOOLEAN, Read(c, agent, m, terminal)
         PROVE  Tracked'
    <2>1. Stays
      BY <1>17 DEF Stays, TypeOK, Goto, Procs, Waiting, Read
    <2> QED BY <2>1, StaysTracked
  <1>18. CASE UNCHANGED vars
    <2>1. Stays
      BY <1>18 DEF Stays, Waiting, vars
    <2> QED BY <2>1, StaysTracked
  <1> HIDE DEF TypeInv
  <1> QED
    BY <1>1, <1>2, <1>3, <1>4, <1>5, <1>6, <1>7, <1>8, <1>9, <1>10, <1>11,
        <1>12, <1>13, <1>14, <1>15, <1>16, <1>17, <1>18
       DEF Next, ConnStep, RuntimeStep, ChatStep, Procs


\* No chat waits initially.
LEMMA InitSettledInv == Init => SettledInv /\ Tracked
  BY DEF Init, SettledInv, SentTarget, DoneSettled, CancelSettled, RemoveSettled, DeliverKey,
         WaiterSent, UnsentUntouched, Tracked, Waiting, Procs, Keys

\* Every action keeps the settling invariant and every chat tracked.
LEMMA NextSettledInv ==
  ASSUME TypeInv, RoutingInv, SettledInv, Tracked, [Next]_vars
  PROVE  SettledInv' /\ Tracked'
  <1>1. WaiterKeys /\ Unsent /\ DeliverTarget
    BY DEF RoutingInv
  <1>2. /\ Unshared' \subseteq Unshared
        /\ \A x \in Chats : target[x] # None => target'[x] = target[x]
    BY <1>1, NextUnshared
  <1>3. \A x \in Chats : Keep(x)
    BY <1>2, NextKeep
  <1>4. Released \subseteq Released'
    BY <1>1, <1>2, <1>3, NextReleased
  <1>5. SentTarget' /\ DoneSettled' /\ WaiterSent' /\ UnsentUntouched'
    BY <1>1, <1>2, <1>3, NextSentTarget, NextDoneSettled, NextWaiterSent,
        NextUnsentUntouched DEF SettledInv
  <1>6. CancelSettled' /\ RemoveSettled' /\ DeliverKey'
    BY <1>1, <1>2, <1>3, <1>4, NextCancelSettled, NextRemoveSettled,
        NextDeliverKey DEF SettledInv
  <1>7. Tracked'
    BY <1>1, <1>2, <1>3, NextTracked
  <1> QED BY <1>5, <1>6, <1>7 DEF SettledInv

\* No chat with a key of its own waits for a terminal event that nobody will
\* send: its waiter is in the map, is being failed, or already holds the event.
THEOREM ChatsAreTracked == Spec => []NoChatForgotten
  <1> DEFINE I == TypeInv /\ RoutingInv /\ SettledInv /\ Tracked
  <1>1. Init => I
    BY InitTypeInv, InitRoutingInv, InitSettledInv
  <1>2. I /\ [Next]_vars => I'
    BY NextTypeInv, NextRoutingInv, NextSettledInv
  <1>3. I => NoChatForgotten
    BY DEF NoChatForgotten, Unshared, Tracked, Waiting, InMap, Settled, BeingFailed
  <1>4. QED
    BY <1>1, <1>2, <1>3, PTL DEF Spec

\* The late exit of a replaced connection never evicts its replacement.
THEOREM StaleExitsAreHarmless == Spec => StaleExitIsHarmless
  <1> DEFINE A == \A a \in Agents : runtimes[a] # None /\ runtimes'[a] # runtimes[a] =>
                    IF runtimes'[a] = None THEN pc[runtimes[a]] = "unregister"
                                           ELSE pc[runtimes'[a]] = "register"
  <1>1. ASSUME TypeInv, [Next]_vars PROVE [A]_vars
    <2>1. ASSUME NEW c \in Conns, Register(c) PROVE A
      BY <1>1, <2>1 DEF Register, TypeInv, TypeOK
    <2>2. ASSUME NEW c \in Conns, Unregister(c) PROVE A
      BY <1>1, <2>2 DEF Unregister, IsCurrent, TypeInv, TypeOK
    <2>3. CASE UNCHANGED runtimes
      BY <2>3
    <2> HIDE DEF A
    <2> QED
      BY <1>1, <2>1, <2>2, <2>3, ZenonT(60)
         DEF Next, ConnStep, RuntimeStep, ChatStep, vars, Hello, FailNext,
             FailLock, Fail,
             FailEnd, Read, ReadError, Dispatch, DeliverLock, Deliver, RemoveWaiter,
             Cancel, SendTask, WriteTask, Forward
  <1>2. Spec => []TypeInv
    <2>1. TypeInv /\ [Next]_vars => TypeInv'
      BY NextTypeInv
    <2> QED BY InitTypeInv, <2>1, PTL DEF Spec
  <1>3. QED
    BY <1>1, <1>2, PTL DEF Spec, StaleExitIsHarmless
-----------------------------------------------------------------------------
(* The gateway implements the stream of a chat *)

Failing == {"failing", "failLock", "fail"}
Delivering == {"deliverLock", "deliver"}

InDelivery ==
  {ch \in Chats : \E c \in Conns : pc[c] \in Delivering /\ at[c] = ch}

\* Nothing has happened to a chat that has not sent.
Untouched ==
  \A ch \in Chats : pc[ch] = "send" =>
    sent[ch] = <<>> /\ got[ch] = <<>> /\ events[ch] = <<>>

\* A waiter is taken out of the map before it is failed or cancelled.
OutOfMap ==
  /\ \A ch \in InMap : ~done[ch]
  /\ \A p \in Procs : pc[p] \in {"failLock", "fail", "cancel"} => at[p] \notin InMap

\* The waiters that are failed, and the agent's others that are still in the
\* map, wait for a connection that is gone.
FailedAreLost ==
  \A c \in Conns : pc[c] \in Failing =>
    /\ pc[c] # "failing" => target[at[c]] \in Gone
    /\ \A ch \in InMap : ChatAgent[ch] = ConnAgent[c] => target[ch] \in Gone

RegistryError(ch) == [msg |-> ChatMsg[ch], terminal |-> TRUE, from |-> None]

\* The event at i in ch's channel is the next but i - 1 of its connection, or
\* the registry's error about a connection that is gone.
Expected(ch, i) ==
  \/ /\ Len(got[ch]) + i <= Len(sent[ch])
     /\ events[ch][i] = sent[ch][Len(got[ch]) + i]
  \/ events[ch][i] = RegistryError(ch) /\ target[ch] \in Gone

\* So is every event up to the first terminal one; what comes behind that is
\* never read.
ChannelInOrder(ch) ==
  \A i \in DOMAIN events[ch] :
    (\A j \in 1..(i - 1) : ~events[ch][j].terminal) => Expected(ch, i)

\* What the chat's connection has sent is in the browser's hands or the channel,
\* except for the event in delivery.
UpToDate(ch) ==
  /\ ch \in InMap /\ ch \notin InDelivery =>
       Len(sent[ch]) = Len(got[ch]) + Len(events[ch])
  /\ ch \in InDelivery /\ (ch \in InMap \/ ch \notin Settled) =>
       /\ Len(sent[ch]) = Len(got[ch]) + Len(events[ch]) + 1
       /\ sent[ch][Len(sent[ch])] = evt[target[ch]]

Faithful == \A ch \in Listening : ChannelInOrder(ch) /\ UpToDate(ch)

SentType == sent \in [Chats -> Seq(Event)]

StreamInv == SentType /\ Untouched /\ OutOfMap /\ FailedAreLost /\ Faithful

\* A connection that is gone stays gone.
LEMMA GoneStays ==
  ASSUME TypeInv, [Next]_vars
  PROVE  Gone \subseteq Gone'
  <1> DEFINE Early == {"hello", "register"}
             Back == \A c \in Conns : pc[c] \notin Early =>
                       /\ pc'[c] \notin Early
                       /\ runtimes'[ConnAgent[c]] = c => runtimes[ConnAgent[c]] = c
  <1>0. ASSUME Back PROVE Gone \subseteq Gone'
    BY <1>0 DEF Gone
  <1> USE DEF TypeInv, TypeOK, Goto, Procs
  <1>1. ASSUME NEW c \in Conns, Hello(c) PROVE Gone \subseteq Gone'
    <2>1. Back
      BY <1>1 DEF Hello
    <2> QED BY <1>0, <2>1
  <1>2. ASSUME NEW c \in Conns, Register(c) PROVE Gone \subseteq Gone'
    <2>1. Back
      BY <1>2 DEF Register
    <2> QED BY <1>0, <2>1
  <1>3. ASSUME NEW c \in Conns, Unregister(c) PROVE Gone \subseteq Gone'
    <2>1. Back
      BY <1>3 DEF Unregister, IsCurrent
    <2> QED BY <1>0, <2>1
  <1>4. ASSUME NEW c \in Conns, FailLock(c) PROVE Gone \subseteq Gone'
    <2>1. Back
      BY <1>4 DEF FailLock
    <2> QED BY <1>0, <2>1
  <1>5. ASSUME NEW c \in Conns, Fail(c) PROVE Gone \subseteq Gone'
    <2>1. Back
      BY <1>5 DEF Fail, HasRoom
    <2> QED BY <1>0, <2>1
  <1>6. ASSUME NEW c \in Conns, FailEnd(c) PROVE Gone \subseteq Gone'
    <2>1. Back
      BY <1>6 DEF FailEnd, AllFailed
    <2> QED BY <1>0, <2>1
  <1>7. ASSUME NEW c \in Conns, ReadError(c) PROVE Gone \subseteq Gone'
    <2>1. Back
      BY <1>7 DEF ReadError
    <2> QED BY <1>0, <2>1
  <1>8. ASSUME NEW c \in Conns, Dispatch(c) PROVE Gone \subseteq Gone'
    <2>1. Back
      BY <1>8 DEF Dispatch, IsCurrent
    <2> QED BY <1>0, <2>1
  <1>9. ASSUME NEW c \in Conns, DeliverLock(c) PROVE Gone \subseteq Gone'
    <2>1. Back
      BY <1>9 DEF DeliverLock
    <2> QED BY <1>0, <2>1
  <1>10. ASSUME NEW c \in Conns, Deliver(c) PROVE Gone \subseteq Gone'
    <2>1. Back
      BY <1>10 DEF Deliver, HasRoom, RemovesWaiter
    <2> QED BY <1>0, <2>1
  <1>11. ASSUME NEW p \in Procs, RemoveWaiter(p) PROVE Gone \subseteq Gone'
    <2>1. Back
      BY <1>11 DEF RemoveWaiter, RemovalKey, AfterRemoval
    <2> QED BY <1>0, <2>1
  <1>12. ASSUME NEW p \in Procs, Cancel(p) PROVE Gone \subseteq Gone'
    <2>1. Back
      BY <1>12 DEF Cancel, AfterRemoval
    <2> QED BY <1>0, <2>1
  <1>13. ASSUME NEW ch \in Chats, SendTask(ch) PROVE Gone \subseteq Gone'
    <2>1. Back
      BY <1>13 DEF SendTask
    <2> QED BY <1>0, <2>1
  <1>14. ASSUME NEW ch \in Chats, WriteTask(ch) PROVE Gone \subseteq Gone'
    <2>1. Back
      BY <1>14 DEF WriteTask
    <2> QED BY <1>0, <2>1
  <1>15. ASSUME NEW ch \in Chats, Forward(ch) PROVE Gone \subseteq Gone'
    <2>1. Back
      BY <1>15 DEF Forward, EndsChat
    <2> QED BY <1>0, <2>1
  <1>16. ASSUME NEW c \in Conns, NEW m \in MsgIDs, FailNext(c, m) PROVE Gone \subseteq Gone'
    <2>1. Back
      BY <1>16 DEF FailNext
    <2> QED BY <1>0, <2>1
  <1>17. ASSUME NEW c \in Conns, NEW agent \in Agents, NEW m \in MsgIDs,
                NEW terminal \in BOOLEAN, Read(c, agent, m, terminal)
         PROVE  Gone \subseteq Gone'
    <2>1. Back
      BY <1>17 DEF Read
    <2> QED BY <1>0, <2>1
  <1>18. CASE UNCHANGED vars
    <2>1. Back
      BY <1>18 DEF vars
    <2> QED BY <1>0, <2>1
  <1> HIDE DEF TypeInv, TypeOK, Goto, Procs, Back
  <1> QED
    BY <1>1, <1>2, <1>3, <1>4, <1>5, <1>6, <1>7, <1>8, <1>9, <1>10, <1>11,
        <1>12, <1>13, <1>14, <1>15, <1>16, <1>17, <1>18
       DEF Next, ConnStep, RuntimeStep, ChatStep, Procs

\* A step that records nothing for a chat, starts no delivery to it and ends one
\* only to a chat that is not in the map.
Still(ch) ==
  /\ sent'[ch] = sent[ch]
  /\ ch \in Listening' => ch \in Listening /\ target'[ch] = target[ch]
  /\ ch \in InMap' => ch \in InMap
  /\ ch \in InDelivery' => ch \in InDelivery /\ evt'[target[ch]] = evt[target[ch]]
  /\ ch \in InMap' /\ ch \in InDelivery => ch \in InDelivery'

Quiet(ch) == Still(ch) /\ events'[ch] = events[ch] /\ got'[ch] = got[ch]

\* Such a step keeps what a chat has in order.
LEMMA QuietKeeps ==
  ASSUME NEW ch \in Listening', Quiet(ch), Faithful, Gone \subseteq Gone'
  PROVE  ChannelInOrder(ch)' /\ UpToDate(ch)'
  <1>1. ch \in Chats /\ ch \in Listening /\ target'[ch] = target[ch]
    BY DEF Quiet, Still, Listening
  <1>2. ChannelInOrder(ch) /\ UpToDate(ch)
    BY <1>1 DEF Faithful
  <1>3. ch \in Settled' <=> ch \in Settled
    BY <1>1 DEF Quiet, Still, Settled
  <1>4. ASSUME NEW i, Expected(ch, i) PROVE Expected(ch, i)'
    BY <1>1, <1>4 DEF Expected, Quiet, Still, RegistryError
  <1>5. ChannelInOrder(ch)'
    BY <1>2, <1>4 DEF ChannelInOrder, Quiet, Still
  <1>6. UpToDate(ch)'
    BY <1>1, <1>2, <1>3 DEF UpToDate, Quiet, Still
  <1> QED BY <1>5, <1>6

\* A step that dispatches nothing, neither starts nor ends a delivery, puts no
\* waiter into the map and makes no chat wait.
Aside ==
  /\ \A d \in Conns : pc[d] = "lookup" => pc'[d] = "lookup"
  /\ \A d \in Conns : pc[d] \in Delivering \/ pc'[d] \in Delivering =>
       /\ pc[d] \in Delivering /\ pc'[d] \in Delivering
       /\ at'[d] = at[d] /\ evt'[d] = evt[d]
  /\ \A x \in Chats : pc'[x] \in {"write", "range"} =>
       pc[x] \in {"write", "range"}
  /\ \A x \in Chats : waiters'[Key(x)] = x => waiters[Key(x)] = x
  /\ UNCHANGED target

\* What is recorded changes with a Dispatch only.
LEMMA SentStays ==
  ASSUME TypeInv, SentTarget, SentType, StreamNext,
         \A d \in Conns : pc[d] = "lookup" => pc'[d] = "lookup"
  PROVE  sent' = sent
  <1>1. ASSUME NEW ch \in Chats PROVE ~Heard(ch)
    <2>1. ch \in Listening => target[ch] \in Conns
      BY DEF Listening, SentTarget, TypeInv, TypeOK
    <2> QED BY <2>1 DEF Heard
  <1>2. sent' = [ch \in Chats |-> sent[ch]]
    BY <1>1 DEF StreamNext
  <1> QED BY <1>2 DEF SentType

\* The connection that delivers to a chat is the chat's own.
LEMMA DeliveryTarget ==
  ASSUME DeliverTarget, NEW c \in Conns, pc[c] \in Delivering
  PROVE  target[at[c]] = c
  BY DEF DeliverTarget, Delivering

\* Such a step leaves every chat's stream alone.
LEMMA AsideIsStill ==
  ASSUME Aside, sent' = sent, DeliverTarget, NEW ch \in Chats
  PROVE  Still(ch)
  <1>1. \A d \in Conns : pc[d] \in Delivering <=> pc'[d] \in Delivering
    BY DEF Aside
  <1>2. \A d \in Conns : pc[d] \in Delivering => at'[d] = at[d] /\ evt'[d] = evt[d]
    BY DEF Aside
  <1>3. InDelivery' = InDelivery
    BY <1>1, <1>2 DEF InDelivery
  <1>4. ASSUME ch \in InDelivery PROVE evt'[target[ch]] = evt[target[ch]]
    <2>1. PICK c \in Conns : pc[c] \in Delivering /\ at[c] = ch
      BY <1>4 DEF InDelivery
    <2>2. target[ch] = c
      BY <2>1, DeliveryTarget
    <2> QED BY <1>2, <2>1, <2>2
  <1>5. ch \in Listening' => ch \in Listening
    BY DEF Aside, Listening
  <1>6. ch \in InMap' => ch \in InMap
    BY DEF Aside, InMap, Key
  <1> QED BY <1>3, <1>4, <1>5, <1>6 DEF Still, Aside

\* What is recorded of a chat are events.
LEMMA NextSentType ==
  ASSUME TypeInv, SentTarget, SentType, StreamNext
  PROVE  SentType'
  <1>1. ASSUME NEW ch \in Chats, Heard(ch)
        PROVE  Append(sent[ch], evt[target[ch]]) \in Seq(Event)
    <2>1. target[ch] \in Conns
      BY <1>1 DEF Heard, Listening, SentTarget, TypeInv, TypeOK
    <2>2. evt[target[ch]] \in Event
      BY <1>1, <2>1 DEF Heard, TypeInv, InHand
    <2> QED BY <2>2 DEF SentType
  <1> QED BY <1>1 DEF SentType, StreamNext

\* Nothing happens to a chat that has not sent.
LEMMA NextUntouched ==
  ASSUME TypeInv, DeliverKey, UnsentUntouched, Untouched, StreamNext,
         \A x \in Chats : Keep(x)
  PROVE  Untouched'
  <1> DEFINE Left == \A x \in Chats : pc[x] = "send" =>
                       events'[x] = events[x] /\ got'[x] = got[x]
  <1>0. ASSUME Left PROVE Untouched'
    <2>1. ASSUME NEW x \in Chats, pc'[x] = "send"
          PROVE  sent'[x] = <<>> /\ got'[x] = <<>> /\ events'[x] = <<>>
      <3>1. pc[x] = "send"
        BY <2>1 DEF Keep
      <3>2. sent'[x] = sent[x]
        BY <3>1 DEF StreamNext, Heard, Listening
      <3> QED BY <1>0, <3>1, <3>2 DEF Untouched
    <2> QED BY <2>1 DEF Untouched
  <1>19. Next
    BY DEF StreamNext
  <1> USE DEF TypeInv, TypeOK, InHand, DeliverKey, UnsentUntouched, Goto, Procs
  <1>1. ASSUME NEW c \in Conns, Hello(c) PROVE Untouched'
    <2>1. Left
      BY <1>1 DEF Hello
    <2> QED BY <1>0, <2>1
  <1>2. ASSUME NEW c \in Conns, Register(c) PROVE Untouched'
    <2>1. Left
      BY <1>2 DEF Register
    <2> QED BY <1>0, <2>1
  <1>3. ASSUME NEW c \in Conns, Unregister(c) PROVE Untouched'
    <2>1. Left
      BY <1>3 DEF Unregister, IsCurrent
    <2> QED BY <1>0, <2>1
  <1>4. ASSUME NEW c \in Conns, FailLock(c) PROVE Untouched'
    <2>1. Left
      BY <1>4 DEF FailLock
    <2> QED BY <1>0, <2>1
  <1>5. ASSUME NEW c \in Conns, Fail(c) PROVE Untouched'
    <2>1. Left
      BY <1>5 DEF Fail, HasRoom
    <2> QED BY <1>0, <2>1
  <1>6. ASSUME NEW c \in Conns, FailEnd(c) PROVE Untouched'
    <2>1. Left
      BY <1>6 DEF FailEnd, AllFailed
    <2> QED BY <1>0, <2>1
  <1>7. ASSUME NEW c \in Conns, ReadError(c) PROVE Untouched'
    <2>1. Left
      BY <1>7 DEF ReadError
    <2> QED BY <1>0, <2>1
  <1>8. ASSUME NEW c \in Conns, Dispatch(c) PROVE Untouched'
    <2>1. Left
      BY <1>8 DEF Dispatch, IsCurrent
    <2> QED BY <1>0, <2>1
  <1>9. ASSUME NEW c \in Conns, DeliverLock(c) PROVE Untouched'
    <2>1. Left
      BY <1>9 DEF DeliverLock
    <2> QED BY <1>0, <2>1
  <1>10. ASSUME NEW c \in Conns, Deliver(c) PROVE Untouched'
    <2>1. Left
      BY <1>10 DEF Deliver, HasRoom, RemovesWaiter
    <2> QED BY <1>0, <2>1
  <1>11. ASSUME NEW p \in Procs, RemoveWaiter(p) PROVE Untouched'
    <2>1. Left
      BY <1>11 DEF RemoveWaiter, RemovalKey, AfterRemoval
    <2> QED BY <1>0, <2>1
  <1>12. ASSUME NEW p \in Procs, Cancel(p) PROVE Untouched'
    <2>1. Left
      BY <1>12 DEF Cancel, AfterRemoval
    <2> QED BY <1>0, <2>1
  <1>13. ASSUME NEW ch \in Chats, SendTask(ch) PROVE Untouched'
    <2>1. Left
      BY <1>13 DEF SendTask
    <2> QED BY <1>0, <2>1
  <1>14. ASSUME NEW ch \in Chats, WriteTask(ch) PROVE Untouched'
    <2>1. Left
      BY <1>14 DEF WriteTask
    <2> QED BY <1>0, <2>1
  <1>15. ASSUME NEW ch \in Chats, Forward(ch) PROVE Untouched'
    <2>1. Left
      BY <1>15 DEF Forward, EndsChat
    <2> QED BY <1>0, <2>1
  <1>16. ASSUME NEW c \in Conns, NEW m \in MsgIDs, FailNext(c, m) PROVE Untouched'
    <2>1. Left
      BY <1>16 DEF FailNext
    <2> QED BY <1>0, <2>1
  <1>17. ASSUME NEW c \in Conns, NEW agent \in Agents, NEW m \in MsgIDs,
                NEW terminal \in BOOLEAN, Read(c, agent, m, terminal)
         PROVE  Untouched'
    <2>1. Left
      BY <1>17 DEF Read
    <2> QED BY <1>0, <2>1
  <1>18. CASE UNCHANGED vars
    <2>1. Left
      BY <1>18 DEF vars
    <2> QED BY <1>0, <2>1
  <1> HIDE DEF TypeInv, TypeOK, InHand, DeliverKey, UnsentUntouched, Goto, Procs, Left
  <1> QED
    BY <1>1, <1>2, <1>3, <1>4, <1>5, <1>6, <1>7, <1>8, <1>9, <1>10, <1>11,
        <1>12, <1>13, <1>14, <1>15, <1>16, <1>17, <1>18, <1>19
       DEF Next, ConnStep, RuntimeStep, ChatStep, Procs

\* Handlers take a waiter out of the map before they fail or cancel it.
LEMMA NextOutOfMap ==
  ASSUME TypeInv, WaiterKeys, UnsentUntouched, OutOfMap, [Next]_vars
  PROVE  OutOfMap'
  <1> DEFINE Taken == {"failLock", "fail", "cancel"}
             Map == \A x \in Chats : waiters'[Key(x)] = x => waiters[Key(x)] = x
             Hold == \A q \in Procs : pc'[q] \in Taken =>
                       pc[q] \in Taken /\ at'[q] = at[q]
             Same == Map /\ Hold /\ UNCHANGED done
  <1>a. ASSUME Map PROVE InMap' \subseteq InMap
    BY <1>a DEF InMap, Key
  <1>0. ASSUME Same PROVE OutOfMap'
    BY <1>0, <1>a DEF OutOfMap
  <1>b. ASSUME NEW p \in Procs, NEW k \in Keys,
               waiters' = [waiters EXCEPT ![k] = None],
               at' = [at EXCEPT ![p] = waiters[k]],
               \A q \in Procs \ {p} : pc'[q] = pc[q], UNCHANGED done
        PROVE  OutOfMap'
    <2>1. Map
      BY <1>b DEF TypeInv, TypeOK
    <2>2. InMap' \subseteq InMap
      BY <2>1, <1>a
    <2>3. waiters[k] \notin InMap'
      <3>1. ASSUME NEW x \in Chats, x = waiters[k] PROVE waiters'[Key(x)] # x
        <4>1. Key(x) = k
          BY <3>1 DEF WaiterKeys
        <4>2. waiters'[k] = None
          BY <1>b DEF TypeInv, TypeOK
        <4> QED BY <4>1, <4>2
      <3> QED BY <3>1 DEF InMap, Key
    <2>4. at'[p] = waiters[k] /\ \A q \in Procs \ {p} : at'[q] = at[q]
      BY <1>b DEF TypeInv, TypeOK
    <2>5. ASSUME NEW q \in Procs, pc'[q] \in Taken PROVE at'[q] \notin InMap'
      BY <1>b, <2>2, <2>3, <2>4, <2>5 DEF OutOfMap
    <2> QED BY <1>b, <2>2, <2>5 DEF OutOfMap
  <1> USE DEF TypeInv, TypeOK, Goto, Procs
  <1>1. ASSUME NEW c \in Conns, Hello(c) PROVE OutOfMap'
    <2>1. Same
      BY <1>1 DEF Hello
    <2> QED BY <1>0, <2>1
  <1>2. ASSUME NEW c \in Conns, Register(c) PROVE OutOfMap'
    <2>1. Same
      BY <1>2 DEF Register
    <2> QED BY <1>0, <2>1
  <1>3. ASSUME NEW c \in Conns, Unregister(c) PROVE OutOfMap'
    <2>1. Same
      BY <1>3 DEF Unregister, IsCurrent
    <2> QED BY <1>0, <2>1
  <1>4. ASSUME NEW c \in Conns, FailLock(c) PROVE OutOfMap'
    <2>1. Same
      BY <1>4 DEF FailLock
    <2> QED BY <1>0, <2>1
  <1>5. ASSUME NEW c \in Conns, Fail(c) PROVE OutOfMap'
    <2>1. at[c] \notin InMap /\ at[c] \in Chats
      BY <1>5 DEF Fail, OutOfMap, InHand
    <2>2. Map /\ Hold
      BY <1>5 DEF Fail
    <2>3. \A x \in Chats : x # at[c] => done'[x] = done[x]
      BY <1>5 DEF Fail
    <2> HIDE DEF Map
    <2>4. InMap' \subseteq InMap
      BY <1>a, <2>2
    <2> QED BY <2>1, <2>2, <2>3, <2>4 DEF OutOfMap, InMap
  <1>6. ASSUME NEW c \in Conns, FailEnd(c) PROVE OutOfMap'
    <2>1. Same
      BY <1>6 DEF FailEnd, AllFailed
    <2> QED BY <1>0, <2>1
  <1>7. ASSUME NEW c \in Conns, ReadError(c) PROVE OutOfMap'
    <2>1. Same
      BY <1>7 DEF ReadError
    <2> QED BY <1>0, <2>1
  <1>8. ASSUME NEW c \in Conns, Dispatch(c) PROVE OutOfMap'
    <2>1. Same
      BY <1>8 DEF Dispatch, IsCurrent
    <2> QED BY <1>0, <2>1
  <1>9. ASSUME NEW c \in Conns, DeliverLock(c) PROVE OutOfMap'
    <2>1. Same
      BY <1>9 DEF DeliverLock
    <2> QED BY <1>0, <2>1
  <1>10. ASSUME NEW c \in Conns, Deliver(c) PROVE OutOfMap'
    <2>1. Same
      BY <1>10 DEF Deliver, HasRoom, RemovesWaiter
    <2> QED BY <1>0, <2>1
  <1>11. ASSUME NEW p \in Procs, RemoveWaiter(p) PROVE OutOfMap'
    <2>1. /\ waiters' = [waiters EXCEPT ![RemovalKey(p)] = None]
          /\ at' = [at EXCEPT ![p] = waiters[RemovalKey(p)]]
          /\ UNCHANGED done
      BY <1>11 DEF RemoveWaiter
    <2>2. RemovalKey(p) \in Keys
      BY <1>11 DEF RemoveWaiter, RemovalKey, Key, Keys, Event, InHand
    <2>3. \A q \in Procs \ {p} : pc'[q] = pc[q]
      BY <1>11 DEF RemoveWaiter
    <2> QED BY <1>b, <2>1, <2>2, <2>3
  <1>12. ASSUME NEW p \in Procs, Cancel(p) PROVE OutOfMap'
    <2>1. at[p] \notin InMap /\ at[p] \in Chats
      BY <1>12 DEF Cancel, OutOfMap, InHand
    <2>2. Map /\ Hold
      BY <1>12 DEF Cancel, AfterRemoval
    <2>3. \A x \in Chats : x # at[p] => done'[x] = done[x]
      BY <1>12 DEF Cancel
    <2> HIDE DEF Map
    <2>4. InMap' \subseteq InMap
      BY <1>a, <2>2
    <2> QED BY <2>1, <2>2, <2>3, <2>4 DEF OutOfMap, InMap
  <1>13. ASSUME NEW ch \in Chats, SendTask(ch) PROVE OutOfMap'
    <2>1. /\ pc[ch] = "send" /\ at' = at /\ done' = done
          /\ waiters' = waiters \/ waiters' = [waiters EXCEPT ![Key(ch)] = ch]
      BY <1>13 DEF SendTask
    <2>2. Key(ch) \in Keys
      BY DEF Key, Keys
    <2>3. InMap' \subseteq InMap \cup {ch}
      <3>1. ASSUME NEW x \in Chats, x # ch, waiters'[Key(x)] = x
            PROVE  waiters[Key(x)] = x
        <4>1. Key(x) \in Keys
          BY DEF Key, Keys
        <4> QED BY <2>1, <2>2, <3>1, <4>1
      <3> QED BY <3>1 DEF InMap, Key
    <2>4. Hold
      BY <1>13 DEF SendTask
    <2>5. ~done[ch] /\ \A q \in Procs : pc[q] \in Taken => at[q] # ch
      BY <2>1 DEF UnsentUntouched
    <2> QED BY <2>1, <2>3, <2>4, <2>5 DEF OutOfMap
  <1>14. ASSUME NEW ch \in Chats, WriteTask(ch) PROVE OutOfMap'
    <2>1. Same
      BY <1>14 DEF WriteTask
    <2> QED BY <1>0, <2>1
  <1>15. ASSUME NEW ch \in Chats, Forward(ch) PROVE OutOfMap'
    <2>1. Same
      BY <1>15 DEF Forward, EndsChat
    <2> QED BY <1>0, <2>1
  <1>16. ASSUME NEW c \in Conns, NEW m \in MsgIDs, FailNext(c, m) PROVE OutOfMap'
    <2>1. /\ waiters' = [waiters EXCEPT ![<<ConnAgent[c], m>>] = None]
          /\ at' = [at EXCEPT ![c] = waiters[<<ConnAgent[c], m>>]]
          /\ UNCHANGED done
      BY <1>16 DEF FailNext
    <2>2. <<ConnAgent[c], m>> \in Keys
      BY DEF Keys
    <2>3. \A q \in Procs \ {c} : pc'[q] = pc[q]
      BY <1>16 DEF FailNext
    <2> QED BY <1>b, <2>1, <2>2, <2>3
  <1>17. ASSUME NEW c \in Conns, NEW agent \in Agents, NEW m \in MsgIDs,
                NEW terminal \in BOOLEAN, Read(c, agent, m, terminal)
         PROVE  OutOfMap'
    <2>1. Same
      BY <1>17 DEF Read
    <2> QED BY <1>0, <2>1
  <1>18. CASE UNCHANGED vars
    <2>1. Same
      BY <1>18 DEF vars
    <2> QED BY <1>0, <2>1
  <1> HIDE DEF TypeInv, TypeOK, Goto, Procs, Same
  <1> QED
    BY <1>1, <1>2, <1>3, <1>4, <1>5, <1>6, <1>7, <1>8, <1>9, <1>10, <1>11,
        <1>12, <1>13, <1>14, <1>15, <1>16, <1>17, <1>18
       DEF Next, ConnStep, RuntimeStep, ChatStep, Procs

\* The handler that ends a connection's registration fails only waiters that
\* wait for that connection.
LEMMA NextFailedAreLost ==
  ASSUME TypeInv, RoutingInv, FailedAreLost, Gone \subseteq Gone', [Next]_vars
  PROVE  FailedAreLost'
  <1> DEFINE Map == \A x \in Chats : waiters'[Key(x)] = x => waiters[Key(x)] = x
             Hold == \A d \in Conns : pc'[d] \in Failing =>
                       /\ pc[d] \in Failing
                       /\ pc'[d] # "failing" => pc[d] # "failing" /\ at'[d] = at[d]
             Same == Map /\ Hold /\ UNCHANGED target
  <1>a. ASSUME Map PROVE InMap' \subseteq InMap
    BY <1>a DEF InMap, Key
  <1>0. ASSUME Same PROVE FailedAreLost'
    BY <1>0, <1>a DEF FailedAreLost, Gone
  <1>b. ASSUME mu = None, NEW d \in Conns PROVE pc[d] \notin Failing
    BY <1>b DEF RoutingInv, LockHolder, Failing
  <1>c. ASSUME NEW c \in Conns, NEW lost \in Conns, mu = None,
               runtimes[ConnAgent[c]] = lost, lost \in Gone', pc'[c] = "failing",
               \A d \in Conns \ {c} : pc'[d] = pc[d], UNCHANGED <<waiters, target>>
        PROVE  FailedAreLost'
    <2>1. ASSUME NEW ch \in InMap', ChatAgent[ch] = ConnAgent[c]
          PROVE  target'[ch] \in Gone'
      <3>1. ch \in Chats /\ waiters[Key(ch)] = ch /\ Key(ch) \in Keys
        BY <1>c, <2>1 DEF InMap, Key, Keys
      <3>2. target[ch] = runtimes[ConnAgent[c]]
        BY <1>c, <2>1, <3>1 DEF RoutingInv, WaitersMatchRuntime, Key
      <3> QED BY <1>c, <3>2
    <2>2. ASSUME NEW d \in Conns, pc'[d] \in Failing PROVE d = c
      BY <1>b, <1>c, <2>2
    <2> QED BY <1>c, <2>1, <2>2 DEF FailedAreLost
  <1> USE DEF TypeInv, TypeOK, Goto, Procs
  <1>1. ASSUME NEW c \in Conns, Hello(c) PROVE FailedAreLost'
    <2>1. Same
      BY <1>1 DEF Hello, Failing
    <2> QED BY <1>0, <2>1
  <1>2. ASSUME NEW c \in Conns, Register(c) PROVE FailedAreLost'
    <2> DEFINE previous == runtimes[ConnAgent[c]]
    <2>1. CASE previous = None
      <3>1. Same
        BY <1>2, <2>1 DEF Register, Failing
      <3> QED BY <1>0, <3>1
    <2>2. CASE previous # None
      <3>1. /\ pc[c] = "register" /\ mu = None /\ pc' = [pc EXCEPT ![c] = "failing"]
            /\ runtimes' = [runtimes EXCEPT ![ConnAgent[c]] = c]
            /\ UNCHANGED <<waiters, target>>
        BY <1>2, <2>2 DEF Register
      <3>2. /\ previous \in Conns /\ ConnAgent[previous] = ConnAgent[c]
            /\ pc[previous] \notin {"hello", "register"}
        BY <2>2 DEF RoutingInv, Registered
      <3>3. previous \in Gone'
        BY <3>1, <3>2 DEF Gone
      <3>4. pc'[c] = "failing" /\ \A d \in Conns \ {c} : pc'[d] = pc[d]
        BY <3>1
      <3> HIDE DEF TypeInv, TypeOK, Goto, Procs
      <3> QED BY <1>c, <3>1, <3>2, <3>3, <3>4
    <2> QED BY <2>1, <2>2
  <1>3. ASSUME NEW c \in Conns, Unregister(c) PROVE FailedAreLost'
    <2>1. CASE ~IsCurrent(c)
      <3>1. Same
        BY <1>3, <2>1 DEF Unregister, Failing
      <3> QED BY <1>0, <3>1
    <2>2. CASE IsCurrent(c)
      <3>1. /\ pc[c] = "unregister" /\ mu = None
            /\ pc' = [pc EXCEPT ![c] = "failing"]
            /\ runtimes' = [runtimes EXCEPT ![ConnAgent[c]] = None]
            /\ UNCHANGED <<waiters, target>>
        BY <1>3, <2>2 DEF Unregister
      <3>2. runtimes[ConnAgent[c]] = c
        BY <2>2 DEF IsCurrent
      <3>3. c \in Gone'
        BY <3>1 DEF Gone
      <3>4. pc'[c] = "failing" /\ \A d \in Conns \ {c} : pc'[d] = pc[d]
        BY <3>1
      <3> HIDE DEF TypeInv, TypeOK, Goto, Procs
      <3> QED BY <1>c, <3>1, <3>2, <3>3, <3>4
    <2> QED BY <2>1, <2>2
  <1>4. ASSUME NEW c \in Conns, FailLock(c) PROVE FailedAreLost'
    <2>1. Same
      BY <1>4 DEF FailLock, Failing
    <2> QED BY <1>0, <2>1
  <1>5. ASSUME NEW c \in Conns, Fail(c) PROVE FailedAreLost'
    <2>1. Same
      BY <1>5 DEF Fail, HasRoom, Failing
    <2> QED BY <1>0, <2>1
  <1>6. ASSUME NEW c \in Conns, FailEnd(c) PROVE FailedAreLost'
    <2>1. Same
      BY <1>6 DEF FailEnd, AllFailed, Failing
    <2> QED BY <1>0, <2>1
  <1>7. ASSUME NEW c \in Conns, ReadError(c) PROVE FailedAreLost'
    <2>1. Same
      BY <1>7 DEF ReadError, Failing
    <2> QED BY <1>0, <2>1
  <1>8. ASSUME NEW c \in Conns, Dispatch(c) PROVE FailedAreLost'
    <2>1. Same
      BY <1>8 DEF Dispatch, IsCurrent, Failing
    <2> QED BY <1>0, <2>1
  <1>9. ASSUME NEW c \in Conns, DeliverLock(c) PROVE FailedAreLost'
    <2>1. Same
      BY <1>9 DEF DeliverLock, Failing
    <2> QED BY <1>0, <2>1
  <1>10. ASSUME NEW c \in Conns, Deliver(c) PROVE FailedAreLost'
    <2>1. Same
      BY <1>10 DEF Deliver, HasRoom, RemovesWaiter, Failing
    <2> QED BY <1>0, <2>1
  <1>11. ASSUME NEW p \in Procs, RemoveWaiter(p) PROVE FailedAreLost'
    <2>1. Same
      BY <1>11 DEF RemoveWaiter, RemovalKey, AfterRemoval, Failing
    <2> QED BY <1>0, <2>1
  <1>12. ASSUME NEW p \in Procs, Cancel(p) PROVE FailedAreLost'
    <2>1. Same
      BY <1>12 DEF Cancel, AfterRemoval, Failing
    <2> QED BY <1>0, <2>1
  <1>13. ASSUME NEW ch \in Chats, SendTask(ch) PROVE FailedAreLost'
    <2>1. \A d \in Conns : pc'[d] \notin Failing
      <3>1. mu = None /\ \A d \in Conns : pc'[d] = pc[d]
        BY <1>13 DEF SendTask
      <3> QED BY <1>b, <3>1
    <2> QED BY <2>1 DEF FailedAreLost
  <1>14. ASSUME NEW ch \in Chats, WriteTask(ch) PROVE FailedAreLost'
    <2>1. Same
      BY <1>14 DEF WriteTask, Failing
    <2> QED BY <1>0, <2>1
  <1>15. ASSUME NEW ch \in Chats, Forward(ch) PROVE FailedAreLost'
    <2>1. Same
      BY <1>15 DEF Forward, EndsChat, Failing
    <2> QED BY <1>0, <2>1
  <1>16. ASSUME NEW c \in Conns, NEW m \in MsgIDs, FailNext(c, m) PROVE FailedAreLost'
    <2> DEFINE w == waiters[<<ConnAgent[c], m>>]
    <2>1. /\ pc[c] = "failing" /\ w # None
          /\ waiters' = [waiters EXCEPT ![<<ConnAgent[c], m>>] = None]
          /\ at' = [at EXCEPT ![c] = w] /\ pc' = [pc EXCEPT ![c] = "failLock"]
          /\ target' = target
      BY <1>16 DEF FailNext
    <2>2. <<ConnAgent[c], m>> \in Keys
      BY DEF Keys
    <2>3. w \in Chats /\ Key(w) = <<ConnAgent[c], m>>
      BY <2>1, <2>2 DEF RoutingInv, WaiterKeys
    <2>4. w \in InMap /\ ChatAgent[w] = ConnAgent[c]
      BY <2>3 DEF InMap, Key
    <2>5. target[w] \in Gone
      BY <2>1, <2>4 DEF FailedAreLost, Failing
    <2>6. Map
      BY <2>1
    <2> HIDE DEF w, Map
    <2>7. InMap' \subseteq InMap
      BY <1>a, <2>6
    <2>8. at'[c] = w /\ \A d \in Conns : d # c => pc'[d] = pc[d] /\ at'[d] = at[d]
      BY <2>1
    <2>9. pc[c] \in Failing
      BY <2>1 DEF Failing
    <2>10. ASSUME NEW d \in Conns, pc'[d] \in Failing
           PROVE  /\ pc'[d] # "failing" => target[at'[d]] \in Gone
                  /\ \A ch \in InMap' : ChatAgent[ch] = ConnAgent[d] =>
                       target[ch] \in Gone
      BY <2>5, <2>7, <2>8, <2>9, <2>10 DEF FailedAreLost
    <2> HIDE DEF TypeInv, TypeOK, Goto, Procs
    <2> QED BY <2>1, <2>10 DEF FailedAreLost
  <1>17. ASSUME NEW c \in Conns, NEW agent \in Agents, NEW m \in MsgIDs,
                NEW terminal \in BOOLEAN, Read(c, agent, m, terminal)
         PROVE  FailedAreLost'
    <2>1. Same
      BY <1>17 DEF Read, Failing
    <2> QED BY <1>0, <2>1
  <1>18. CASE UNCHANGED vars
    <2>1. Same
      BY <1>18 DEF vars, Failing
    <2> QED BY <1>0, <2>1
  <1> HIDE DEF TypeInv, TypeOK, Goto, Procs, Same
  <1> QED
    BY <1>1, <1>2, <1>3, <1>4, <1>5, <1>6, <1>7, <1>8, <1>9, <1>10, <1>11,
        <1>12, <1>13, <1>14, <1>15, <1>16, <1>17, <1>18
       DEF Next, ConnStep, RuntimeStep, ChatStep, Procs

\* A channel stays in order when what is sent on it was expected next; behind a
\* terminal event anything may follow.
LEMMA AppendInOrder ==
  ASSUME TypeOK, NEW ch \in Listening, NEW e, Faithful, Gone \subseteq Gone',
         events' = [events EXCEPT ![ch] = Append(@, e)],
         got'[ch] = got[ch], sent'[ch] = sent[ch], target'[ch] = target[ch],
         ch \notin Settled =>
           \/ /\ Len(got[ch]) + Len(events[ch]) + 1 <= Len(sent[ch])
              /\ e = sent[ch][Len(got[ch]) + Len(events[ch]) + 1]
           \/ e = RegistryError(ch) /\ target[ch] \in Gone'
  PROVE  ChannelInOrder(ch)'
  <1> DEFINE s == events[ch]
             n == Len(s)
  <1>1. ch \in Chats /\ s \in Seq(Event) /\ events'[ch] = Append(s, e)
    BY DEF Listening, TypeOK
  <1>2. n \in Nat /\ DOMAIN s = 1..n /\ DOMAIN events'[ch] = 1..(n + 1)
    BY <1>1
  <1>3. events'[ch][n + 1] = e /\ \A i \in 1..n : events'[ch][i] = s[i]
    BY <1>1
  <1>4. Len(got[ch]) \in Nat
    BY <1>1 DEF TypeOK
  <1>5. ASSUME NEW i \in DOMAIN events'[ch],
               \A j \in 1..(i - 1) : ~events'[ch][j].terminal
        PROVE  Expected(ch, i)'
    <2>1. CASE i \in 1..n
      <3>1. \A j \in 1..(i - 1) : ~s[j].terminal
        BY <1>2, <1>3, <1>5, <2>1
      <3>2. Expected(ch, i)
        BY <1>2, <2>1, <3>1 DEF Faithful, ChannelInOrder
      <3>3. events'[ch][i] = events[ch][i]
        BY <1>3, <2>1
      <3> QED BY <3>2, <3>3 DEF Expected, RegistryError
    <2>2. CASE i = n + 1
      <3>1. \A j \in 1..n : ~s[j].terminal
        BY <1>2, <1>3, <1>5, <2>2
      <3>2. ch \notin Settled
        BY <1>2, <3>1 DEF Settled
      <3> HIDE DEF n, s
      <3>3. Len(got[ch]) + i = Len(got[ch]) + n + 1 /\ events'[ch][i] = e
        <4>1. n \in Nat /\ events'[ch][n + 1] = e
          BY <1>2, <1>3
        <4>2. \A a, b \in Nat : a + (b + 1) = a + b + 1
          OBVIOUS
        <4> QED BY <1>4, <2>2, <4>1, <4>2, Zenon
      <3>4. CASE e = RegistryError(ch) /\ target[ch] \in Gone'
        BY <3>3, <3>4 DEF Expected, RegistryError
      <3>5. CASE /\ Len(got[ch]) + n + 1 <= Len(sent[ch])
                 /\ e = sent[ch][Len(got[ch]) + n + 1]
        BY <3>3, <3>5 DEF Expected
      <3> QED BY <3>2, <3>4, <3>5 DEF n, s
    <2> QED BY <1>2, <1>5, <2>1, <2>2
  <1> QED BY <1>5 DEF ChannelInOrder

\* More from the connection leaves the channel in order.
LEMMA SayInOrder ==
  ASSUME TypeOK, NEW ch \in Listening, NEW e, Faithful, SentType,
         Gone \subseteq Gone',
         sent'[ch] = Append(sent[ch], e), UNCHANGED <<events, got, target>>
  PROVE  ChannelInOrder(ch)'
  <1>1. /\ ch \in Chats /\ sent[ch] \in Seq(Event)
        /\ events[ch] \in Seq(Event) /\ got[ch] \in Seq(Event)
    BY DEF Listening, SentType, TypeOK
  <1>2. Len(sent'[ch]) = Len(sent[ch]) + 1
    BY <1>1
  <1>3. \A k \in 1..Len(sent[ch]) : sent'[ch][k] = sent[ch][k]
    BY <1>1
  <1>4. ASSUME NEW i \in DOMAIN events[ch], Expected(ch, i) PROVE Expected(ch, i)'
    <2>1. i \in Nat /\ i >= 1 /\ Len(got[ch]) \in Nat /\ Len(sent[ch]) \in Nat
      BY <1>1
    <2>2. CASE /\ Len(got[ch]) + i <= Len(sent[ch])
               /\ events[ch][i] = sent[ch][Len(got[ch]) + i]
      <3>1. sent'[ch][Len(got[ch]) + i] = sent[ch][Len(got[ch]) + i]
        BY <1>3, <2>1, <2>2
      <3>2. Len(got[ch]) + i <= Len(sent'[ch])
        BY <1>2, <2>1, <2>2
      <3> QED BY <2>2, <3>1, <3>2 DEF Expected
    <2>3. CASE events[ch][i] = RegistryError(ch) /\ target[ch] \in Gone
      BY <2>3 DEF Expected, RegistryError
    <2> QED BY <1>4, <2>2, <2>3 DEF Expected
  <1> QED BY <1>4 DEF Faithful, ChannelInOrder

\* Forwarding an event that is not terminal leaves the channel in order and the
\* account of what was sent balanced.
LEMMA ForwardInOrder ==
  ASSUME TypeOK, NEW ch \in Listening, Faithful, SentType, Gone \subseteq Gone',
         events[ch] # <<>>, ~Head(events[ch]).terminal, ch \in Listening', Still(ch),
         events' = [events EXCEPT ![ch] = Tail(@)],
         got' = [got EXCEPT ![ch] = Append(@, Head(events[ch]))]
  PROVE  ChannelInOrder(ch)' /\ UpToDate(ch)'
  <1> DEFINE s == events[ch]
             g == got[ch]
  <1>1. /\ ch \in Chats /\ s \in Seq(Event) /\ s # <<>> /\ g \in Seq(Event)
        /\ events'[ch] = Tail(s) /\ got'[ch] = Append(g, s[1])
        /\ sent'[ch] = sent[ch] /\ target'[ch] = target[ch]
    BY DEF Listening, TypeOK, Still
  <1>2. Len(s) \in Nat /\ Len(g) \in Nat /\ Len(s) >= 1
    BY <1>1
  <1>3. Len(got'[ch]) = Len(g) + 1 /\ Len(events'[ch]) = Len(s) - 1
    <2>1. Len(Append(g, s[1])) = Len(g) + 1
      BY <1>1
    <2>2. Len(Tail(s)) = Len(s) - 1
      BY <1>1
    <2> HIDE DEF s, g
    <2> QED BY <1>1, <2>1, <2>2
  <1>4. /\ DOMAIN s = 1..Len(s) /\ DOMAIN events'[ch] = 1..(Len(s) - 1)
        /\ \A i \in 1..(Len(s) - 1) : events'[ch][i] = s[i + 1]
    <2>1. DOMAIN s = 1..Len(s)
      BY <1>1
    <2>2. /\ DOMAIN Tail(s) = 1..(Len(s) - 1)
          /\ \A i \in 1..(Len(s) - 1) : Tail(s)[i] = s[i + 1]
      BY <1>1
    <2> HIDE DEF s, g
    <2> QED BY <1>1, <2>1, <2>2
  <1>5. ~s[1].terminal
    BY <1>1
  <1>6. ASSUME NEW i \in DOMAIN events'[ch],
               \A j \in 1..(i - 1) : ~events'[ch][j].terminal
        PROVE  Expected(ch, i)'
    <2>1. i \in 1..(Len(s) - 1) /\ i \in Nat /\ i >= 1 /\ i <= Len(s) - 1
      BY <1>2, <1>4
    <2> HIDE DEF s, g
    <2>2. i + 1 \in DOMAIN s
      <3>1. i + 1 \in 1..Len(s)
        BY <1>2, <2>1
      <3> QED BY <1>4, <3>1
    <2>3. ASSUME NEW j \in 1..i PROVE ~s[j].terminal
      <3>1. CASE j = 1
        BY <1>5, <3>1
      <3>2. CASE j > 1
        <4>1. j - 1 \in 1..(i - 1) /\ j - 1 \in 1..(Len(s) - 1) /\ (j - 1) + 1 = j
          BY <1>2, <2>1, <3>2
        <4> QED BY <1>4, <1>6, <4>1
      <3> QED BY <3>1, <3>2
    <2>4. Expected(ch, i + 1)
      <3>1. (i + 1) - 1 = i
        BY <2>1
      <3> QED BY <2>2, <2>3, <3>1 DEF Faithful, ChannelInOrder, s
    <2>5. Len(g) + (i + 1) = Len(got'[ch]) + i
      <3>1. \A a, b \in Nat : a + (b + 1) = (a + 1) + b
        OBVIOUS
      <3>2. Len(g) + (i + 1) = (Len(g) + 1) + i
        BY <1>2, <2>1, <3>1, Zenon
      <3> QED BY <1>3, <3>2, Zenon
    <2>6. events'[ch][i] = s[i + 1]
      BY <1>4, <2>1
    <2>7. sent'[ch] = sent[ch] /\ target'[ch] = target[ch]
      BY <1>1
    <2>8. CASE events[ch][i + 1] = RegistryError(ch) /\ target[ch] \in Gone
      BY <2>6, <2>7, <2>8 DEF Expected, RegistryError, s
    <2>9. CASE /\ Len(got[ch]) + (i + 1) <= Len(sent[ch])
               /\ events[ch][i + 1] = sent[ch][Len(got[ch]) + (i + 1)]
      BY <2>5, <2>6, <2>7, <2>9 DEF Expected, s, g
    <2> QED BY <2>4, <2>8, <2>9 DEF Expected
  <1>7. ch \notin Settled' => ch \notin Settled
    BY <1>1, TailSettled
  <1>8. Len(got'[ch]) + Len(events'[ch]) = Len(g) + Len(s)
    <2>1. \A a, b \in Nat : (a + 1) + (b - 1) = a + b
      OBVIOUS
    <2> HIDE DEF s, g
    <2>2. (Len(g) + 1) + (Len(s) - 1) = Len(g) + Len(s)
      BY <1>2, <2>1, Zenon
    <2> QED BY <1>3, <2>2, Zenon
  <1>9. UpToDate(ch)'
    BY <1>1, <1>7, <1>8 DEF UpToDate, Faithful, Still
  <1> QED BY <1>6, <1>9 DEF ChannelInOrder

\* Of the chats that wait for a connection's event the registry knows the one in
\* the map, and Dispatch takes it.
LEMMA HeardInMap ==
  ASSUME TypeInv, RoutingInv, NEW c \in Conns, pc[c] = "lookup", mu = None,
         NEW ch \in InMap, target[ch] = c, ChatMsg[ch] = evt[c].msg
  PROVE  IsCurrent(c) /\ waiters[<<ConnAgent[c], evt[c].msg>>] = ch
  <1>1. ch \in Chats /\ waiters[Key(ch)] = ch /\ Key(ch) \in Keys
    BY DEF InMap, Key, Keys
  <1>2. target[ch] = runtimes[ChatAgent[ch]]
    BY <1>1 DEF RoutingInv, WaitersMatchRuntime, Key
  <1>3. ChatAgent[ch] \in Agents
    BY <1>1
  <1>4. ConnAgent[c] = ChatAgent[ch]
    BY <1>2, <1>3 DEF RoutingInv, Registered
  <1> QED BY <1>1, <1>2, <1>4 DEF IsCurrent, Key

\* The converse: the waiter that Dispatch takes waits for the event's connection
\* and for its message.
LEMMA TakenIsMeant ==
  ASSUME TypeInv, RoutingInv, NEW c \in Conns, pc[c] = "lookup", mu = None,
         IsCurrent(c), NEW w \in Chats, w = waiters[<<ConnAgent[c], evt[c].msg>>]
  PROVE  w \in InMap /\ target[w] = c /\ ChatMsg[w] = evt[c].msg
  <1>1. <<ConnAgent[c], evt[c].msg>> \in Keys
    BY DEF TypeInv, InHand, Event, Keys
  <1>2. Key(w) = <<ConnAgent[c], evt[c].msg>>
    BY <1>1 DEF RoutingInv, WaiterKeys
  <1>3. target[w] = runtimes[ConnAgent[c]]
    BY <1>1 DEF RoutingInv, WaitersMatchRuntime
  <1> QED BY <1>2, <1>3 DEF InMap, IsCurrent, Key

\* A dispatched event is due to the chats that wait for it; the one in the map,
\* if any, is put into delivery.
LEMMA DispatchFaithful ==
  ASSUME TypeInv, RoutingInv, SettledInv, StreamInv, StreamNext,
         Gone \subseteq Gone', NEW c \in Conns, Dispatch(c)
  PROVE  Faithful'
  <1> DEFINE k == <<ConnAgent[c], evt[c].msg>>
             w == waiters[k]
             taken == IsCurrent(c) /\ w # None
  <1>1. /\ pc[c] = "lookup" /\ mu = None
        /\ UNCHANGED <<waiters, events, got, target>>
    BY DEF Dispatch
  <1>2. /\ taken => /\ pc' = [pc EXCEPT ![c] = "deliverLock"]
                    /\ at' = [at EXCEPT ![c] = w] /\ evt' = evt
        /\ ~taken => /\ pc' = [pc EXCEPT ![c] = "read"] /\ at' = at
                     /\ evt' = [evt EXCEPT ![c] = None]
    BY DEF Dispatch, Goto
  <1>3. pc'[c] # "lookup" /\ \A p \in Procs : p # c => pc'[p] = pc[p]
    BY <1>2 DEF TypeInv, TypeOK, Procs
  <1>4. \A d \in Conns : d # c => at'[d] = at[d] /\ evt'[d] = evt[d]
    BY <1>2 DEF TypeInv, TypeOK, Procs
  <1>5. Listening' = Listening /\ InMap' = InMap
    <2>1. \A x \in Chats : pc'[x] = pc[x]
      BY <1>3 DEF Procs
    <2> QED BY <1>1, <2>1 DEF Listening, InMap, Key
  <1>6. taken => w \in Chats
    <2>1. k \in Keys
      BY <1>1 DEF TypeInv, InHand, Event, Keys
    <2> QED BY <2>1 DEF TypeInv, TypeOK
  <1>7. \A x \in Chats : x \in Listening => target[x] \in Conns
    BY DEF Listening, SettledInv, SentTarget, TypeInv, TypeOK
  <1>8. DeliverTarget
    BY DEF RoutingInv
  <1>9. ASSUME NEW x \in Chats, target[x] = c PROVE x \notin InDelivery
    BY <1>1, <1>8, <1>9, DeliveryTarget DEF InDelivery, Delivering
  <1>10. InDelivery' = IF taken THEN InDelivery \cup {w} ELSE InDelivery
    <2>1. \A d \in Conns : d # c => (pc'[d] \in Delivering <=> pc[d] \in Delivering)
      BY <1>3 DEF Procs
    <2>2. pc[c] \notin Delivering
      BY <1>1 DEF Delivering
    <2>3. CASE taken
      <3>1. pc'[c] \in Delivering /\ at'[c] = w
        BY <1>2, <2>3 DEF TypeInv, TypeOK, Procs, Delivering
      <3>2. w \in Chats
        BY <1>6, <2>3
      <3> HIDE DEF w, taken
      <3> QED BY <1>4, <2>1, <2>2, <2>3, <3>1, <3>2 DEF InDelivery
    <2>4. CASE ~taken
      <3>1. pc'[c] \notin Delivering
        BY <1>2, <2>4 DEF TypeInv, TypeOK, Procs, Delivering
      <3> HIDE DEF w, taken
      <3> QED BY <1>4, <2>1, <2>2, <2>4, <3>1 DEF InDelivery
    <2> QED BY <2>3, <2>4
  <1>11. /\ taken => w \in InMap /\ target[w] = c /\ ChatMsg[w] = evt[c].msg
         /\ \A x \in InMap : target[x] = c /\ ChatMsg[x] = evt[c].msg =>
              taken /\ x = w
    <2>1. ASSUME taken PROVE w \in InMap /\ target[w] = c /\ ChatMsg[w] = evt[c].msg
      <3>. PICK u \in Chats : u = w
        BY <1>6, <2>1
      <3> QED BY <1>1, <2>1, TakenIsMeant
    <2>2. ASSUME NEW x \in InMap, target[x] = c, ChatMsg[x] = evt[c].msg
          PROVE  taken /\ x = w
      <3>1. IsCurrent(c) /\ w = x
        BY <1>1, <2>2, HeardInMap
      <3>2. x # None
        BY <2>2 DEF InMap
      <3> QED BY <3>1, <3>2
    <2> QED BY <2>1, <2>2
  <1> HIDE DEF k, w, taken
  <1>12. ASSUME NEW x \in Listening' PROVE ChannelInOrder(x)' /\ UpToDate(x)'
    <2>1. x \in Listening /\ x \in Chats /\ target[x] \in Conns
      BY <1>5, <1>7, <1>12 DEF Listening
    <2>2. Heard(x) <=> target[x] = c /\ ChatMsg[x] = evt[c].msg
      <3>1. target[x] # c => pc'[target[x]] = pc[target[x]]
        BY <1>3, <2>1 DEF Procs
      <3> QED BY <1>1, <1>3, <2>1, <3>1 DEF Heard
    <2>3. CASE Heard(x)
      <3>1. sent'[x] = Append(sent[x], evt[c])
        BY <2>1, <2>2, <2>3 DEF StreamNext
      <3>2. ChannelInOrder(x)'
        BY <1>1, <2>1, <3>1, SayInOrder DEF StreamInv, TypeInv
      <3>3. x \notin InDelivery
        BY <1>9, <2>1, <2>2, <2>3
      <3>4. CASE taken /\ x = w
        <4>1. Len(sent[x]) = Len(got[x]) + Len(events[x])
          BY <1>11, <2>1, <3>3, <3>4 DEF StreamInv, Faithful, UpToDate
        <4>2. sent[x] \in Seq(Event)
          BY <2>1 DEF StreamInv, SentType
        <4>3. /\ Len(sent'[x]) = Len(sent[x]) + 1
              /\ sent'[x][Len(sent'[x])] = evt[c]
          BY <3>1, <4>2
        <4>4. x \in InDelivery' /\ evt'[target[x]] = evt[c]
          BY <1>2, <1>10, <2>2, <2>3, <3>4
        <4>5. Len(sent'[x]) = Len(got'[x]) + Len(events'[x]) + 1
          BY <1>1, <4>1, <4>3
        <4> QED BY <1>1, <3>2, <4>3, <4>4, <4>5 DEF UpToDate
      <3>5. CASE ~(taken /\ x = w)
        <4>1. x \notin InMap'
          BY <1>5, <1>11, <2>2, <2>3, <3>5
        <4>2. x \notin InDelivery'
          BY <1>10, <3>3, <3>5
        <4> QED BY <3>2, <4>1, <4>2 DEF UpToDate
      <3> QED BY <3>4, <3>5
    <2>4. CASE ~Heard(x)
      <3>1. sent'[x] = sent[x]
        BY <2>1, <2>4 DEF StreamNext
      <3>2. ~(taken /\ x = w)
        BY <1>11, <2>2, <2>4
      <3>3. x \in InDelivery' <=> x \in InDelivery
        BY <1>10, <3>2
      <3>4. x \in InDelivery => evt'[target[x]] = evt[target[x]]
        BY <1>4, <1>9, <2>1
      <3>5. Quiet(x)
        BY <1>1, <1>5, <2>1, <3>1, <3>3, <3>4 DEF Quiet, Still
      <3> QED BY <1>12, <3>5, QuietKeeps DEF StreamInv
    <2> QED BY <2>3, <2>4
  <1> QED BY <1>12 DEF Faithful

\* A delivery puts the event on the waiter's channel, where it is due, or gives
\* up on a waiter that is out of the map.
LEMMA DeliverFaithful ==
  ASSUME TypeInv, RoutingInv, StreamInv, sent' = sent,
         Gone \subseteq Gone', NEW c \in Conns, Deliver(c)
  PROVE  Faithful'
  <1>0. PICK w \in Chats : w = at[c]
    BY DEF Deliver, TypeInv, InHand
  <1>1. /\ pc[c] = "deliver" /\ w \in Chats /\ target[w] = c
        /\ UNCHANGED <<waiters, got, target>>
    BY <1>0 DEF Deliver, RoutingInv, DeliverTarget
  <1>2. PICK l \in {"read", "remove"} : pc' = [pc EXCEPT ![c] = l]
    BY DEF Deliver, Goto
  <1>3. /\ at' = [at EXCEPT ![c] = None]
        /\ evt' = evt \/ evt' = [evt EXCEPT ![c] = None]
    BY DEF Deliver
  <1>4. \A d \in Conns : d # c =>
          pc'[d] = pc[d] /\ at'[d] = at[d] /\ evt'[d] = evt[d]
    BY <1>2, <1>3 DEF TypeInv, TypeOK, Procs
  <1>5. pc'[c] \notin Delivering /\ pc[c] \in Delivering
    BY <1>1, <1>2 DEF TypeInv, TypeOK, Procs, Delivering
  <1>6. Listening' = Listening /\ InMap' = InMap
    <2>1. \A x \in Chats : pc'[x] = pc[x]
      BY <1>2 DEF TypeInv, TypeOK, Procs
    <2> QED BY <1>1, <2>1 DEF Listening, InMap, Key
  <1>7. DeliverTarget
    BY DEF RoutingInv
  <1>8. ASSUME NEW d \in Conns, pc[d] \in Delivering, at[d] = w PROVE d = c
    BY <1>1, <1>7, <1>8, DeliveryTarget
  <1>9. w \in InDelivery /\ w \notin InDelivery'
    BY <1>0, <1>4, <1>5, <1>8 DEF InDelivery
  <1>10. ASSUME NEW x \in Chats, x # w PROVE x \in InDelivery' <=> x \in InDelivery
    BY <1>0, <1>4, <1>5, <1>10 DEF InDelivery
  <1>11. \/ done[w] /\ UNCHANGED events
         \/ events' = [events EXCEPT ![w] = Append(@, evt[c])]
    BY <1>0 DEF Deliver, GivesUp
  <1>12. ASSUME NEW x \in Listening', x # w PROVE Quiet(x)
    <2>1. x \in Listening /\ x \in Chats
      BY <1>6, <1>12 DEF Listening
    <2>2. events'[x] = events[x]
      BY <1>11, <1>12, <2>1 DEF TypeInv, TypeOK
    <2>3. ASSUME x \in InDelivery PROVE evt'[target[x]] = evt[target[x]]
      <3>1. PICK d \in Conns : pc[d] \in Delivering /\ at[d] = x
        BY <2>3 DEF InDelivery
      <3>2. target[x] = d
        BY <1>7, <3>1, DeliveryTarget
      <3>3. d # c
        BY <1>0, <1>12, <3>1
      <3> QED BY <1>4, <3>2, <3>3
    <2> QED BY <1>1, <1>6, <1>10, <1>12, <2>1, <2>2, <2>3 DEF Quiet, Still
  <1>13. ASSUME w \in Listening' PROVE ChannelInOrder(w)' /\ UpToDate(w)'
    <2>1. w \in Listening
      BY <1>6, <1>13
    <2>2. CASE done[w] /\ UNCHANGED events
      <3>1. w \notin InMap'
        BY <1>6, <2>2 DEF StreamInv, OutOfMap
      <3>2. Quiet(w)
        BY <1>1, <1>6, <1>9, <2>1, <2>2, <3>1 DEF Quiet, Still
      <3> QED BY <1>13, <3>2, QuietKeeps DEF StreamInv
    <2>3. CASE events' = [events EXCEPT ![w] = Append(@, evt[c])]
      <3>1. w \in InMap \/ w \notin Settled =>
              /\ Len(sent[w]) = Len(got[w]) + Len(events[w]) + 1
              /\ sent[w][Len(sent[w])] = evt[c]
        BY <1>1, <1>9, <2>1 DEF StreamInv, Faithful, UpToDate
      <3>2. /\ events[w] \in Seq(Event) /\ events'[w] = Append(events[w], evt[c])
            /\ got[w] \in Seq(Event) /\ sent[w] \in Seq(Event)
        BY <1>1, <2>3 DEF TypeInv, TypeOK, StreamInv, SentType
      <3>3. Len(events'[w]) = Len(events[w]) + 1
        BY <3>2
      <3>4. /\ Len(got[w]) \in Nat /\ Len(events[w]) \in Nat
            /\ Len(sent[w]) \in Nat
        BY <3>2
      <3>5. \A a, b \in Nat : a + b + 1 = a + (b + 1)
        OBVIOUS
      <3>6. w \notin Settled =>
              /\ Len(got[w]) + Len(events[w]) + 1 <= Len(sent[w])
              /\ evt[c] = sent[w][Len(got[w]) + Len(events[w]) + 1]
        <4>1. \A a \in Nat : a <= a
          OBVIOUS
        <4> QED BY <3>1, <3>4, <4>1, Zenon
      <3>7. ChannelInOrder(w)'
        BY <1>1, <2>1, <2>3, <3>6, AppendInOrder DEF StreamInv, TypeInv
      <3>8. Len(got[w]) + Len(events[w]) + 1 = Len(got[w]) + (Len(events[w]) + 1)
        BY <3>4, <3>5, Zenon
      <3>9. w \in InMap' => Len(sent'[w]) = Len(got'[w]) + Len(events'[w])
        BY <1>1, <1>6, <3>1, <3>3, <3>8, Zenon
      <3> QED BY <1>9, <3>7, <3>9 DEF UpToDate
    <2> QED BY <1>11, <2>2, <2>3
  <1>14. ASSUME NEW x \in Listening' PROVE ChannelInOrder(x)' /\ UpToDate(x)'
    BY <1>12, <1>13, <1>14, QuietKeeps DEF StreamInv
  <1> QED BY <1>14 DEF Faithful

\* The registry's error goes to a waiter out of the map whose connection is gone.
LEMMA FailFaithful ==
  ASSUME TypeInv, RoutingInv, StreamInv, sent' = sent,
         Gone \subseteq Gone', NEW c \in Conns, Fail(c), Aside
  PROVE  Faithful'
  <1>0. PICK w \in Chats : w = at[c]
    BY DEF Fail, TypeInv, InHand
  <1> DEFINE e == RegistryError(w)
  <1>1. pc[c] = "fail" /\ got' = got /\ target' = target
    BY DEF Fail
  <1>2. w \notin InMap /\ target[w] \in Gone
    BY <1>0, <1>1 DEF StreamInv, OutOfMap, FailedAreLost, Failing, Procs
  <1>3. \A x \in Chats : Still(x)
    BY AsideIsStill DEF RoutingInv
  <1>4. UNCHANGED events \/ events' = [events EXCEPT ![w] = Append(@, e)]
    BY <1>0 DEF Fail, RegistryError
  <1>5. e.terminal
    BY DEF RegistryError
  <1> HIDE DEF e
  <1>6. ASSUME NEW x \in Listening', x # w \/ UNCHANGED events PROVE Quiet(x)
    <2>1. x \in Chats
      BY <1>6 DEF Listening
    <2>2. events'[x] = events[x]
      BY <1>4, <1>6, <2>1 DEF TypeInv, TypeOK
    <2> QED BY <1>1, <1>3, <2>1, <2>2 DEF Quiet
  <1>7. ASSUME w \in Listening', events' = [events EXCEPT ![w] = Append(@, e)]
        PROVE  ChannelInOrder(w)' /\ UpToDate(w)'
    <2>1. w \in Listening
      BY <1>1, <1>3, <1>7 DEF Still
    <2>2. target[w] \in Gone'
      BY <1>2
    <2>3. ChannelInOrder(w)'
      BY <1>1, <1>7, <2>1, <2>2, AppendInOrder DEF StreamInv, TypeInv, e
    <2>4. w \in Settled'
      BY <1>1, <1>5, <1>7, AppendSettled DEF TypeInv
    <2>5. w \notin InMap'
      BY <1>1, <1>2, <1>3 DEF Still
    <2> QED BY <2>3, <2>4, <2>5 DEF UpToDate
  <1>8. ASSUME NEW x \in Listening' PROVE ChannelInOrder(x)' /\ UpToDate(x)'
    BY <1>4, <1>6, <1>7, <1>8, QuietKeeps DEF StreamInv
  <1> QED BY <1>8 DEF Faithful

\* A chat that sends starts with nothing sent, shown or in its channel.
LEMMA SendFaithful ==
  ASSUME TypeInv, RoutingInv, SettledInv, StreamInv, sent' = sent,
         Gone \subseteq Gone', NEW ch \in Chats, SendTask(ch)
  PROVE  Faithful'
  <1>1. /\ pc[ch] = "send" /\ UNCHANGED <<events, got, at, evt>>
        /\ waiters' = waiters \/ waiters' = [waiters EXCEPT ![Key(ch)] = ch]
    BY DEF SendTask
  <1>2. \A p \in Procs : p # ch => pc'[p] = pc[p]
    BY DEF SendTask, Goto, TypeInv, TypeOK
  <1>3. \A x \in Chats : x # ch => target'[x] = target[x]
    BY DEF SendTask, TypeInv, TypeOK
  <1>4. InDelivery' = InDelivery
    BY <1>1, <1>2 DEF InDelivery, Procs
  <1>5. ch \notin InDelivery
    BY <1>1 DEF InDelivery, SettledInv, DeliverKey, Delivering
  <1>6. ASSUME NEW x \in Listening', x # ch PROVE Quiet(x)
    <2>1. x \in Chats /\ pc'[x] = pc[x] /\ x \in Listening
      BY <1>2, <1>6 DEF Listening, Procs
    <2>2. x \in InMap' => x \in InMap
      <3>1. Key(x) \in Keys /\ Key(ch) \in Keys
        BY <2>1 DEF Key, Keys
      <3>2. waiters'[Key(x)] = x => waiters[Key(x)] = x
        BY <1>1, <1>6, <3>1 DEF TypeInv, TypeOK
      <3> QED BY <2>1, <3>2 DEF InMap, Key
    <2> QED BY <1>1, <1>3, <1>4, <1>6, <2>1, <2>2 DEF Quiet, Still
  <1>7. sent'[ch] = <<>> /\ got'[ch] = <<>> /\ events'[ch] = <<>>
    BY <1>1 DEF StreamInv, Untouched
  <1>8. ChannelInOrder(ch)' /\ UpToDate(ch)'
    <2>1. ChannelInOrder(ch)'
      BY <1>7 DEF ChannelInOrder
    <2>2. Len(sent'[ch]) = Len(got'[ch]) + Len(events'[ch])
      BY <1>7
    <2> QED BY <1>4, <1>5, <2>1, <2>2 DEF UpToDate
  <1>9. ASSUME NEW x \in Listening' PROVE ChannelInOrder(x)' /\ UpToDate(x)'
    BY <1>6, <1>8, <1>9, QuietKeeps DEF StreamInv
  <1> QED BY <1>9 DEF Faithful

\* A chat's loop takes the events off its channel in order.
LEMMA ForwardFaithful ==
  ASSUME TypeInv, RoutingInv, StreamInv, sent' = sent,
         Gone \subseteq Gone', NEW ch \in Chats, Forward(ch), Aside
  PROVE  Faithful'
  <1>1. /\ pc[ch] = "range" /\ events[ch] # <<>>
        /\ events' = [events EXCEPT ![ch] = Tail(@)]
    BY DEF Forward
  <1>2. got' = got \/ got' = [got EXCEPT ![ch] = Append(@, Head(events[ch]))]
    BY DEF Forward
  <1>3. \A x \in Chats : Still(x)
    BY AsideIsStill DEF RoutingInv
  <1>4. ASSUME NEW x \in Listening', x # ch PROVE Quiet(x)
    <2>1. x \in Chats
      BY <1>4 DEF Listening
    <2>2. events'[x] = events[x] /\ got'[x] = got[x]
      BY <1>1, <1>2, <1>4, <2>1 DEF TypeInv, TypeOK
    <2> QED BY <1>3, <2>1, <2>2 DEF Quiet
  <1>5. ASSUME ch \in Listening' PROVE ChannelInOrder(ch)' /\ UpToDate(ch)'
    <2>1. ch \in Listening
      BY <1>1 DEF Listening
    <2>2. /\ got' = [got EXCEPT ![ch] = Append(@, Head(events[ch]))]
          /\ ~Head(events[ch]).terminal
      <3>1. pc'[ch] # "remove"
        BY <1>5 DEF Listening
      <3> QED BY <3>1 DEF Forward, EndsChat, Goto, TypeInv, TypeOK, Procs
    <2> QED
      BY <1>1, <1>3, <1>5, <2>1, <2>2, ForwardInOrder DEF StreamInv, TypeInv
  <1>6. ASSUME NEW x \in Listening' PROVE ChannelInOrder(x)' /\ UpToDate(x)'
    BY <1>4, <1>5, <1>6, QuietKeeps DEF StreamInv
  <1> QED BY <1>6 DEF Faithful

\* Every action keeps every channel in order.
LEMMA NextFaithful ==
  ASSUME TypeInv, RoutingInv, SettledInv, StreamInv, StreamNext,
         Gone \subseteq Gone'
  PROVE  Faithful'
  <1>0. ASSUME Aside, UNCHANGED <<events, got>> PROVE Faithful'
    <2>1. sent' = sent
      BY <1>0, SentStays DEF Aside, SettledInv, StreamInv
    <2>2. ASSUME NEW x \in Listening' PROVE ChannelInOrder(x)' /\ UpToDate(x)'
      <3>1. x \in Chats
        BY <2>2 DEF Listening
      <3>2. Quiet(x)
        BY <1>0, <2>1, <3>1, AsideIsStill DEF RoutingInv, Quiet
      <3> QED BY <3>2, QuietKeeps DEF StreamInv
    <2> QED BY <2>2 DEF Faithful
  <1>b. ASSUME \A d \in Conns : pc[d] = "lookup" => pc'[d] = "lookup"
        PROVE  sent' = sent
    BY <1>b, SentStays DEF SettledInv, StreamInv
  <1>c. Next
    BY DEF StreamNext
  <1> USE DEF TypeInv, TypeOK, Goto, Procs, Aside
  <1>1. ASSUME NEW c \in Conns, Hello(c) PROVE Faithful'
    <2>1. Aside /\ UNCHANGED <<events, got>>
      BY <1>1 DEF Hello, Delivering
    <2> QED BY <1>0, <2>1
  <1>2. ASSUME NEW c \in Conns, Register(c) PROVE Faithful'
    <2>1. Aside /\ UNCHANGED <<events, got>>
      BY <1>2 DEF Register, Delivering
    <2> QED BY <1>0, <2>1
  <1>3. ASSUME NEW c \in Conns, Unregister(c) PROVE Faithful'
    <2>1. Aside /\ UNCHANGED <<events, got>>
      BY <1>3 DEF Unregister, IsCurrent, Delivering
    <2> QED BY <1>0, <2>1
  <1>4. ASSUME NEW c \in Conns, FailLock(c) PROVE Faithful'
    <2>1. Aside /\ UNCHANGED <<events, got>>
      BY <1>4 DEF FailLock, Delivering
    <2> QED BY <1>0, <2>1
  <1>5. ASSUME NEW c \in Conns, Fail(c) PROVE Faithful'
    <2>1. Aside
      BY <1>5 DEF Fail, HasRoom, Delivering
    <2> HIDE DEF TypeInv, TypeOK, Goto, Procs, Aside
    <2>2. sent' = sent
      BY <1>b, <2>1 DEF Aside
    <2> QED BY <1>5, <2>1, <2>2, FailFaithful
  <1>6. ASSUME NEW c \in Conns, FailEnd(c) PROVE Faithful'
    <2>1. Aside /\ UNCHANGED <<events, got>>
      BY <1>6 DEF FailEnd, AllFailed, Delivering
    <2> QED BY <1>0, <2>1
  <1>7. ASSUME NEW c \in Conns, ReadError(c) PROVE Faithful'
    <2>1. Aside /\ UNCHANGED <<events, got>>
      BY <1>7 DEF ReadError, Delivering
    <2> QED BY <1>0, <2>1
  <1>8. ASSUME NEW c \in Conns, Dispatch(c) PROVE Faithful'
    <2> HIDE DEF TypeInv, TypeOK, Goto, Procs, Aside
    <2> QED BY <1>8, DispatchFaithful
  <1>9. ASSUME NEW c \in Conns, DeliverLock(c) PROVE Faithful'
    <2>1. Aside /\ UNCHANGED <<events, got>>
      BY <1>9 DEF DeliverLock, Delivering
    <2> QED BY <1>0, <2>1
  <1>10. ASSUME NEW c \in Conns, Deliver(c) PROVE Faithful'
    <2>1. \A d \in Conns : pc[d] = "lookup" => pc'[d] = "lookup"
      BY <1>10 DEF Deliver, HasRoom, RemovesWaiter
    <2> HIDE DEF TypeInv, TypeOK, Goto, Procs, Aside
    <2>2. sent' = sent
      BY <1>b, <2>1
    <2> QED BY <1>10, <2>2, DeliverFaithful
  <1>11. ASSUME NEW p \in Procs, RemoveWaiter(p) PROVE Faithful'
    <2>1. Aside /\ UNCHANGED <<events, got>>
      BY <1>11 DEF RemoveWaiter, RemovalKey, AfterRemoval, Delivering
    <2> QED BY <1>0, <2>1
  <1>12. ASSUME NEW p \in Procs, Cancel(p) PROVE Faithful'
    <2>1. Aside /\ UNCHANGED <<events, got>>
      BY <1>12 DEF Cancel, AfterRemoval, Delivering
    <2> QED BY <1>0, <2>1
  <1>13. ASSUME NEW ch \in Chats, SendTask(ch) PROVE Faithful'
    <2>1. \A d \in Conns : pc[d] = "lookup" => pc'[d] = "lookup"
      BY <1>13 DEF SendTask
    <2> HIDE DEF TypeInv, TypeOK, Goto, Procs, Aside
    <2>2. sent' = sent
      BY <1>b, <2>1
    <2> QED BY <1>13, <2>2, SendFaithful
  <1>14. ASSUME NEW ch \in Chats, WriteTask(ch) PROVE Faithful'
    <2>1. Aside /\ UNCHANGED <<events, got>>
      BY <1>14 DEF WriteTask, Delivering
    <2> QED BY <1>0, <2>1
  <1>15. ASSUME NEW ch \in Chats, Forward(ch) PROVE Faithful'
    <2>1. Aside
      BY <1>15 DEF Forward, EndsChat, Delivering
    <2> HIDE DEF TypeInv, TypeOK, Goto, Procs, Aside
    <2>2. sent' = sent
      BY <1>b, <2>1 DEF Aside
    <2> QED BY <1>15, <2>1, <2>2, ForwardFaithful
  <1>16. ASSUME NEW c \in Conns, NEW m \in MsgIDs, FailNext(c, m) PROVE Faithful'
    <2>1. Aside /\ UNCHANGED <<events, got>>
      BY <1>16 DEF FailNext, Delivering
    <2> QED BY <1>0, <2>1
  <1>17. ASSUME NEW c \in Conns, NEW agent \in Agents, NEW m \in MsgIDs,
                NEW terminal \in BOOLEAN, Read(c, agent, m, terminal)
         PROVE  Faithful'
    <2>1. Aside /\ UNCHANGED <<events, got>>
      BY <1>17 DEF Read, Delivering
    <2> QED BY <1>0, <2>1
  <1> HIDE DEF TypeInv, TypeOK, Goto, Procs, Aside
  <1> QED
    BY <1>1, <1>2, <1>3, <1>4, <1>5, <1>6, <1>7, <1>8, <1>9, <1>10, <1>11,
        <1>12, <1>13, <1>14, <1>15, <1>16, <1>17, <1>c
       DEF Next, ConnStep, RuntimeStep, ChatStep, Procs

\* Initially nothing has been sent, and no handler has begun.
LEMMA InitStreamInv == StreamInit => StreamInv
  <1> SUFFICES ASSUME StreamInit PROVE StreamInv
    OBVIOUS
  <1>1. SentType /\ Untouched
    BY DEF StreamInit, Init, SentType, Untouched
  <1>2. Listening = {} /\ InMap = {}
    BY DEF StreamInit, Init, Listening, InMap, Key, Keys, Procs
  <1>3. OutOfMap /\ FailedAreLost
    BY <1>2 DEF StreamInit, Init, OutOfMap, FailedAreLost, Failing, Procs
  <1>4. Faithful
    BY <1>2 DEF Faithful
  <1> QED BY <1>1, <1>3, <1>4 DEF StreamInv

\* A step that leaves all variables alone leaves the invariant alone.
LEMMA StutterStreamInv ==
  ASSUME StreamInv, UNCHANGED streamVars
  PROVE  StreamInv'
  <1>1. Listening' = Listening /\ InMap' = InMap /\ InDelivery' = InDelivery
    BY DEF streamVars, vars, Listening, InMap, InDelivery, Key
  <1>2. Gone' = Gone /\ Settled' = Settled
    BY DEF streamVars, vars, Gone, Settled
  <1>3. SentType' /\ Untouched'
    BY DEF streamVars, vars, StreamInv, SentType, Untouched
  <1>4. OutOfMap' /\ FailedAreLost'
    BY <1>1, <1>2 DEF streamVars, vars, StreamInv, OutOfMap, FailedAreLost
  <1>5. \A x \in Chats : /\ ChannelInOrder(x) => ChannelInOrder(x)'
                         /\ UpToDate(x) => UpToDate(x)'
    BY <1>1, <1>2 DEF streamVars, vars, ChannelInOrder, UpToDate, Expected,
                      RegistryError
  <1>6. Faithful'
    BY <1>1, <1>5 DEF StreamInv, Faithful, Listening
  <1> QED BY <1>3, <1>4, <1>6 DEF StreamInv

GatewayInv == TypeInv /\ RoutingInv /\ SettledInv /\ Tracked /\ StreamInv

\* Every action keeps the streams in order.
LEMMA NextStreamInv ==
  ASSUME GatewayInv, [StreamNext]_streamVars
  PROVE  GatewayInv'
  <1>1. [Next]_vars
    BY DEF StreamNext, streamVars
  <1>2. TypeInv' /\ RoutingInv' /\ SettledInv' /\ Tracked'
    BY <1>1, NextTypeInv, NextRoutingInv, NextSettledInv DEF GatewayInv
  <1>3. CASE UNCHANGED streamVars
    BY <1>2, <1>3, StutterStreamInv DEF GatewayInv
  <1>4. CASE StreamNext
    <2>1. TypeInv /\ RoutingInv /\ SettledInv /\ StreamInv
      BY DEF GatewayInv
    <2>2. Gone \subseteq Gone'
      BY <1>1, <2>1, GoneStays
    <2>3. \A x \in Chats : Keep(x)
      BY <1>1, <2>1, NextKeep, NextUnshared DEF RoutingInv
    <2>4. SentType'
      BY <1>4, <2>1, NextSentType DEF SettledInv, StreamInv
    <2>5. Untouched'
      BY <1>4, <2>1, <2>3, NextUntouched DEF SettledInv, StreamInv
    <2>6. OutOfMap'
      BY <1>1, <2>1, NextOutOfMap DEF RoutingInv, SettledInv, StreamInv
    <2>7. FailedAreLost'
      BY <1>1, <2>1, <2>2, NextFailedAreLost DEF StreamInv
    <2>8. Faithful'
      BY <1>4, <2>1, <2>2, NextFaithful
    <2> QED BY <1>2, <2>4, <2>5, <2>6, <2>7, <2>8 DEF GatewayInv, StreamInv
  <1> QED BY <1>3, <1>4

\* A step of the gateway is a step of the streams or none.
Refines == Stream!Next \/ UNCHANGED Stream!svars

LEMMA StepRefines ==
  ASSUME GatewayInv, TypeInv, StreamNext
  PROVE  Refines
  <1> DEFINE Private ==
               /\ \A d \in Conns : pc[d] = "lookup" => pc'[d] = "lookup"
               /\ \A d \in Conns : pc'[d] \in {"hello", "register"} <=>
                                   pc[d] \in {"hello", "register"}
               /\ \A x \in Chats : pc'[x] \in {"send", "write", "range"} <=>
                                   pc[x] \in {"send", "write", "range"}
               /\ UNCHANGED <<target, got, runtimes>>
  <1>n. \A d \in Conns, x \in Chats : d # x
    OBVIOUS
  <1>o. ASSUME \A x \in Chats : pc'[x] = pc[x] PROVE Over' = Over
    BY <1>o DEF Over
  <1>g. ASSUME \A d \in Conns : pc'[d] = pc[d], runtimes' = runtimes
        PROVE  Gone' = Gone
    BY <1>g DEF Gone
  <1>b. ASSUME \A d \in Conns : pc[d] = "lookup" => pc'[d] = "lookup"
        PROVE  sent' = sent
    BY <1>b, SentStays DEF GatewayInv, SettledInv, StreamInv
  <1>a. ASSUME \A d \in Conns : pc[d] = "lookup" => pc'[d] = "lookup",
               UNCHANGED <<target, got>>, Over' = Over, Gone' = Gone
        PROVE  Refines
    BY <1>a, <1>b DEF Refines, Stream!svars
  <1>0. ASSUME Private PROVE Refines
    <2>1. Over' = Over /\ Gone' = Gone
      BY <1>0 DEF Over, Gone
    <2> QED BY <1>0, <1>a, <2>1
  <1>d. ASSUME \A d \in Conns : pc[d] = "lookup" => pc'[d] = "lookup",
               UNCHANGED <<target, got>>, Over' = Over,
               NEW c \in Conns, Gone' = Gone \cup {c}
        PROVE  Refines
    BY <1>b, <1>d DEF Refines, Stream!Next, Stream!Lose
  <1>e. ASSUME NEW ch \in Chats, ch \notin Over, Over' = Over \cup {ch},
               UNCHANGED <<target, sent, got>>, Gone' = Gone
        PROVE  Refines
    BY <1>e DEF Refines, Stream!Next, Stream!Leave
  <1>c. Next
    BY DEF StreamNext
  <1> USE DEF TypeInv, TypeOK, Goto, Procs
  <1>1. ASSUME NEW c \in Conns, Hello(c) PROVE Refines
    <2>1. \A d \in Conns : pc[d] = "lookup" => pc'[d] = "lookup"
      BY <1>1 DEF Hello
    <2>2. UNCHANGED <<target, got, runtimes>> /\ \A x \in Chats : pc'[x] = pc[x]
      BY <1>1 DEF Hello
    <2>3. Over' = Over
      BY <1>o, <2>2
    <2>4. \A d \in Conns : d # c => pc'[d] = pc[d]
      BY <1>1 DEF Hello
    <2>5. pc[c] = "hello" /\ pc'[c] \in {"register", "closed"}
      BY <1>1 DEF Hello
    <2> HIDE DEF TypeInv, TypeOK, Goto, Procs
    <2>6. Gone' = Gone \/ Gone' = Gone \cup {c}
      BY <2>2, <2>4, <2>5 DEF Gone
    <2> QED BY <1>a, <1>d, <2>1, <2>2, <2>3, <2>6
  <1>2. ASSUME NEW c \in Conns, Register(c) PROVE Refines
    <2> DEFINE previous == runtimes[ConnAgent[c]]
    <2>1. \A d \in Conns : pc[d] = "lookup" => pc'[d] = "lookup"
      BY <1>2 DEF Register
    <2>2. UNCHANGED <<target, got>> /\ \A x \in Chats : pc'[x] = pc[x]
      BY <1>2 DEF Register
    <2>3. Over' = Over
      BY <1>o, <2>2
    <2>4. /\ pc[c] = "register" /\ runtimes' = [runtimes EXCEPT ![ConnAgent[c]] = c]
          /\ pc'[c] \in {"read", "failing"}
          /\ \A d \in Conns : d # c => pc'[d] = pc[d]
      BY <1>2 DEF Register
    <2>5. \A d \in Conns : ConnAgent[d] = ConnAgent[c] =>
                             runtimes'[ConnAgent[d]] = c
      BY <2>4
    <2>6. \A d \in Conns : ConnAgent[d] # ConnAgent[c] =>
                             runtimes'[ConnAgent[d]] = runtimes[ConnAgent[d]]
      BY <2>4
    <2>7. previous # None =>
            previous \in Conns /\ ConnAgent[previous] = ConnAgent[c]
            /\ pc[previous] \notin {"hello", "register"}
      BY DEF GatewayInv, RoutingInv, Registered
    <2>8. c \notin Gone /\ c \notin Gone'
      BY <2>4, <2>5 DEF Gone
    <2> HIDE DEF TypeInv, TypeOK, Goto, Procs
    <2>9. ASSUME NEW d \in Conns, d # c
          PROVE  d \in Gone' <=> d \in Gone \/ d = previous
      <3>1. pc'[d] = pc[d]
        BY <2>4, <2>9
      <3>2. CASE ConnAgent[d] # ConnAgent[c]
        <4>1. d # previous
          BY <2>7, <2>9, <3>2, ConstantsAssumption
        <4> QED BY <2>6, <3>1, <3>2, <4>1 DEF Gone
      <3>3. CASE ConnAgent[d] = ConnAgent[c]
        <4>1. d = previous => pc[d] \notin {"hello", "register"}
          BY <2>7, ConstantsAssumption
        <4> QED BY <2>5, <2>9, <3>1, <3>3, <4>1 DEF Gone
      <3> QED BY <3>2, <3>3
    <2>10. CASE previous \in Conns
      <3>1. previous # c
        BY <2>4, <2>7, <2>10, ConstantsAssumption
      <3>2. Gone' = Gone \cup {previous}
        <4> HIDE DEF previous
        <4> QED BY <2>8, <2>9, <2>10, <3>1 DEF Gone
      <3>. PICK b \in Conns : b = previous
        BY <2>10
      <3>3. Gone' = Gone \cup {b}
        BY <3>2
      <3> QED BY <1>d, <2>1, <2>2, <2>3, <3>3
    <2>11. CASE previous \notin Conns
      <3>1. Gone' = Gone
        BY <2>8, <2>9, <2>11 DEF Gone
      <3> QED BY <1>a, <2>1, <2>2, <2>3, <3>1
    <2> QED BY <2>10, <2>11
  <1>3. ASSUME NEW c \in Conns, Unregister(c) PROVE Refines
    <2>1. \A d \in Conns : pc[d] = "lookup" => pc'[d] = "lookup"
      BY <1>3 DEF Unregister
    <2>2. UNCHANGED <<target, got>> /\ \A x \in Chats : pc'[x] = pc[x]
      BY <1>3 DEF Unregister
    <2>3. Over' = Over
      BY <1>o, <2>2
    <2>4. /\ pc[c] = "unregister" /\ pc'[c] \in {"closed", "failing"}
          /\ \A d \in Conns : d # c => pc'[d] = pc[d]
      BY <1>3 DEF Unregister
    <2>5. CASE IsCurrent(c)
      <3>1. runtimes' = [runtimes EXCEPT ![ConnAgent[c]] = None]
        BY <1>3, <2>5 DEF Unregister
      <3>2. \A d \in Conns : d # c => (runtimes'[ConnAgent[d]] = d
                                        <=> runtimes[ConnAgent[d]] = d)
        BY <2>5, <3>1 DEF IsCurrent
      <3>3. runtimes'[ConnAgent[c]] # c
        BY <3>1
      <3> HIDE DEF TypeInv, TypeOK, Goto, Procs
      <3>4. Gone' = Gone \cup {c}
        BY <2>4, <3>2, <3>3 DEF Gone
      <3> QED BY <1>d, <2>1, <2>2, <2>3, <3>4
    <2>6. CASE ~IsCurrent(c)
      <3>1. runtimes' = runtimes
        BY <1>3, <2>6 DEF Unregister
      <3> HIDE DEF TypeInv, TypeOK, Goto, Procs
      <3>2. Gone' = Gone
        BY <2>4, <3>1 DEF Gone
      <3> QED BY <1>a, <2>1, <2>2, <2>3, <3>2
    <2> QED BY <2>5, <2>6
  <1>4. ASSUME NEW c \in Conns, FailLock(c) PROVE Refines
    <2>1. Private
      BY <1>4 DEF FailLock
    <2> QED BY <1>0, <2>1
  <1>5. ASSUME NEW c \in Conns, Fail(c) PROVE Refines
    <2>1. Private
      BY <1>5 DEF Fail, HasRoom
    <2> QED BY <1>0, <2>1
  <1>6. ASSUME NEW c \in Conns, FailEnd(c) PROVE Refines
    <2>1. Private
      BY <1>6 DEF FailEnd, AllFailed
    <2> QED BY <1>0, <2>1
  <1>7. ASSUME NEW c \in Conns, ReadError(c) PROVE Refines
    <2>1. Private
      BY <1>7 DEF ReadError
    <2> QED BY <1>0, <2>1
  <1>8. ASSUME NEW c \in Conns, Dispatch(c) PROVE Refines
    <2>1. /\ pc[c] = "lookup" /\ pc'[c] # "lookup"
          /\ pc'[c] \notin {"hello", "register"}
          /\ UNCHANGED <<target, got, runtimes>>
          /\ \A p \in Procs : p # c => pc'[p] = pc[p]
      BY <1>8 DEF Dispatch
    <2>2. Over' = Over /\ Gone' = Gone
      <3> HIDE DEF TypeInv, TypeOK, Goto
      <3>1. \A x \in Chats : pc'[x] = pc[x]
        BY <1>n, <2>1
      <3>2. Over' = Over
        BY <1>o, <3>1
      <3>3. \A d \in Conns : d # c => pc'[d] = pc[d]
        BY <2>1
      <3> HIDE DEF TypeInv, TypeOK, Goto, Procs
      <3>4. Gone' = Gone
        BY <2>1, <3>3 DEF Gone
      <3> QED BY <3>2, <3>4
    <2>3. evt[c] \in Event /\ evt[c].from = c
      BY <2>1 DEF InHand
    <2>4. ASSUME NEW x \in Chats
          PROVE  Heard(x) <=> x \notin Over /\ target[x] = c
                              /\ ChatMsg[x] = evt[c].msg
      <3>1. x \in Listening => target[x] \in Conns
        BY DEF Listening, GatewayInv, SettledInv, SentTarget
      <3>2. pc[x] = "send" => target[x] = None
        BY DEF GatewayInv, RoutingInv, Unsent
      <3>3. x \notin Over <=> x \in Listening \/ pc[x] = "send"
        BY DEF Over, Listening
      <3>4. x \in Listening /\ target[x] # c => pc'[target[x]] = pc[target[x]]
        BY <2>1, <3>1
      <3>5. c # None
        OBVIOUS
      <3> HIDE DEF TypeInv, TypeOK, Goto, Procs
      <3> QED BY <2>1, <3>2, <3>3, <3>4, <3>5 DEF Heard
    <2> HIDE DEF TypeInv, TypeOK, Goto, Procs
    <2>5. sent' = [x \in Chats |->
                     IF x \notin Over /\ target[x] = c /\ ChatMsg[x] = evt[c].msg
                       THEN Append(sent[x], evt[c]) ELSE sent[x]]
      BY <2>4 DEF StreamNext
    <2>6. Stream!Say(c, evt[c])
      BY <2>1, <2>2, <2>3, <2>5 DEF Stream!Say
    <2> QED BY <2>3, <2>6 DEF Stream!Next, Refines
  <1>9. ASSUME NEW c \in Conns, DeliverLock(c) PROVE Refines
    <2>1. Private
      BY <1>9 DEF DeliverLock
    <2> QED BY <1>0, <2>1
  <1>10. ASSUME NEW c \in Conns, Deliver(c) PROVE Refines
    <2>1. Private
      BY <1>10 DEF Deliver, HasRoom, RemovesWaiter
    <2> QED BY <1>0, <2>1
  <1>11. ASSUME NEW p \in Procs, RemoveWaiter(p) PROVE Refines
    <2>1. Private
      BY <1>11 DEF RemoveWaiter, RemovalKey, AfterRemoval
    <2> QED BY <1>0, <2>1
  <1>12. ASSUME NEW p \in Procs, Cancel(p) PROVE Refines
    <2>1. Private
      BY <1>12 DEF Cancel, AfterRemoval
    <2> QED BY <1>0, <2>1
  <1>13. ASSUME NEW ch \in Chats, SendTask(ch) PROVE Refines
    <2>1. \A d \in Conns : pc[d] = "lookup" => pc'[d] = "lookup"
      BY <1>13 DEF SendTask
    <2>2. /\ pc[ch] = "send" /\ UNCHANGED <<got, runtimes>>
          /\ \A p \in Procs : p # ch => pc'[p] = pc[p]
      BY <1>13 DEF SendTask
    <2>3. Gone' = Gone
      <3> HIDE DEF TypeInv, TypeOK, Goto
      <3>1. \A d \in Conns : pc'[d] = pc[d]
        BY <1>n, <2>2
      <3> QED BY <1>g, <2>2, <3>1
    <2>4. ch \notin Over /\ target[ch] = None
      BY <2>2 DEF Over, GatewayInv, RoutingInv, Unsent
    <2>5. sent' = sent
      BY <1>b, <2>1
    <2>6. CASE runtimes[ChatAgent[ch]] = None
      <3>1. pc'[ch] = "end" /\ target' = target
        BY <1>13, <2>6 DEF SendTask
      <3>2. Over' = Over \cup {ch}
        BY <2>2, <3>1 DEF Over
      <3> HIDE DEF TypeInv, TypeOK, Goto, Procs
      <3> QED BY <1>e, <2>2, <2>3, <2>4, <2>5, <3>1, <3>2
    <2>7. CASE runtimes[ChatAgent[ch]] # None
      <3>. PICK c \in Conns : c = runtimes[ChatAgent[ch]]
        BY <2>7
      <3>1. pc'[ch] = "write" /\ target' = [target EXCEPT ![ch] = c]
        BY <1>13, <2>7 DEF SendTask
      <3>2. Over' = Over
        BY <2>2, <3>1 DEF Over
      <3>3. c \notin Gone
        BY <2>7 DEF Gone, GatewayInv, RoutingInv, Registered
      <3> HIDE DEF TypeInv, TypeOK, Goto, Procs
      <3>4. Stream!Open(ch, c)
        BY <2>2, <2>3, <2>4, <2>5, <3>1, <3>2, <3>3 DEF Stream!Open
      <3> QED BY <3>4 DEF Stream!Next, Refines
    <2> QED BY <2>6, <2>7
  <1>14. ASSUME NEW ch \in Chats, WriteTask(ch) PROVE Refines
    <2>1. \A d \in Conns : pc[d] = "lookup" => pc'[d] = "lookup"
      BY <1>14 DEF WriteTask
    <2>2. /\ pc[ch] = "write" /\ UNCHANGED <<got, runtimes, target>>
          /\ pc'[ch] \in {"range", "remove"}
          /\ \A p \in Procs : p # ch => pc'[p] = pc[p]
      BY <1>14 DEF WriteTask
    <2>3. Gone' = Gone
      <3> HIDE DEF TypeInv, TypeOK, Goto
      <3>1. \A d \in Conns : pc'[d] = pc[d]
        BY <1>n, <2>2
      <3> QED BY <1>g, <2>2, <3>1
    <2>4. ch \notin Over /\ (Over' = Over \/ Over' = Over \cup {ch})
      <3>1. \A x \in Chats : x # ch => pc'[x] = pc[x]
        BY <2>2
      <3> HIDE DEF TypeInv, TypeOK, Goto, Procs
      <3>2. CASE pc'[ch] = "range"
        BY <2>2, <3>1, <3>2 DEF Over
      <3>3. CASE pc'[ch] = "remove"
        <4>1. Over' = Over \cup {ch}
          BY <2>2, <3>1, <3>3 DEF Over
        <4> QED BY <2>2, <4>1 DEF Over
      <3> QED BY <2>2, <3>2, <3>3
    <2> HIDE DEF TypeInv, TypeOK, Goto, Procs
    <2> QED BY <1>a, <1>b, <1>e, <2>1, <2>2, <2>3, <2>4
  <1>15. ASSUME NEW ch \in Chats, Forward(ch) PROVE Refines
    <2>1. \A d \in Conns : pc[d] = "lookup" => pc'[d] = "lookup"
      BY <1>15 DEF Forward
    <2> DEFINE e == Head(events[ch])
    <2>2. /\ pc[ch] = "range" /\ events[ch] # <<>> /\ UNCHANGED <<runtimes, target>>
          /\ \A p \in Procs : p # ch => pc'[p] = pc[p]
      BY <1>15 DEF Forward
    <2>3. Gone' = Gone
      <3> HIDE DEF TypeInv, TypeOK, Goto
      <3>1. \A d \in Conns : pc'[d] = pc[d]
        BY <1>n, <2>2
      <3> QED BY <1>g, <2>2, <3>1
    <2>4. ch \notin Over /\ ch \in Listening
      BY <2>2 DEF Over, Listening
    <2>5. sent' = sent
      BY <1>b, <2>1
    <2>6. \A x \in Chats : x # ch => pc'[x] = pc[x]
      BY <2>2
    <2>7. CASE pc'[ch] = "remove" /\ UNCHANGED got
      <3>1. Over' = Over \cup {ch}
        BY <2>2, <2>6, <2>7 DEF Over
      <3> HIDE DEF TypeInv, TypeOK, Goto, Procs
      <3> QED BY <1>e, <2>2, <2>3, <2>4, <2>5, <2>7, <3>1
    <2>8. CASE /\ got' = [got EXCEPT ![ch] = Append(@, e)]
               /\ pc'[ch] = IF e.terminal THEN "remove" ELSE "range"
      <3>1. Over' = IF e.terminal THEN Over \cup {ch} ELSE Over
        <4> HIDE DEF e
        <4> QED BY <2>2, <2>6, <2>8 DEF Over
      <3>2. events[ch] \in Seq(Event) /\ e = events[ch][1] /\ 1 \in DOMAIN events[ch]
        BY <2>2
      <3>3. Expected(ch, 1)
        <4>1. \A j \in 1..(1 - 1) : ~events[ch][j].terminal
          OBVIOUS
        <4> QED BY <2>4, <3>2, <4>1 DEF GatewayInv, StreamInv, Faithful,
                                        ChannelInOrder
      <3> HIDE DEF TypeInv, TypeOK, Goto, Procs, e
      <3>4. Stream!Show(ch, e)
        BY <2>2, <2>3, <2>4, <2>5, <2>8, <3>1 DEF Stream!Show
      <3>5. CASE e = RegistryError(ch) /\ target[ch] \in Gone
        <4>1. Stream!Break(ch)
          BY <3>4, <3>5 DEF Stream!Break, RegistryError
        <4> QED BY <4>1 DEF Stream!Next, Refines
      <3>6. CASE /\ Len(got[ch]) + 1 <= Len(sent[ch])
                 /\ e = sent[ch][Len(got[ch]) + 1]
        <4>1. Len(got[ch]) \in Nat /\ Len(sent[ch]) \in Nat
          BY DEF GatewayInv, StreamInv, SentType, TypeInv, TypeOK
        <4>2. \A a, b \in Nat : a + 1 <= b => a < b
          OBVIOUS
        <4>3. Len(got[ch]) < Len(sent[ch])
          BY <3>6, <4>1, <4>2, Zenon
        <4>4. Stream!See(ch)
          BY <3>4, <3>6, <4>3 DEF Stream!See
        <4> QED BY <4>4 DEF Stream!Next, Refines
      <3> QED BY <3>2, <3>3, <3>5, <3>6 DEF Expected
    <2>9. \/ pc'[ch] = "remove" /\ UNCHANGED got
          \/ /\ got' = [got EXCEPT ![ch] = Append(@, e)]
             /\ pc'[ch] = IF e.terminal THEN "remove" ELSE "range"
      BY <1>15 DEF Forward, EndsChat
    <2> QED BY <2>7, <2>8, <2>9
  <1>16. ASSUME NEW c \in Conns, NEW m \in MsgIDs, FailNext(c, m) PROVE Refines
    <2>1. Private
      BY <1>16 DEF FailNext
    <2> QED BY <1>0, <2>1
  <1>17. ASSUME NEW c \in Conns, NEW agent \in Agents, NEW m \in MsgIDs,
                NEW terminal \in BOOLEAN, Read(c, agent, m, terminal)
         PROVE  Refines
    <2>1. Private
      BY <1>17 DEF Read
    <2> QED BY <1>0, <2>1
  <1> HIDE DEF TypeInv, TypeOK, Goto, Procs, Private
  <1> QED
    BY <1>1, <1>2, <1>3, <1>4, <1>5, <1>6, <1>7, <1>8, <1>9, <1>10, <1>11,
        <1>12, <1>13, <1>14, <1>15, <1>16, <1>17, <1>c
       DEF Next, ConnStep, RuntimeStep, ChatStep, Procs

\* The gateway implements the streams: a browser is shown its connection's
\* events in order, without a gap or a repetition, and the registry's error only
\* after that connection is gone.
THEOREM GatewayImplementsStream == StreamSpec => StreamsInOrder
  <1>1. StreamInit => GatewayInv
    BY InitTypeInv, InitRoutingInv, InitSettledInv, InitStreamInv
       DEF StreamInit, GatewayInv
  <1>2. GatewayInv /\ [StreamNext]_streamVars => GatewayInv'
    BY NextStreamInv
  <1>3. StreamInit => Stream!Init
    <2> SUFFICES ASSUME StreamInit PROVE Stream!Init
      OBVIOUS
    <2>1. Over = {} /\ Gone = {}
      BY DEF StreamInit, Init, Over, Gone, Procs
    <2> QED BY <2>1 DEF StreamInit, Init, Stream!Init
  <1>4. GatewayInv /\ [StreamNext]_streamVars => [Stream!Next]_(Stream!svars)
    <2>1. ASSUME UNCHANGED streamVars PROVE UNCHANGED Stream!svars
      <3>1. Over' = Over /\ Gone' = Gone
        BY <2>1 DEF streamVars, vars, Over, Gone
      <3> QED BY <2>1, <3>1 DEF streamVars, vars, Stream!svars
    <2>2. GatewayInv => TypeInv
      BY DEF GatewayInv
    <2> QED BY <2>1, <2>2, StepRefines DEF Refines
  <1> QED
    BY <1>1, <1>2, <1>3, <1>4, PTL DEF StreamSpec, StreamsInOrder, Stream!Spec
=============================================================================
