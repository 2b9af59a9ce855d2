------------------------ MODULE PluginRegistryProofs ------------------------
(***************************************************************************)
(* Proofs about PluginRegistry for any manifests, resources, rows and      *)
(* files and any number of changes.  What the sources hold plays no part   *)
(* in ViewFollowsSources: only when a registry swaps its list, signals,    *)
(* and is read.  OnlyValidIsServed is about what they hold and where it is *)
(* checked, and comes with the types.                                      *)
(***************************************************************************)
EXTENDS PluginRegistry, FiniteSetTheorems, SequenceTheorems, WellFoundedInduction, TLAPS

USE PluginAssumption DEF Actors, Sources

\* No rebuild has swapped in the middle of another one and no signal was
\* sent between Run's rebuild and its Subscribe.
Unlost == lost \cap {"window", "overtaken"} = {}

\* The shape of the state that is about signals and rebuilds.
Shape ==
  /\ boot \in {"scan", "watch", "poll", "inform", "rebuild", "subscribe", "done"}
  /\ chan \in [Sources -> {"none", "empty", "full"}]
  /\ reading \in [Actors -> 0 .. 4]
  /\ resolved = [s \in Sources |-> resolved[s]]
  /\ seen = [a \in Actors |-> [s \in Sources |-> seen[a][s]]]

\* How far NewServer is decides who may rebuild and which channels exist.
BootInv ==
  /\ reading["run"] # 0 <=> boot = "rebuild"
  /\ \A s \in Sources : chan[s] # "none" => boot \in {"subscribe", "done"}
  /\ \A s \in Sources : reading[s] # 0 => chan[s] # "none"
  /\ boot = "done" => \A s \in Sources : chan[s] # "none"

Signal(s) == s \in toSend \/ chan[s] = "full"

\* What a rebuild has read is still so, will be signalled, or there are two
\* rebuilds under way, of which the first to swap counts as overtaken.
ReadInv ==
  Unlost =>
    \A a \in Actors : \A s \in Sources :
      reading[a] > Pos(s) =>
        \/ seen[a][s] = resolved[s] \/ Signal(s)
        \/ \E b \in Actors \ {a} : reading[b] # 0

Inv == Shape /\ BootInv /\ ReadInv /\ ViewFollowsSources
-----------------------------------------------------------------------------
(* Positions *)

\* Pos and Order are inverse to each other, and Last comes after every source.
LEMMA Positions ==
  /\ \A s \in Sources : Pos(s) \in 1 .. 3 /\ Order[Pos(s)] = s
  /\ \A i \in 1 .. 3 : Order[i] \in Sources /\ Pos(Order[i]) = i
<1>1. Pos("crd") = 1 /\ Pos("db") = 2 /\ Pos("file") = 3
  BY DEF Pos
<1>2. Order[1] = "crd" /\ Order[2] = "db" /\ Order[3] = "file"
  BY DEF Order
<1>3. \A i \in 1 .. 3 : i = 1 \/ i = 2 \/ i = 3
  OBVIOUS
<1> QED
  BY <1>1, <1>2, <1>3

\* The merge depends on the lists of the sources only.
LEMMA SameLists ==
  ASSUME NEW x, NEW y, x = [s \in Sources |-> x[s]], y = [s \in Sources |-> y[s]],
         \A s \in Sources : x[s] = y[s]
  PROVE  x = y
  OBVIOUS
-----------------------------------------------------------------------------
(* Steps *)

\* Nothing has been read or signalled at the start.
LEMMA InitInv == Init => Inv
<1> SUFFICES ASSUME Init PROVE Inv
  OBVIOUS
<1>1. Shape
  BY DEF Init, Shape
<1>2. BootInv
  BY DEF Init, BootInv
<1>3. ReadInv
  BY Positions DEF Init, ReadInv
<1>4. ViewFollowsSources
  BY DEF Init, ViewFollowsSources, RebuildPending
<1> QED
  BY <1>1, <1>2, <1>3, <1>4 DEF Inv

\* A step that is about neither lists nor signals.
LEMMA QuietInv ==
  ASSUME Inv, UNCHANGED <<boot, resolved, toSend, chan, reading, seen, merged>>,
         Unlost' => Unlost
  PROVE  Inv'
<1>1. Unlost' => Unlost
  OBVIOUS
<1>2. Shape' /\ BootInv'
  BY DEF Inv, Shape, BootInv
<1>3. ReadInv'
  BY <1>1 DEF Inv, ReadInv, Signal
<1>4. ViewFollowsSources'
  BY <1>1 DEF Inv, ViewFollowsSources, RebuildPending, Unlost
<1> QED
  BY <1>2, <1>3, <1>4 DEF Inv

\* A registry swaps its list and will signal it.
LEMMA ResolveInv ==
  ASSUME Inv, NEW s \in Sources, UNCHANGED <<boot, chan, reading, seen, merged>>,
         resolved' = [t \in Sources |-> resolved'[t]],
         \A t \in Sources \ {s} : resolved'[t] = resolved[t],
         toSend' = toSend \cup {s}, Unlost' => Unlost
  PROVE  Inv'
<1>1. Unlost' => Unlost
  OBVIOUS
<1>2. Shape' /\ BootInv'
  BY DEF Inv, Shape, BootInv
<1>3. ReadInv'
  BY <1>1 DEF Inv, ReadInv, Signal
<1>4. ViewFollowsSources'
  BY DEF ViewFollowsSources, RebuildPending
<1> QED
  BY <1>2, <1>3, <1>4 DEF Inv

\* NewServer works on the registries before anything has been read of them.
LEMMA EarlyBootInv ==
  ASSUME Inv, boot \in {"scan", "watch", "poll", "inform"},
         boot' \in {"watch", "poll", "inform", "rebuild"},
         resolved' = [t \in Sources |-> resolved'[t]],
         reading' = IF boot' = "rebuild" THEN [reading EXCEPT !["run"] = 1] ELSE reading,
         UNCHANGED <<chan, seen, merged, toSend>>
  PROVE  Inv'
<1>1. Shape'
  BY DEF Inv, Shape
<1>2. BootInv'
  BY DEF Inv, BootInv, Shape
<1>3. ReadInv'
  <2>1. \A a \in Actors : reading[a] = 0
    BY DEF Inv, BootInv
  <2>2. \A a \in Actors : reading'[a] \in {0, 1}
    BY <2>1 DEF Inv, Shape
  <2> QED
    BY <2>2, Positions DEF ReadInv
<1>4. ViewFollowsSources'
  BY DEF ViewFollowsSources, RebuildPending
<1> QED
  BY <1>1, <1>2, <1>3, <1>4 DEF Inv

\* Run gets its channels.
LEMMA SubscribeInv ==
  ASSUME Inv, BootSubscribe
  PROVE  Inv'
<1>0. PICK s \in Sources :
        /\ chan[s] = "none" /\ \A t \in Sources : Pos(t) < Pos(s) => chan[t] # "none"
        /\ chan' = [chan EXCEPT ![s] = "empty"]
        /\ boot' = IF s = "file" THEN "done" ELSE boot
  BY DEF BootSubscribe
<1>u. boot = "subscribe" /\ UNCHANGED <<resolved, toSend, reading, seen, merged, lost>>
  BY DEF BootSubscribe, registries, view
<1>1. /\ chan \in [Sources -> {"none", "empty", "full"}] /\ chan'[s] = "empty"
      /\ \A t \in Sources \ {s} : chan'[t] = chan[t]
  BY <1>0 DEF Inv, Shape
<1>2. Shape'
  BY <1>0, <1>u DEF Inv, Shape
<1>3. BootInv'
  <2>1. s = "file" => \A t \in Sources : chan'[t] # "none"
    BY <1>0, <1>1 DEF Pos
  <2> QED
    BY <1>0, <1>u, <1>1, <2>1 DEF Inv, BootInv
<1>4. \A t \in Sources : Signal(t)' <=> Signal(t)
  BY <1>0, <1>u, <1>1 DEF Signal
<1>5. ReadInv'
  BY <1>u, <1>4 DEF Inv, ReadInv, Unlost
<1>6. ViewFollowsSources'
  BY <1>0, <1>u, <1>4 DEF Inv, ViewFollowsSources, RebuildPending, Signal
<1> QED
  BY <1>2, <1>3, <1>5, <1>6 DEF Inv

\* A registry signals the change it has made.
LEMMA BroadcastInv ==
  ASSUME Inv, NEW s \in Sources, Broadcast(s)
  PROVE  Inv'
<1>u. UNCHANGED <<boot, resolved, reading, seen, merged>>
  BY DEF Broadcast, registries, view
<1>0. /\ s \in toSend /\ toSend' = toSend \ {s}
      /\ chan \in [Sources -> {"none", "empty", "full"}]
      /\ chan[s] = "none" => chan' = chan
      /\ chan[s] # "none" => chan' = [chan EXCEPT ![s] = "full"]
      /\ lost' = IF InWindow(s) THEN lost \cup {"window"} ELSE lost
  BY DEF Inv, Shape, Broadcast
<1>1. Unlost' => Unlost /\ ~ InWindow(s)
  BY <1>0 DEF Unlost
<1>2. Shape' /\ BootInv'
  BY <1>0, <1>u DEF Inv, Shape, BootInv
<1>3. \A t \in Sources : Signal(t) => Signal(t)' \/ t = s
  BY <1>0 DEF Signal
<1>4. chan[s] # "none" => Signal(s)'
  BY <1>0 DEF Signal
<1>5. ReadInv'
  <2> SUFFICES ASSUME Unlost', NEW a \in Actors, reading[a] > Pos(s), chan[s] = "none"
               PROVE  FALSE
    BY <1>1, <1>3, <1>4, <1>u DEF Inv, ReadInv
  <2>1. reading["run"] <= Pos(s) /\ boot # "subscribe"
    BY <1>1, Positions DEF InWindow, Inv, Shape
  <2>2. a \in Sources /\ reading[a] # 0
    BY <2>1, Positions DEF Inv, Shape
  <2> QED
    BY <2>1, <2>2 DEF Inv, BootInv
<1>6. ViewFollowsSources'
  <2> SUFFICES ASSUME Unlost', boot \in {"subscribe", "done"}, chan[s] = "none"
               PROVE  FALSE
    BY <1>4, <1>u DEF ViewFollowsSources, RebuildPending, Signal, Unlost, Inv, Shape
  <2> QED
    BY <1>1 DEF InWindow, Inv, BootInv
<1> QED
  BY <1>2, <1>5, <1>6 DEF Inv

\* A goroutine takes a signal: what it stood for is now its own rebuild.
LEMMA NoticeInv ==
  ASSUME Inv, NEW s \in Sources, Notice(s)
  PROVE  Inv'
<1>u. UNCHANGED <<boot, resolved, toSend, seen, merged, lost>>
  BY DEF Notice, registries
<1>0. /\ chan[s] = "full" /\ chan'[s] = "empty" /\ reading[s] = 0 /\ reading'[s] = 1
      /\ \A t \in Sources \ {s} : chan'[t] = chan[t]
      /\ \A a \in Actors \ {s} : reading'[a] = reading[a]
  BY DEF Inv, Shape, Notice, TakeSignal
<1>1. Shape'
  BY <1>u DEF Inv, Shape, Notice, TakeSignal
<1>2. BootInv'
  BY <1>0, <1>u DEF Inv, BootInv
<1>3. ReadInv'
  <2> SUFFICES ASSUME Unlost', NEW a \in Actors, NEW t \in Sources, reading'[a] > Pos(t)
               PROVE  \/ seen'[a][t] = resolved'[t] \/ Signal(t)'
                      \/ \E b \in Actors \ {a} : reading'[b] # 0
    BY DEF ReadInv
  <2>1. a # s
    BY <1>0, Positions
  <2> QED
    BY <1>0, <2>1
<1>4. ViewFollowsSources'
  BY <1>0 DEF ViewFollowsSources, RebuildPending
<1> QED
  BY <1>1, <1>2, <1>3, <1>4 DEF Inv

\* A rebuild reads its next source.
LEMMA ReadStepInv ==
  ASSUME Inv, NEW a \in Actors, Read(a)
  PROVE  Inv'
<1>u. UNCHANGED <<boot, resolved, toSend, chan, merged, lost>>
  BY DEF Read, registries
<1>0. /\ reading[a] \in 1 .. 3 /\ reading'[a] = reading[a] + 1
      /\ \A b \in Actors \ {a} : reading'[b] = reading[b] /\ seen'[b] = seen[b]
      /\ reading' \in [Actors -> 0 .. 4]
  <2>1. /\ reading[a] \in 1 .. 3 /\ reading \in [Actors -> 0 .. 4]
        /\ reading' = [reading EXCEPT ![a] = reading[a] + 1]
    BY DEF Inv, Shape, Read
  <2>2. \A b \in Actors \ {a} : seen'[b] = seen[b]
    BY DEF Inv, Shape, Read
  <2> QED
    BY <2>1, <2>2
<1> DEFINE o == Order[reading[a]]
<1>1. /\ o \in Sources /\ Pos(o) = reading[a]
      /\ seen'[a][o] = resolved[o]
      /\ \A s \in Sources \ {o} : seen'[a][s] = seen[a][s]
  <2>1. o \in Sources /\ Pos(o) = reading[a]
    BY <1>0, Positions
  <2> QED
    BY <2>1 DEF Inv, Shape, Read
<1>2. Shape'
  <2>1. seen' = [b \in Actors |-> [s \in Sources |-> seen'[b][s]]]
    BY <1>1 DEF Inv, Shape, Read
  <2> QED
    BY <1>0, <1>u, <2>1 DEF Inv, Shape
<1>3. BootInv'
  BY <1>0, <1>u DEF Inv, BootInv
<1>4. ReadInv'
  <2> SUFFICES ASSUME Unlost', NEW b \in Actors, NEW t \in Sources, reading'[b] > Pos(t)
               PROVE  \/ seen'[b][t] = resolved'[t] \/ Signal(t)'
                      \/ \E d \in Actors \ {b} : reading'[d] # 0
    BY DEF ReadInv
  <2>1. Unlost /\ (Signal(t)' <=> Signal(t))
    BY <1>u DEF Unlost, Signal
  <2>2. CASE b = a /\ t = o
    BY <1>1, <1>u, <2>2
  <2>3. CASE b # a
    BY <1>0, <2>3
  <2>4. CASE b = a /\ t # o
    <3>1. reading[a] > Pos(t)
      BY <1>0, <1>1, <2>4, Positions
    <3> QED
      BY <1>0, <1>1, <1>u, <2>1, <2>4, <3>1 DEF Inv, ReadInv
  <2> QED
    BY <2>2, <2>3, <2>4
<1>5. ViewFollowsSources'
  BY <1>0, <1>u DEF Inv, BootInv, ViewFollowsSources, RebuildPending
<1> QED
  BY <1>2, <1>3, <1>4, <1>5 DEF Inv

\* A rebuild swaps in what it has read.
LEMMA SwapInv ==
  ASSUME Inv, NEW a \in Actors, Swap(a)
  PROVE  Inv'
<1>u. UNCHANGED <<resolved, toSend, chan>>
  BY DEF Swap, registries
<1>0. /\ reading[a] = 4 /\ reading'[a] = 0
      /\ \A b \in Actors \ {a} : reading'[b] = reading[b]
      /\ reading' \in [Actors -> 0 .. 4]
      /\ merged' = Merge(seen[a])
      /\ boot' = IF a = "run" THEN "subscribe" ELSE boot
      /\ lost' = IF \E b \in Actors \ {a} : reading[b] # 0
                 THEN lost \cup {"overtaken"} ELSE lost
  BY DEF Inv, Shape, Swap, Last
<1>1. Unlost' => Unlost /\ \A b \in Actors \ {a} : reading[b] = 0
  BY <1>0 DEF Unlost
<1>2. Shape'
  <2>1. seen' = [b \in Actors |-> [s \in Sources |-> seen'[b][s]]]
    BY DEF Inv, Shape, Swap
  <2> QED
    BY <1>0, <1>u, <2>1 DEF Inv, Shape
<1>3. BootInv'
  <2>1. CASE a = "run"
    BY <1>0, <1>u, <2>1 DEF Inv, BootInv
  <2>2. CASE a # "run"
    BY <1>0, <1>u, <2>2 DEF Inv, BootInv
  <2> QED
    BY <2>1, <2>2
<1>4. ReadInv'
  <2> SUFFICES ASSUME Unlost', NEW b \in Actors, NEW t \in Sources, reading'[b] > Pos(t)
               PROVE  FALSE
    BY DEF ReadInv
  <2>1. reading'[b] = 0
    BY <1>0, <1>1
  <2> QED
    BY <2>1, Positions
<1>5. ViewFollowsSources'
  <2> SUFFICES ASSUME Unlost', \A s \in Sources : ~ Signal(s)
               PROVE  merged' = Merge(resolved)
    BY <1>u DEF ViewFollowsSources, RebuildPending, Signal, Unlost
  <2>1. ASSUME NEW s \in Sources PROVE seen[a][s] = resolved[s]
    <3>1. reading[a] > Pos(s)
      BY <1>0, Positions
    <3> QED
      BY <1>1, <3>1 DEF Inv, ReadInv
  <2>2. seen[a] = resolved
    <3>1. seen[a] = [s \in Sources |-> seen[a][s]] /\ resolved = [s \in Sources |-> resolved[s]]
      BY DEF Inv, Shape
    <3> QED
      BY <2>1, <3>1, SameLists
  <2> QED
    BY <1>0, <2>2
<1> QED
  BY <1>2, <1>3, <1>4, <1>5 DEF Inv

\* Every step keeps the invariant.
LEMMA NextInv == Inv /\ [Next]_vars => Inv'
<1> SUFFICES ASSUME Inv, [Next]_vars PROVE Inv'
  OBVIOUS
<1>0. resolved = [s \in Sources |-> resolved[s]]
  BY DEF Inv, Shape
<1>1. CASE WorldChange
  <2>1. UNCHANGED <<boot, resolved, toSend, chan, reading, seen, merged>> /\ (Unlost' => Unlost)
    BY <1>1 DEF WorldChange, ChangeCR, UpsertPlugin, DeletePlugin, ChangeFile,
       registries, view, Unlost
  <2> QED
    BY <2>1, QuietInv
<1>2. CASE Boot
  <2>1. CASE BootScan
    <3>1. resolved' = [t \in Sources |-> resolved'[t]]
      BY <1>0, <2>1 DEF BootScan, Scan
    <3> QED
      BY <2>1, <3>1, EarlyBootInv DEF BootScan, view
  <2>2. CASE BootWatch
    BY <1>0, <2>2, EarlyBootInv DEF BootWatch, view, registries
  <2>3. CASE BootPoll
    <3>1. resolved' = [t \in Sources |-> resolved'[t]]
      BY <1>0, <2>3 DEF BootPoll, PollSwap
    <3> QED
      BY <2>3, <3>1, EarlyBootInv DEF BootPoll, view
  <2>4. CASE BootInform
    BY <1>0, <2>4, EarlyBootInv DEF BootInform, registries
  <2> QED
    BY <1>2, <2>1, <2>2, <2>3, <2>4, SubscribeInv DEF Boot
<1>3. CASE Rescan
  <2>1. /\ resolved' = [t \in Sources |-> resolved'[t]]
        /\ \A t \in Sources \ {"file"} : resolved'[t] = resolved[t]
    BY <1>0, <1>3 DEF Rescan, Scan
  <2>2. Unlost' => Unlost
    BY <1>3 DEF Rescan, Scan, Unlost
  <2> QED
    BY <1>3, <2>1, <2>2, ResolveInv DEF Rescan, view
<1>4. CASE Poll
  <2>1. CASE SnapshotHash = lastHash
    BY <1>4, <2>1, QuietInv DEF Poll, PollSwap, view, Unlost
  <2>2. CASE SnapshotHash # lastHash
    <3>1. /\ resolved' = [t \in Sources |-> resolved'[t]]
          /\ \A t \in Sources \ {"db"} : resolved'[t] = resolved[t]
      BY <1>0, <1>4, <2>2 DEF Poll, PollSwap
    <3> QED
      BY <1>4, <2>2, <3>1, ResolveInv DEF Poll, view, Unlost
  <2> QED
    BY <2>1, <2>2
<1>5. CASE Deliver
  <2>1. UNCHANGED <<boot, chan, reading, seen, merged>> /\ (Unlost' => Unlost)
    BY <1>5 DEF Deliver, view, Unlost
  <2>2. CASE resolved' = resolved /\ toSend' = toSend
    BY <2>1, <2>2, QuietInv
  <2>3. CASE toSend' = toSend \cup {"crd"} /\ \E i, m : resolved' = [resolved EXCEPT !["crd"][i] = m]
    <3>1. /\ resolved' = [t \in Sources |-> resolved'[t]]
          /\ \A t \in Sources \ {"crd"} : resolved'[t] = resolved[t]
      BY <1>0, <2>3
    <3> QED
      BY <2>1, <2>3, <3>1, ResolveInv
  <2> QED
    BY <1>5, <2>2, <2>3 DEF Deliver
<1>6. CASE \E s \in Sources : Broadcast(s) \/ Notice(s)
  BY <1>6, BroadcastInv, NoticeInv
<1>7. CASE \E a \in Actors : Rebuild(a)
  BY <1>7, ReadStepInv, SwapInv DEF Rebuild
<1>8. CASE UNCHANGED vars
  BY <1>8, QuietInv DEF vars, registries, view, Unlost
<1> QED
  BY <1>1, <1>2, <1>3, <1>4, <1>5, <1>6, <1>7, <1>8 DEF Next
-----------------------------------------------------------------------------
(***************************************************************************)
(* Whatever happens to the sources and however rebuilds interleave, the    *)
(* view is the merge of the resolved lists or a rebuild is pending, until  *)
(* one of the two named losses has happened.                               *)
(***************************************************************************)
THEOREM ViewIsCurrent == Spec => []ViewFollowsSources
<1>1. Inv => ViewFollowsSources
  BY DEF Inv
<1> QED
  BY <1>1, InitInv, NextInv, PTL DEF Spec

-----------------------------------------------------------------------------
(* What is served *)

\* A finite nonempty set of numbers has a last element.  A smallest set
\* without one would lose nothing but one element.
LEMMA LastExists ==
  ASSUME NEW S, S \subseteq Nat, IsFiniteSet(S), S # {}
  PROVE  \E m \in S : \A x \in S : x <= m
<1> DEFINE Ends(T) == \E m \in T : \A x \in T : x <= m
           Bad == {n \in Nat : \E T \in SUBSET S : T # {} /\ Cardinality(T) = n /\ ~ Ends(T)}
<1>1. SUFFICES ASSUME ~ Ends(S) PROVE FALSE
  OBVIOUS
<1>2. \A T \in SUBSET S : IsFiniteSet(T) /\ Cardinality(T) \in Nat
  BY FS_Subset, FS_CardinalityType
<1>3. Cardinality(S) \in Bad
  BY <1>1, <1>2
<1>4. \E n \in Bad : \A k \in Bad : ~ (<<k, n>> \in OpToRel(<, Nat))
  <2>1. Bad \subseteq Nat /\ Bad # {}
    BY <1>3
  <2> HIDE DEF Bad
  <2> QED
    BY <2>1, WFMin, NatLessThanWellFounded
<1>5. PICK n \in Bad : \A k \in Bad : ~ (k < n)
  BY <1>4 DEF OpToRel
<1>6. PICK T \in SUBSET S : T # {} /\ Cardinality(T) = n /\ ~ Ends(T)
  OBVIOUS
<1>7. PICK x \in T : TRUE
  BY <1>6
<1>8. /\ T \ {x} \in SUBSET S
      /\ Cardinality(T \ {x}) \in Nat /\ Cardinality(T \ {x}) < n
  <2>1. IsFiniteSet(T) /\ IsFiniteSet(T \ {x})
    BY <1>2
  <2>2. Cardinality(T \ {x}) = Cardinality(T) - 1
    BY <2>1, <1>7, FS_RemoveElement
  <2> QED
    BY <1>2, <1>6, <2>2
<1>9. T \ {x} = {} \/ Ends(T \ {x})
  BY <1>5, <1>8
<1>10. x \in Nat /\ \A y \in T : y \in Nat
  OBVIOUS
<1>11. CASE T \ {x} = {}
  BY <1>6, <1>10, <1>11
<1>12. CASE Ends(T \ {x})
  <2>1. PICK m \in T \ {x} : \A y \in T \ {x} : y <= m
    BY <1>12
  <2>2. CASE x <= m
    BY <1>6, <1>10, <2>1, <2>2
  <2>3. CASE m <= x
    BY <1>6, <1>10, <2>1, <2>3
  <2> QED
    BY <1>10, <2>1, <2>2, <2>3
<1> QED
  BY <1>9, <1>11, <1>12

Maybe == Manifests \cup {None}

\* A list files valid manifests under their own ids.
Filed(l) ==
  /\ l \in [Ids -> Maybe]
  /\ \A id \in Ids : l[id] # None => Valid(l[id]) /\ ID(l[id]) = id

\* A row has the id of its document.
IsRow(r) ==
  /\ r = [id |-> r.id, yaml |-> r.yaml, enabled |-> r.enabled, revision |-> r.revision]
  /\ r.yaml \in Manifests /\ r.id = ID(r.yaml)
Table(d) ==
  /\ d = [plugin_manifests |-> d.plugin_manifests]
  /\ \A r \in d.plugin_manifests : IsRow(r)

FilesInv ==
  /\ files \in [Paths -> Maybe] /\ pathLast \in [Paths -> Maybe]
  /\ \A p \in Paths : pathLast[p] # None => Valid(pathLast[p])

EventsInv ==
  /\ crs \in [Names -> Maybe] /\ queue \in Seq([name : Names, obj : Maybe])
  /\ nameToID \in [Names -> Ids \cup {None}]

Lists(f) == f = [s \in Sources |-> f[s]] /\ \A s \in Sources : Filed(f[s])
ResolvedInv == Lists(resolved)
SeenInv == seen = [a \in Actors |-> seen[a]] /\ \A a \in Actors : Lists(seen[a])

MergedInv ==
  /\ merged \in [Ids -> [manifest : Manifests, source : Sources] \cup {None}]
  /\ OnlyValidIsServed

RestInv ==
  /\ boot \in {"scan", "watch", "poll", "inform", "rebuild", "subscribe", "done"}
  /\ watching \in BOOLEAN /\ fsEvent \in BOOLEAN
  /\ toSend \subseteq Sources
  /\ chan \in [Sources -> {"none", "empty", "full"}]
  /\ reading \in [Actors -> 0 .. Last]
  /\ changes \in 0 .. MaxChanges
  /\ lost \subseteq {"window", "overtaken", "recreated", "unwatched", "unread",
                     "renamed"}

ServedInv ==
  /\ Table(db) /\ FilesInv /\ EventsInv /\ ResolvedInv /\ SeenInv /\ MergedInv
  /\ RestInv

\* Nothing has been served at the start.
LEMMA ServedInit == Init => ServedInv
<1> SUFFICES ASSUME Init PROVE ServedInv
  OBVIOUS
<1>1. Filed(NoList)
  BY DEF Filed, NoList, Maybe
<1>2. Table(db)
  <2>1. PICK old \in SUBSET {m \in Manifests : ID(m) \in Ids} :
           db = [plugin_manifests |->
                  {[id |-> ID(m), yaml |-> m, enabled |-> TRUE, revision |-> 1] : m \in old}]
    BY DEF Init
  <2> QED
    BY <2>1 DEF Table, IsRow
<1>3. FilesInv /\ EventsInv
  BY DEF Init, FilesInv, EventsInv, Maybe
<1>4. ResolvedInv /\ SeenInv
  BY <1>1 DEF Init, ResolvedInv, SeenInv, Lists
<1>5. MergedInv
  BY DEF Init, MergedInv, OnlyValidIsServed, NoList
<1>6. RestInv
  <2>1. /\ boot = "scan" /\ watching = FALSE /\ fsEvent = FALSE
        /\ toSend = {} /\ changes = 0 /\ lost = {}
        /\ chan = [s \in Sources |-> "none"] /\ reading = [a \in Actors |-> 0]
    BY DEF Init
  <2>2. changes \in 0 .. MaxChanges
    BY <2>1
  <2>3. chan \in [Sources -> {"none", "empty", "full"}] /\ reading \in [Actors -> 0 .. Last]
    BY <2>1 DEF Last
  <2>4. toSend \subseteq Sources
        /\ lost \subseteq {"window", "overtaken", "recreated", "unwatched", "unread",
                           "renamed"}
    BY <2>1
  <2> QED
    BY <2>1, <2>2, <2>3, <2>4 DEF RestInv
<1> QED
  BY <1>2, <1>3, <1>4, <1>5, <1>6 DEF ServedInv

\* Three fields of a row are set.
Rewritten(m, yaml, enabled) ==
  [m EXCEPT !.yaml = yaml, !.enabled = enabled, !.revision = @ + 1]

\* What the update makes of a row.
LEMMA RowRewritten ==
  ASSUME NEW m, NEW f, NEW g, NEW h, NEW k, NEW y, NEW e,
         m = [id |-> f, yaml |-> g, enabled |-> h, revision |-> k]
  PROVE  Rewritten(m, y, e) = [id |-> f, yaml |-> y, enabled |-> e, revision |-> k + 1]
<1>1. PICK l : l = k + 1
  OBVIOUS
<1>2. [m EXCEPT !.yaml = y] = [id |-> f, yaml |-> y, enabled |-> h, revision |-> k]
  OBVIOUS
<1>3. [[id |-> f, yaml |-> y, enabled |-> h, revision |-> k] EXCEPT !.enabled = e] =
        [id |-> f, yaml |-> y, enabled |-> e, revision |-> k]
  BY ONLY TRUE
<1>4. [[id |-> f, yaml |-> y, enabled |-> e, revision |-> k] EXCEPT !.revision = l] =
        [id |-> f, yaml |-> y, enabled |-> e, revision |-> l]
  BY ONLY TRUE
<1>5. [id |-> f, yaml |-> y, enabled |-> e, revision |-> k].revision = k
  BY ONLY TRUE
<1>6. Rewritten(m, y, e) =
        [[[m EXCEPT !.yaml = y] EXCEPT !.enabled = e] EXCEPT !.revision = @ + 1]
  BY DEF Rewritten
<1> QED
  BY ONLY <1>1, <1>2, <1>3, <1>4, <1>5, <1>6

\* UpsertPluginManifest stores a document under its id.
LEMMA UpsertTable ==
  ASSUME NEW d, Table(d), NEW m \in Manifests, NEW e
  PROVE  Table(Pg!UpsertPluginManifest(d, ID(m), m, e).db)
<1> DEFINE T == d.plugin_manifests
           same(r) == r.id = ID(m)
           new == [id |-> ID(m), yaml |-> m, enabled |-> e, revision |-> 1]
           X == IF {r \in T : same(r)} = {} THEN T \cup {new}
                ELSE (T \ {r \in T : same(r)}) \cup
                     {Rewritten(r, m, e) : r \in {x \in T : same(x)}}
<1>1. Pg!UpsertPluginManifest(d, ID(m), m, e).db = [d EXCEPT !["plugin_manifests"] = X]
  <2>1. {r \in T : same(r)} # {} => {Rewritten(r, m, e) : r \in {x \in T : same(x)}} # {}
    OBVIOUS
  <2> QED
    BY <2>1 DEF Pg!UpsertPluginManifest, Pg!OnConflict, Pg!InsertRow, Pg!UpdateWhere,
       Pg!Where, Pg!Ok, Pg!Fail, Rewritten
<1>2. \A r \in X : IsRow(r)
  <2>1. IsRow(new)
    BY DEF IsRow
  <2>2. \A r \in T : IsRow(r)
    BY DEF Table
  <2>3. ASSUME NEW r \in T, same(r) PROVE IsRow(Rewritten(r, m, e))
    <3>1. Rewritten(r, m, e) = [id |-> r.id, yaml |-> m, enabled |-> e, revision |-> r.revision + 1]
      BY <2>2, RowRewritten DEF IsRow
    <3> QED
      BY <2>3, <3>1 DEF IsRow
  <2> QED
    BY <2>1, <2>2, <2>3
<1> HIDE DEF X
<1>3. [d EXCEPT !["plugin_manifests"] = X] = [plugin_manifests |-> X]
  <2>1. PICK t : d = [plugin_manifests |-> t]
    BY DEF Table
  <2> QED
    BY ONLY <2>1
<1> QED
  BY <1>1, <1>2, <1>3 DEF Table

\* DeletePluginManifest takes rows away.
LEMMA DeleteTable ==
  ASSUME NEW d, Table(d), NEW id
  PROVE  Table(Pg!DeletePluginManifest(d, id).db)
  BY DEF Pg!DeletePluginManifest, Pg!DeleteWhere, Pg!Where, Pg!Ok, Pg!Fail, Table

\* scan files what parses, of two files with one id the last.
LEMMA ScanFiles ==
  ASSUME FilesInv,
         NEW l \in {pathLast} \cup {ScannedLast(unread) : unread \in SUBSET Paths}
  PROVE  /\ l \in [Paths -> Maybe]
         /\ \A p \in Paths : l[p] # None => Valid(l[p])
         /\ Filed(ScannedList(l))
<1>1. /\ l \in [Paths -> Maybe]
      /\ \A p \in Paths : l[p] # None => Valid(l[p])
  <2>1. CASE l = pathLast
    BY <2>1 DEF FilesInv
  <2>2. ASSUME NEW unread \in SUBSET Paths, l = ScannedLast(unread)
        PROVE  /\ l \in [Paths -> Maybe]
               /\ \A p \in Paths : l[p] # None => Valid(l[p])
    BY <2>2 DEF FilesInv, ScannedLast, Maybe
  <2> QED
    BY <2>1, <2>2
<1>3. ASSUME NEW id \in Ids
      PROVE  \/ ScannedList(l)[id] = None
             \/ \E p \in Paths : /\ l[p] # None /\ ID(l[p]) = id
                                 /\ ScannedList(l)[id] = l[p]
  <2> DEFINE ps == {p \in Paths : l[p] # None /\ ID(l[p]) = id}
  <2>1. ScannedList(l)[id] = IF ps = {} THEN None
                             ELSE l[CHOOSE p \in ps : \A q \in ps : q <= p]
    BY DEF ScannedList
  <2>2. CASE ps # {}
    <3>1. \E p \in ps : \A q \in ps : q <= p
      <4>1. ps \subseteq Nat /\ IsFiniteSet(ps)
        BY FS_Subset
      <4> HIDE DEF ps
      <4> QED
        BY <2>2, <4>1, LastExists
    <3>2. (CHOOSE p \in ps : \A q \in ps : q <= p) \in ps
      <4> HIDE DEF ps
      <4> QED
        BY <3>1
    <3> QED
      BY <2>1, <2>2, <3>2
  <2> QED
    BY <2>1, <2>2
<1>4. ScannedList(l) = [id \in Ids |-> ScannedList(l)[id]]
  BY DEF ScannedList
<1>5. Filed(ScannedList(l))
  BY <1>1, <1>3, <1>4 DEF Filed, Maybe
<1> QED
  BY <1>1, <1>5

\* poll files the rows that parse, for the others what it had.
LEMMA PollFiles ==
  ASSUME Table(db), ResolvedInv
  PROVE  Filed(PolledList)
<1>1. Rows \subseteq db.plugin_manifests
  BY DEF Rows, Pg!ListPluginManifests, Pg!Where, Pg!Ok
<1>2. \A r \in Rows : r.yaml \in Manifests /\ r.id = ID(r.yaml)
  BY <1>1 DEF Table, IsRow
<1>3. Filed(resolved["db"])
  BY DEF ResolvedInv, Lists
<1>4. \A id \in Ids : (\E r \in Rows : r.id = id) => RowOf(id) \in Rows /\ RowOf(id).id = id
  BY DEF RowOf
<1>5. PolledList = [id \in Ids |-> PolledList[id]]
  BY DEF PolledList
<1>6. \A id \in Ids : PolledList[id] =
        IF \A r \in Rows : r.id # id THEN None
        ELSE IF Valid(RowOf(id).yaml) THEN RowOf(id).yaml ELSE resolved["db"][id]
  BY DEF PolledList
<1> HIDE DEF Sources
<1> QED
  BY ONLY <1>2, <1>3, <1>4, <1>5, <1>6, PluginAssumption DEF Filed, Maybe

\* One list is replaced by another.
LEMMA ListsUpdate ==
  ASSUME NEW f, Lists(f), NEW s \in Sources, NEW l, Filed(l)
  PROVE  Lists([f EXCEPT ![s] = l])
  BY DEF Lists

\* One entry of a list is set or removed.
LEMMA FiledUpdate ==
  ASSUME NEW l, Filed(l), NEW id \in Ids, NEW m \in Maybe,
         m # None => Valid(m) /\ ID(m) = id
  PROVE  Filed([l EXCEPT ![id] = m])
  BY DEF Filed

\* A rebuild keeps valid manifests under their ids.
LEMMA MergeFiles ==
  ASSUME NEW f, Lists(f)
  PROVE  /\ Merge(f) \in [Ids -> [manifest : Manifests, source : Sources] \cup {None}]
         /\ \A id \in Ids : Merge(f)[id] # None =>
              Valid(Merge(f)[id].manifest) /\ ID(Merge(f)[id].manifest) = id
<1>1. ASSUME NEW id \in Ids
      PROVE  \/ Merge(f)[id] = None
             \/ \E s \in Sources : /\ f[s][id] # None
                                   /\ Merge(f)[id] = [manifest |-> f[s][id], source |-> s]
  <2> DEFINE from == {s \in Sources : f[s][id] # None}
             first == CHOOSE s \in from : \A t \in from : Pos(s) <= Pos(t)
  <2>1. Merge(f)[id] = IF from = {} THEN None
                       ELSE [manifest |-> f[first][id], source |-> first]
    BY DEF Merge
  <2>2. CASE from # {}
    <3>1. \E s \in from : \A t \in from : Pos(s) <= Pos(t)
      <4>1. Pos("crd") = 1 /\ Pos("db") = 2 /\ Pos("file") = 3
        BY DEF Pos
      <4>2. CASE "crd" \in from
        BY <4>1, <4>2
      <4>3. CASE "crd" \notin from /\ "db" \in from
        BY <4>1, <4>3
      <4>4. CASE "crd" \notin from /\ "db" \notin from
        BY <2>2, <4>1, <4>4
      <4> QED
        BY <4>2, <4>3, <4>4
    <3>2. first \in from
      <4> HIDE DEF from
      <4> QED
        BY <3>1
    <3> QED
      BY <2>1, <2>2, <3>2
  <2> QED
    BY <2>1, <2>2
<1>2. Merge(f) = [id \in Ids |-> Merge(f)[id]]
  BY DEF Merge
<1>3. \A s \in Sources, id \in Ids : f[s][id] # None =>
        f[s][id] \in Manifests /\ Valid(f[s][id]) /\ ID(f[s][id]) = id
  BY DEF Lists, Filed, Maybe
<1>4. \A m \in Manifests, s \in Sources :
        /\ [manifest |-> m, source |-> s] \in [manifest : Manifests, source : Sources]
        /\ [manifest |-> m, source |-> s].manifest = m
  BY ONLY TRUE
<1>5. \A id \in Ids :
        \/ Merge(f)[id] = None
        \/ /\ Merge(f)[id] \in [manifest : Manifests, source : Sources]
           /\ Valid(Merge(f)[id].manifest) /\ ID(Merge(f)[id].manifest) = id
  <2> SUFFICES ASSUME NEW id \in Ids, Merge(f)[id] # None
               PROVE  /\ Merge(f)[id] \in [manifest : Manifests, source : Sources]
                      /\ Valid(Merge(f)[id].manifest) /\ ID(Merge(f)[id].manifest) = id
    OBVIOUS
  <2>1. PICK s \in Sources : /\ f[s][id] # None
                             /\ Merge(f)[id] = [manifest |-> f[s][id], source |-> s]
    BY <1>1
  <2>2. PICK m : m = f[s][id]
    OBVIOUS
  <2>3. m \in Manifests /\ Valid(m) /\ ID(m) = id
    BY <1>3, <2>1, <2>2
  <2>4. Merge(f)[id] = [manifest |-> m, source |-> s]
    BY <2>1, <2>2
  <2> HIDE DEF Sources
  <2> QED
    BY ONLY <1>4, <2>3, <2>4, s \in Sources
<1> HIDE DEF Sources
<1> QED
  BY ONLY <1>2, <1>5
-----------------------------------------------------------------------------
(* Steps, for what is served *)

\* The boot of the server and the signals.
LEMMA RestStep == ASSUME ServedInv, [Next]_vars PROVE RestInv'
<1> USE DEF RestInv
<1>0. RestInv
  BY DEF ServedInv
<1>1. CASE WorldChange
  <2>1. CASE \E n \in Names, m \in Manifests \cup {None} : ChangeCR(n, m)
    BY <1>0, <2>1 DEF ChangeCR, Changed, view, registries
  <2>2. CASE \E m \in Manifests, e \in BOOLEAN : UpsertPlugin(m, e)
    BY <1>0, <2>2 DEF UpsertPlugin, Changed, view, registries
  <2>3. CASE \E id \in Ids : DeletePlugin(id)
    <3>1. /\ changes < MaxChanges /\ changes' = changes + 1
          /\ UNCHANGED <<boot, watching, fsEvent, toSend, chan, reading, lost>>
      BY <2>3 DEF DeletePlugin, Changed, view
    <3> QED
      BY <1>0, <3>1
  <2>4. CASE \E p \in Paths, m \in Manifests \cup {None} : ChangeFile(p, m)
    <3>1. watching' \in BOOLEAN /\ fsEvent' \in BOOLEAN
      BY <1>0, <2>4 DEF ChangeFile
    <3>2. /\ changes < MaxChanges /\ changes' = changes + 1
          /\ lost' \subseteq lost \cup {"unwatched"}
          /\ UNCHANGED <<boot, toSend, chan, reading>>
      BY <2>4 DEF ChangeFile, Changed, view
    <3> QED
      BY <1>0, <3>1, <3>2
  <2> QED
    BY <1>1, <2>1, <2>2, <2>3, <2>4 DEF WorldChange
<1>2. CASE Boot
  <2>1. CASE BootScan
    <3>1. /\ lost' \subseteq lost \cup {"unread"} /\ boot' = "watch"
          /\ UNCHANGED <<watching, fsEvent, toSend, chan, reading, changes>>
      BY <2>1 DEF BootScan, Scan, world, view
    <3> QED
      BY <1>0, <3>1
  <2>4. CASE BootWatch
    BY <1>0, <2>4 DEF BootWatch, world, view
  <2>5. CASE BootPoll
    <3>1. /\ boot' = "inform"
          /\ changes' = changes \/ (changes < MaxChanges /\ changes' = changes + 1)
          /\ UNCHANGED <<watching, fsEvent, toSend, chan, reading, lost>>
      BY <2>5 DEF BootPoll, Changed, view
    <3> QED
      BY <1>0, <3>1
  <2>2. CASE BootInform
    BY <1>0, <2>2 DEF BootInform, world, Last
  <2>3. CASE BootSubscribe
    BY <1>0, <2>3 DEF BootSubscribe, world, view
  <2> QED
    BY <1>2, <2>1, <2>2, <2>3, <2>4, <2>5 DEF Boot
<1>3. CASE Rescan
  <2>1. /\ lost' \subseteq lost \cup {"unread"} /\ toSend' = toSend \cup {"file"}
        /\ fsEvent' = FALSE /\ UNCHANGED <<boot, watching, chan, reading, changes>>
    BY <1>3 DEF Rescan, Scan, world, view
  <2> QED
    BY <1>0, <2>1
<1>4. CASE Poll
  BY <1>0, <1>4 DEF Poll, world, view
<1>5. CASE Deliver
  BY <1>0, <1>5 DEF Deliver, world, view
<1>6. CASE \E s \in Sources : Broadcast(s) \/ Notice(s)
  <2> PICK s \in Sources : Broadcast(s) \/ Notice(s)
    BY <1>6
  <2>1. CASE Broadcast(s)
    BY <1>0, <2>1 DEF Broadcast, world, view
  <2>2. CASE Notice(s)
    BY <1>0, <2>2 DEF Notice, TakeSignal, world, Last
  <2> QED
    BY <2>1, <2>2
<1>7. CASE \E a \in Actors : Rebuild(a)
  <2> PICK a \in Actors : Rebuild(a)
    BY <1>7
  <2>1. CASE Read(a)
    BY <1>0, <2>1 DEF Read, world, Last
  <2>2. CASE Swap(a)
    BY <1>0, <2>2 DEF Swap, world, Last
  <2> QED
    BY <2>1, <2>2 DEF Rebuild
<1>8. CASE UNCHANGED vars
  BY <1>0, <1>8 DEF vars, world, view
<1> QED
  BY <1>1, <1>2, <1>3, <1>4, <1>5, <1>6, <1>7, <1>8 DEF Next

\* Documents enter the table only when they parse and under their own id.
LEMMA TableStep == ASSUME ServedInv, [Next]_vars PROVE Table(db)'
<1>0. Table(db)
  BY DEF ServedInv
<1>1. CASE \E m \in Manifests, e \in BOOLEAN : UpsertPlugin(m, e)
  BY <1>0, <1>1, UpsertTable DEF UpsertPlugin
<1>2. CASE \E id \in Ids : DeletePlugin(id)
  BY <1>0, <1>2, DeleteTable DEF DeletePlugin
<1>3. CASE UNCHANGED db
  BY <1>0, <1>3 DEF Table
<1> QED
  BY <1>1, <1>2, <1>3 DEF Next, WorldChange, ChangeCR, ChangeFile, Boot, BootScan,
     BootWatch, BootPoll, BootInform, BootSubscribe, Rescan, Poll, Deliver, Broadcast,
     Notice, Rebuild, Read, Swap, vars, world

\* The file registry remembers valid manifests only.
LEMMA FilesStep == ASSUME ServedInv, [Next]_vars PROVE FilesInv'
<1>0. FilesInv
  BY DEF ServedInv
<1>1. CASE \E p \in Paths, m \in Manifests \cup {None} : ChangeFile(p, m)
  BY <1>0, <1>1 DEF ChangeFile, FilesInv, registries, Maybe
<1>2. CASE Rescan \/ BootScan
  <2>1. PICK last \in {pathLast} \cup {ScannedLast(unread) : unread \in SUBSET Paths} :
          pathLast' = last
    BY <1>2 DEF Rescan, BootScan, Scan
  <2>2. last \in [Paths -> Maybe] /\ \A p \in Paths : last[p] # None => Valid(last[p])
    BY <1>0, ScanFiles
  <2>3. UNCHANGED files
    BY <1>2 DEF Rescan, BootScan, world
  <2> QED
    BY <1>0, <2>1, <2>2, <2>3 DEF FilesInv
<1>3. CASE UNCHANGED <<files, pathLast>>
  BY <1>0, <1>3 DEF FilesInv
<1> QED
  BY <1>1, <1>2, <1>3 DEF Next, WorldChange, ChangeCR, UpsertPlugin, DeletePlugin, Boot,
     BootWatch, BootPoll, BootInform, BootSubscribe, Poll, Deliver, Broadcast,
     Notice, Rebuild, Read, Swap, vars, world, registries

\* The events of the informer are about resources that may exist.
LEMMA EventsStep == ASSUME ServedInv, [Next]_vars PROVE EventsInv'
<1> DEFINE E == [name : Names, obj : Maybe]
<1>0. EventsInv
  BY DEF ServedInv
<1>1. CASE \E n \in Names, m \in Manifests \cup {None} : ChangeCR(n, m)
  <2> PICK n \in Names, m \in Maybe : ChangeCR(n, m)
    BY <1>1 DEF Maybe
  <2>1. [name |-> n, obj |-> m] \in E
    OBVIOUS
  <2>2. Append(queue, [name |-> n, obj |-> m]) \in Seq(E)
    <3> HIDE DEF E
    <3> QED
      BY <1>0, <2>1, AppendProperties DEF EventsInv, E
  <2> QED
    BY <1>0, <2>2 DEF ChangeCR, EventsInv, registries
<1>2. CASE Deliver
  <2>1. queue \in Seq(E) /\ queue # <<>>
    BY <1>0, <1>2 DEF Deliver, EventsInv
  <2>2. Head(queue) \in E /\ Tail(queue) \in Seq(E)
    <3> HIDE DEF E
    <3> QED
      BY <2>1, HeadTailProperties
  <2>3. Head(queue).name \in Names /\ Head(queue).obj \in Maybe
    BY <2>2
  <2>4. \A m : Valid(m) => ID(m) \in Ids
    BY DEF Valid, Validate, ID
  <2>5. nameToID' \in [Names -> Ids \cup {None}]
    BY <1>0, <1>2, <2>3, <2>4 DEF Deliver, EventsInv
  <2> QED
    BY <1>0, <1>2, <2>2, <2>5 DEF Deliver, EventsInv, world
<1>3. CASE BootInform
  <2> DEFINE present == {n \in Names : crs[n] # None}
  <2>1. Cardinality(present) \in Nat
    BY FS_Subset, FS_CardinalityType
  <2>2. PICK q \in [1 .. Cardinality(present) -> present] :
          queue' = [i \in DOMAIN q |-> [name |-> q[i], obj |-> crs[q[i]]]]
    BY <1>3 DEF BootInform
  <2>3. \A n \in present : [name |-> n, obj |-> crs[n]] \in E
    BY <1>0 DEF EventsInv
  <2>4. queue' \in [1 .. Cardinality(present) -> E]
    <3> HIDE DEF E, present
    <3> QED
      BY <2>2, <2>3
  <2>5. queue' \in Seq(E)
    <3> HIDE DEF E, present
    <3> QED
      BY <2>1, <2>4
  <2> QED
    BY <1>0, <1>3, <2>5 DEF BootInform, EventsInv, world, registries
<1>4. CASE UNCHANGED <<crs, queue, nameToID>>
  BY <1>0, <1>4 DEF EventsInv
<1> QED
  BY <1>1, <1>2, <1>3, <1>4 DEF Next, WorldChange, UpsertPlugin, DeletePlugin,
     ChangeFile, Boot, BootScan, BootWatch, BootPoll, BootSubscribe, Rescan, Poll,
     Broadcast, Notice, Rebuild, Read, Swap, vars, world, registries

\* Every registry resolves valid manifests under their own ids.
LEMMA ResolvedStep == ASSUME ServedInv, [Next]_vars PROVE ResolvedInv'
<1>0. ResolvedInv
  BY DEF ServedInv
<1>1. CASE Rescan \/ BootScan
  <2>1. PICK last \in {pathLast} \cup {ScannedLast(unread) : unread \in SUBSET Paths} :
          resolved' = [resolved EXCEPT !["file"] = ScannedList(last)]
    BY <1>1 DEF Rescan, BootScan, Scan
  <2>2. Filed(ScannedList(last))
    BY ScanFiles DEF ServedInv
  <2> QED
    BY <1>0, <2>1, <2>2, ListsUpdate DEF ResolvedInv
<1>2. CASE PollSwap
  <2>1. Filed(PolledList)
    BY PollFiles DEF ServedInv
  <2> QED
    BY <1>0, <1>2, <2>1, ListsUpdate DEF PollSwap, ResolvedInv
<1>3. CASE Deliver
  <2>1. queue \in Seq([name : Names, obj : Maybe]) /\ queue # <<>>
        /\ nameToID \in [Names -> Ids \cup {None}]
    BY <1>3 DEF Deliver, ServedInv, EventsInv
  <2>2. Head(queue) \in [name : Names, obj : Maybe]
    BY ONLY <2>1, HeadTailProperties
  <2>3. Head(queue).name \in Names /\ Head(queue).obj \in Maybe
    BY <2>2
  <2>4. \A m : Valid(m) => ID(m) \in Ids
    BY DEF Valid, Validate, ID
  <2>5. \/ UNCHANGED resolved
        \/ \E id \in Ids, m \in Maybe :
             /\ resolved' = [resolved EXCEPT !["crd"][id] = m]
             /\ m # None => Valid(m) /\ ID(m) = id
    BY <1>3, <2>1, <2>3, <2>4 DEF Deliver, Maybe
  <2>6. CASE UNCHANGED resolved
    BY <1>0, <2>6 DEF ResolvedInv
  <2>7. ASSUME NEW id \in Ids, NEW m \in Maybe,
               resolved' = [resolved EXCEPT !["crd"][id] = m],
               m # None => Valid(m) /\ ID(m) = id
        PROVE  ResolvedInv'
    <3>1. Filed([resolved["crd"] EXCEPT ![id] = m])
      BY <1>0, <2>7, FiledUpdate DEF ResolvedInv, Lists
    <3>2. resolved' = [resolved EXCEPT !["crd"] = [resolved["crd"] EXCEPT ![id] = m]]
      BY <2>7
    <3> QED
      BY <1>0, <3>1, <3>2, ListsUpdate DEF ResolvedInv
  <2> QED
    BY <2>5, <2>6, <2>7
<1>4. CASE UNCHANGED resolved
  BY <1>0, <1>4 DEF ResolvedInv
<1> QED
  BY <1>1, <1>2, <1>3, <1>4 DEF Next, WorldChange, ChangeCR, UpsertPlugin, DeletePlugin,
     ChangeFile, Boot, BootWatch, BootPoll, BootInform, BootSubscribe, Poll,
     Broadcast, Notice, Rebuild, Read, Swap, vars, registries

\* A rebuild reads such lists, and the view is made of them.
LEMMA ViewStep == ASSUME ServedInv, [Next]_vars PROVE SeenInv' /\ MergedInv'
<1>0. SeenInv /\ MergedInv /\ ResolvedInv
  BY DEF ServedInv
<1>1. ASSUME NEW a \in Actors, Read(a) PROVE SeenInv' /\ MergedInv'
  <2>1. PICK s \in Sources : seen' = [seen EXCEPT ![a][s] = resolved[s]]
    BY <1>1, Positions DEF Read
  <2>2. Lists([seen[a] EXCEPT ![s] = resolved[s]])
    BY <1>0, ListsUpdate DEF SeenInv, ResolvedInv, Lists
  <2>3. seen' = [seen EXCEPT ![a] = [seen[a] EXCEPT ![s] = resolved[s]]]
    BY <2>1
  <2>4. SeenInv'
    <3> HIDE DEF Actors, Sources
    <3> QED
      BY <1>0, <2>2, <2>3 DEF SeenInv
  <2> QED
    BY <1>0, <1>1, <2>4 DEF Read, MergedInv, OnlyValidIsServed
<1>2. ASSUME NEW a \in Actors, Swap(a) PROVE SeenInv' /\ MergedInv'
  <2>1. Filed(NoList)
    BY DEF Filed, NoList, Maybe
  <2>2. Lists([s \in Sources |-> NoList])
    BY <2>1 DEF Lists
  <2>3. seen' = [seen EXCEPT ![a] = [s \in Sources |-> NoList]] /\ merged' = Merge(seen[a])
    BY <1>2 DEF Swap
  <2>4. SeenInv'
    <3> HIDE DEF Actors, Sources
    <3> QED
      BY <1>0, <2>2, <2>3 DEF SeenInv
  <2>5. Lists(seen[a])
    BY <1>0 DEF SeenInv
  <2>6. MergedInv'
    BY <2>3, <2>5, MergeFiles DEF MergedInv, OnlyValidIsServed
  <2> QED
    BY <2>4, <2>6
<1>3. CASE UNCHANGED <<seen, merged>>
  BY <1>0, <1>3 DEF SeenInv, MergedInv, OnlyValidIsServed
<1> QED
  BY <1>1, <1>2, <1>3 DEF Next, WorldChange, ChangeCR, UpsertPlugin, DeletePlugin,
     ChangeFile, Boot, BootScan, BootWatch, BootPoll, BootInform, BootSubscribe, Rescan,
     Poll, Deliver, Broadcast, Notice, Rebuild, vars, view

\* Every step keeps it.
LEMMA ServedNext == ServedInv /\ [Next]_vars => ServedInv'
<1> SUFFICES ASSUME ServedInv, [Next]_vars PROVE ServedInv'
  OBVIOUS
<1>1. Table(db)' /\ FilesInv' /\ EventsInv' /\ ResolvedInv' /\ SeenInv' /\ MergedInv' /\ RestInv'
  BY TableStep, FilesStep, EventsStep, ResolvedStep, ViewStep, RestStep
<1> QED
  BY <1>1 DEF ServedInv

(***************************************************************************)
(* Lists, events, signals and the view keep their types: what is served    *)
(* under an id is nothing or a manifest with the source it came from.      *)
(***************************************************************************)
THEOREM PluginTypeCorrect == Spec => []TypeOK
<1>1. ServedInv => TypeOK
  <2> SUFFICES ASSUME ServedInv PROVE TypeOK
    OBVIOUS
  <2>1. resolved \in [Sources -> [Ids -> Manifests \cup {None}]]
    BY DEF ServedInv, ResolvedInv, Lists, Filed, Maybe
  <2>2. seen \in [Actors -> [Sources -> [Ids -> Manifests \cup {None}]]]
    <3>1. \A a \in Actors : seen[a] \in [Sources -> [Ids -> Manifests \cup {None}]]
      BY DEF ServedInv, SeenInv, Lists, Filed, Maybe
    <3> HIDE DEF Sources, Actors
    <3> QED
      BY <3>1 DEF ServedInv, SeenInv
  <2> QED
    BY <2>1, <2>2 DEF ServedInv, FilesInv, EventsInv, MergedInv, RestInv, TypeOK, Maybe
<1> QED
  BY <1>1, ServedInit, ServedNext, PTL DEF Spec

(***************************************************************************)
(* Whatever the three sources hold and however rebuilds interleave, only   *)
(* manifests that parse are served, each under its own id.                 *)
(***************************************************************************)
THEOREM ServedIsValid == Spec => []OnlyValidIsServed
<1>1. ServedInv => OnlyValidIsServed
  BY DEF ServedInv, MergedInv
<1> QED
  BY <1>1, ServedInit, ServedNext, PTL DEF Spec
=============================================================================
