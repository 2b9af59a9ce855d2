------------------------ MODULE MCPControllerProofs ------------------------
(***************************************************************************)
(* Proofs about MCPController, for any set of resources, specs and workers *)
(* and any number of changes, failed calls and restarts.                   *)
(***************************************************************************)
EXTENDS MCPController, TLAPS

USE MCPAssumption

\* Every object any spec asks for.
Object == UNION {{Desired(k, s) : s \in Specs} : k \in Kinds}

\* What a worker holds at each step.
WorkerTypes ==
  \A w \in Workers :
    /\ work[w].pc = "idle" <=> work[w].key = None
    /\ work[w].pc \in ApplySteps =>
         work[w].cr # None /\ Converts(work[w].cr.spec)
    /\ work[w].pc \in CleanSteps => work[w].cr = None
    /\ work[w].pc = "put" /\ work[w].fresh => cr[work[w].key] # None

TypeInv ==
  /\ TypeOK
  /\ objects \in [Kinds -> [Names -> Object \cup {None}]]
  /\ WorkerTypes

\* The keys workers have are the ones the queue calls processing.
QueueInv ==
  /\ \A w \in Workers : work[w].key # None => work[w].key \in processing
  /\ OneWorkerPerKey

\* The informer's copy is the resource, or the last event will make it so.
CopyInv ==
  \A n \in Names :
    /\ watch[n] = <<>> => cache[n] = cr[n]
    /\ watch[n] # <<>> => watch[n][Len(watch[n])] = cr[n]

\* The resource has changed since a worker looked at it and will be taken again.
Again(n) == n \in dirty \/ watch[n] # <<>>

\* The kinds a worker has applied, or deleted, when it is at a step.
AppliedAt(pc) ==
  CASE pc = "service" -> {"deployment"}
    [] pc = "networkpolicy" -> {"deployment", "service"}
    [] pc \in {"get", "put", "done"} -> Kinds
    [] OTHER -> {}

CleanedAt(pc) ==
  CASE pc = "-service" -> {"deployment"}
    [] pc = "-networkpolicy" -> {"deployment", "service"}
    [] pc = "done" -> Kinds
    [] OTHER -> {}

\* What a worker has done, and that it has done it from the latest copy.
WorkOf(w) ==
  LET n == work[w].key
      c == work[w].cr
  IN  /\ work[w].pc # "look" => n \in dirty \/ c = cache[n]
      /\ c # None /\ Converts(c.spec) =>
           \A k \in AppliedAt(work[w].pc) : objects[k][n] = Desired(k, c.spec)
      /\ c = None =>
           \A k \in CleanedAt(work[w].pc) :
             objects[k][n] = None \/ <<k, n>> \in leaked
      /\ work[w].pc = "put" => work[w].fresh \/ Again(n)
      /\ work[w].pc = "done" /\ c # None /\ Converts(c.spec) =>
           Again(n) \/ n \in unreported \/ cr[n].status = Service(c.spec).port

WorkInv == \A w \in Workers : work[w].key # None => WorkOf(w)

Inv == TypeInv /\ QueueInv /\ CopyInv /\ WorkInv /\ RestMeansReconciled
-----------------------------------------------------------------------------
(* Sequences of events *)

\* The last event of a watch is the one that was put there last.
LEMMA AppendLast ==
  ASSUME NEW S, NEW q \in Seq(S), NEW e \in S
  PROVE  /\ Append(q, e) \in Seq(S)
         /\ Append(q, e) # <<>>
         /\ Append(q, e)[Len(Append(q, e))] = e
  OBVIOUS

\* Taking the first event leaves the last one last, or was itself the last.
LEMMA TailLast ==
  ASSUME NEW S, NEW q \in Seq(S), q # <<>>
  PROVE  /\ Head(q) \in S
         /\ Tail(q) \in Seq(S)
         /\ Tail(q) = <<>> => Head(q) = q[Len(q)]
         /\ Tail(q) # <<>> => Tail(q)[Len(Tail(q))] = q[Len(q)]
<1>1. Len(q) \in Nat \ {0} /\ Head(q) = q[1] /\ Head(q) \in S
  OBVIOUS
<1>2. Tail(q) \in Seq(S) /\ Len(Tail(q)) = Len(q) - 1
  OBVIOUS
<1>3. ASSUME Tail(q) = <<>>
      PROVE  Head(q) = q[Len(q)]
  <2>0. Len(<<>>) = 0
    OBVIOUS
  <2>1. Len(Tail(q)) = 0
    BY <2>0, <1>3
  <2>2. Len(q) - 1 = 0
    BY <1>2, <2>1
  <2>3. Len(q) = 1
    BY <1>1, <2>2
  <2> QED
    BY <1>1, <2>3
<1>4. ASSUME Tail(q) # <<>>
      PROVE  Tail(q)[Len(Tail(q))] = q[Len(q)]
  <2>1. Len(Tail(q)) \in Nat \ {0}
    BY <1>2, <1>4
  <2>2. Tail(q)[Len(Tail(q))] = q[Len(Tail(q)) + 1]
    BY <1>1, <1>2, <2>1
  <2>3. Len(Tail(q)) + 1 = Len(q)
    BY <1>1, <1>2
  <2> QED
    BY <2>2, <2>3
<1> QED
  BY <1>1, <1>2, <1>3, <1>4
-----------------------------------------------------------------------------
(* Steps *)

\* Nothing is going on at the start.
LEMMA InitInv == Init => Inv
<1> SUFFICES ASSUME Init PROVE Inv
  OBVIOUS
<1>1. TypeInv
  BY DEF Init, TypeInv, TypeOK, WorkerTypes, Idle, Resource, Object, Kinds,
     ApplySteps, CleanSteps
<1>2. QueueInv
  BY DEF Init, QueueInv, OneWorkerPerKey, Idle
<1>3. CopyInv
  BY DEF Init, CopyInv
<1>4. WorkInv
  BY DEF Init, WorkInv, WorkOf, Idle
<1>5. RestMeansReconciled
  BY DEF Init, RestMeansReconciled, Reconciled, Kinds
<1> QED
  BY <1>1, <1>2, <1>3, <1>4, <1>5 DEF Inv

\* Types as the other steps use them.
LEMMA Types ==
  ASSUME TypeInv
  PROVE  /\ cr \in [Names -> Resource] /\ cache \in [Names -> Resource]
         /\ watch \in [Names -> Seq(Resource)]
         /\ \A w \in Workers : work[w] = [pc |-> work[w].pc, key |-> work[w].key,
                                         cr |-> work[w].cr, fresh |-> work[w].fresh]
         /\ work = [w \in Workers |-> work[w]]
         /\ \A w \in Workers : work[w].key \in Names \cup {None}
  BY DEF TypeInv, TypeOK

\* Workers as records.
Steps == ApplySteps \cup CleanSteps \cup {"idle", "look", "done", "failed"}
Worker == [pc : Steps, key : Names \cup {None}, cr : Resource, fresh : BOOLEAN]

\* Changing two fields of a worker.
LEMMA TwoFields ==
  ASSUME NEW x \in Worker, NEW p, NEW f
  PROVE  [[x EXCEPT !.pc = p] EXCEPT !.fresh = f] =
           [pc |-> p, key |-> x.key, cr |-> x.cr, fresh |-> f]
<1>1. [x EXCEPT !.pc = p] = [pc |-> p, key |-> x.key, cr |-> x.cr, fresh |-> x.fresh]
  BY DEF Worker
<1>2. [[pc |-> p, key |-> x.key, cr |-> x.cr, fresh |-> x.fresh] EXCEPT !.fresh = f] =
        [pc |-> p, key |-> x.key, cr |-> x.cr, fresh |-> f]
  OBVIOUS
<1> QED
  BY <1>1, <1>2

\* Going to another step changes nothing else of a worker.
LEMMA GotoType ==
  ASSUME TypeInv, NEW w \in Workers, NEW p \in Steps, Goto(w, p)
  PROVE  /\ work' \in [Workers -> Worker]
         /\ work'[w] = [pc |-> p, key |-> work[w].key, cr |-> work[w].cr,
                         fresh |-> work[w].fresh]
         /\ \A v \in Workers \ {w} : work'[v] = work[v]
<1>1. work \in [Workers -> Worker]
  BY DEF TypeInv, TypeOK, Worker, Steps
<1>2. [work[w] EXCEPT !.pc = p] \in Worker
  BY <1>1 DEF Worker
<1>3. work' = [work EXCEPT ![w] = [work[w] EXCEPT !.pc = p]]
  BY <1>1 DEF Goto
<1>4. work' \in [Workers -> Worker]
  BY <1>1, <1>2, <1>3
<1> QED
  BY <1>1, <1>3, <1>4 DEF Worker

\* The kinds a worker has dealt with are kinds.
LEMMA AtKinds == \A pc : AppliedAt(pc) \subseteq Kinds /\ CleanedAt(pc) \subseteq Kinds
  BY DEF AppliedAt, CleanedAt, Kinds

\* An event reaches the informer's store and queues the key.
LEMMA ObserveInv ==
  ASSUME Inv, NEW n \in Names, Observe(n)
  PROVE  Inv'
<1>1. watch[n] \in Seq(Resource) /\ watch[n] # <<>>
  BY Types DEF Inv, Observe
<1>2. /\ Head(watch[n]) \in Resource
      /\ Tail(watch[n]) \in Seq(Resource)
      /\ Tail(watch[n]) = <<>> => Head(watch[n]) = watch[n][Len(watch[n])]
      /\ Tail(watch[n]) # <<>> => Tail(watch[n])[Len(Tail(watch[n]))] = watch[n][Len(watch[n])]
  BY <1>1, TailLast
<1>3. TypeInv'
  BY <1>1, <1>2 DEF Inv, TypeInv, TypeOK, WorkerTypes, Observe, history
<1>4. QueueInv'
  BY DEF Inv, QueueInv, OneWorkerPerKey, Observe
<1>5. CopyInv'
  BY <1>1, <1>2, Types DEF Inv, CopyInv, Observe
<1>6. WorkInv'
  BY Types DEF Inv, WorkInv, WorkOf, Again, Observe, history
<1>7. RestMeansReconciled'
  BY Types DEF Inv, RestMeansReconciled, AtRest, Reconciled, ResolvedPort, Observe, history
<1> QED
  BY <1>3, <1>4, <1>5, <1>6, <1>7 DEF Inv

\* The delay of a failed key is over.
LEMMA DelayInv ==
  ASSUME Inv, NEW n \in Names, DelayExpires(n)
  PROVE  Inv'
<1>1. TypeInv'
  BY DEF Inv, TypeInv, TypeOK, WorkerTypes, DelayExpires, history
<1>2. QueueInv'
  BY DEF Inv, QueueInv, OneWorkerPerKey, DelayExpires
<1>3. CopyInv'
  BY DEF Inv, CopyInv, DelayExpires
<1>4. WorkInv'
  BY Types DEF Inv, WorkInv, WorkOf, Again, DelayExpires, history
<1>5. RestMeansReconciled'
  BY Types DEF Inv, RestMeansReconciled, AtRest, Reconciled, ResolvedPort, DelayExpires, history
<1> QED
  BY <1>1, <1>2, <1>3, <1>4, <1>5 DEF Inv

\* A worker takes a key nobody is processing.
LEMMA TakeInv ==
  ASSUME Inv, NEW w \in Workers, NEW n \in Names, Take(w, n)
  PROVE  Inv'
<1>1. /\ work[w].key = None /\ n \notin processing
      /\ work'[w] = [pc |-> "look", key |-> n, cr |-> None, fresh |-> FALSE]
      /\ \A v \in Workers \ {w} : work'[v] = work[v]
      /\ \A v \in Workers \ {w} : work[v].key # n
  BY Types DEF Inv, TypeInv, WorkerTypes, QueueInv, Take, Get, Idle
<1>2. TypeInv'
  <2>1. TypeOK'
    BY DEF Inv, TypeInv, TypeOK, Take, Get, Idle, Resource, history
  <2> QED
    BY <1>1, <2>1 DEF Inv, TypeInv, WorkerTypes, Take, ApplySteps, CleanSteps
<1>3. QueueInv'
  BY <1>1 DEF Inv, QueueInv, OneWorkerPerKey, Take, Get
<1>4. CopyInv'
  BY DEF Inv, CopyInv, Take
<1>5. WorkInv'
  BY <1>1, Types DEF Inv, WorkInv, WorkOf, Again, Take, Get, history, AppliedAt, CleanedAt
<1>6. RestMeansReconciled'
  <2> SUFFICES ASSUME NEW m \in Names, AtRest(m)' PROVE Reconciled(m)'
    BY DEF RestMeansReconciled
  <2>1. m # n
    BY <1>1 DEF AtRest
  <2>2. AtRest(m)
    BY <1>1, <2>1 DEF AtRest, Take, Get
  <2> QED
    BY <2>2 DEF Inv, RestMeansReconciled, Reconciled, ResolvedPort, Take, history
<1> QED
  BY <1>2, <1>3, <1>4, <1>5, <1>6 DEF Inv

\* A worker has finished with a key.
LEMMA DoneInv ==
  ASSUME Inv, NEW w \in Workers, Done(w)
  PROVE  Inv'
<1> DEFINE n == work[w].key
           c == work[w].cr
<1>1. /\ n \in Names /\ work'[w] = Idle
      /\ \A v \in Workers \ {w} : work'[v] = work[v] /\ work[v].key # n
  BY Types DEF Inv, TypeInv, WorkerTypes, QueueInv, OneWorkerPerKey, Done
<1>2. TypeInv'
  <2>1. TypeOK'
    BY <1>1 DEF Inv, TypeInv, TypeOK, Done, Requeue, Idle, Resource, history
  <2> QED
    BY <1>1, <2>1 DEF Inv, TypeInv, WorkerTypes, Done, Idle, ApplySteps, CleanSteps
<1>3. QueueInv'
  BY <1>1 DEF Inv, QueueInv, OneWorkerPerKey, Done, Idle
<1>4. CopyInv'
  BY DEF Inv, CopyInv, Done
<1>5. WorkInv'
  BY <1>1, Types DEF Inv, WorkInv, WorkOf, Again, Done, Idle, history
<1>6. RestMeansReconciled'
  <2> SUFFICES ASSUME NEW m \in Names, AtRest(m)' PROVE Reconciled(m)'
    BY DEF RestMeansReconciled
  <2>1. CASE m # n
    <3>1. AtRest(m)
      BY <1>1, <2>1 DEF AtRest, Done, Requeue
    <3> QED
      BY <3>1 DEF Inv, RestMeansReconciled, Reconciled, ResolvedPort, Done, history
  <2>2. CASE m = n
    <3>1. /\ watch[n] = <<>> /\ n \notin dirty /\ work[w].pc = "done"
      BY <1>1, <2>2 DEF AtRest, Done, Requeue
    <3>2. c = cache[n] /\ cache[n] = cr[n]
      BY <1>1, <3>1 DEF Inv, WorkInv, WorkOf, CopyInv
    <3>3. ASSUME c # None, Converts(c.spec)
          PROVE  /\ \A k \in Kinds : objects[k][n] = Desired(k, c.spec)
                 /\ n \in unreported \/ cr[n].status = Service(c.spec).port
      BY <1>1, <3>1, <3>3 DEF Inv, WorkInv, WorkOf, AppliedAt, Again
    <3>4. ASSUME c = None
          PROVE  \A k \in Kinds : objects[k][n] = None \/ <<k, n>> \in leaked
      BY <1>1, <3>1, <3>4 DEF Inv, WorkInv, WorkOf, CleanedAt
    <3>5. ASSUME c # None, Converts(c.spec)
          PROVE  n \in unreported \/ ResolvedPort(n) = objects["service"][n].port
      BY <3>2, <3>3, <3>5 DEF ResolvedPort, Desired, Kinds
    <3>6. Reconciled(n)
      BY <3>2, <3>3, <3>4, <3>5 DEF Reconciled
    <3> QED
      BY <2>2, <3>6 DEF Reconciled, ResolvedPort, Done, history
  <2> QED
    BY <2>1, <2>2
<1> QED
  BY <1>2, <1>3, <1>4, <1>5, <1>6 DEF Inv

\* A worker looks at the informer's copy of the resource.
LEMMA LookInv ==
  ASSUME Inv, NEW w \in Workers, Look(w)
  PROVE  Inv'
<1> DEFINE n == work[w].key
           c == cache[n]
<1>1. /\ n \in Names /\ c \in Resource
      /\ \A v \in Workers \ {w} : work'[v] = work[v] /\ work[v].key # n
      /\ work'[w].key = n /\ work'[w].cr = c /\ work'[w].fresh = work[w].fresh
      /\ work'[w].pc = IF c = None THEN "-deployment"
                       ELSE IF Converts(c.spec) THEN "deployment" ELSE "done"
  BY Types DEF Inv, TypeInv, WorkerTypes, QueueInv, OneWorkerPerKey, Look
<1>0. UNCHANGED <<cr, watch, cache, dirty, processing, delayed, objects, leaked, unreported>>
  BY DEF Look, queue, history
<1>2. TypeInv'
  <2>0. work' \in [Workers -> Worker]
    <3>1. work \in [Workers -> Worker]
      BY DEF Inv, TypeInv, TypeOK, Worker, Steps
    <3>2. work' = [work EXCEPT ![w] = work'[w]]
      BY <3>1 DEF Look
    <3>3. work'[w] \in Worker
      BY <1>1, <3>1 DEF Look, Worker, Steps, ApplySteps, CleanSteps
    <3> QED
      BY ONLY <3>1, <3>2, <3>3, w \in Workers
  <2>1. TypeOK'
    BY <1>0, <2>0 DEF Inv, TypeInv, TypeOK, Look, Worker, Steps
  <2> QED
    BY <1>1, <1>0, <2>1 DEF Inv, TypeInv, WorkerTypes, ApplySteps, CleanSteps
<1>3. QueueInv'
  BY <1>1, <1>0 DEF Inv, QueueInv, OneWorkerPerKey
<1>4. CopyInv'
  BY <1>0 DEF Inv, CopyInv
<1>5. WorkInv'
  BY <1>1, Types DEF Inv, WorkInv, Again, Look, queue, history, AppliedAt, CleanedAt
<1>6. RestMeansReconciled'
  <2> SUFFICES ASSUME NEW m \in Names, AtRest(m)' PROVE Reconciled(m)'
    BY DEF RestMeansReconciled
  <2>1. AtRest(m)
    BY <1>1, <1>0 DEF AtRest
  <2> QED
    BY <1>0, <2>1 DEF Inv, RestMeansReconciled, Reconciled, ResolvedPort
<1> QED
  BY <1>2, <1>3, <1>4, <1>5, <1>6 DEF Inv

\* One object is applied, or the call fails.
LEMMA ApplyInv ==
  ASSUME Inv, NEW w \in Workers, Apply(w)
  PROVE  Inv'
<1> DEFINE n == work[w].key
           c == work[w].cr
           k == work[w].pc
<1>1. /\ n \in Names /\ k \in Kinds /\ c # None /\ c \in Resource /\ Converts(c.spec)
      /\ c.spec \in Specs
      /\ \A v \in Workers \ {w} : work'[v] = work[v] /\ work[v].key # n
      /\ work'[w].key = n /\ work'[w].cr = c /\ work'[w].fresh = work[w].fresh
  BY Types DEF Inv, TypeInv, TypeOK, WorkerTypes, QueueInv, OneWorkerPerKey, Apply, Goto,
     Kinds, ApplySteps, Resource
<1>0. UNCHANGED <<cr, watch, cache, dirty, processing, delayed, changes, leaked, unreported>>
  BY DEF Apply, queue, history
<1>2. /\ k = "deployment" \/ k = "service" \/ k = "networkpolicy"
      /\ \/ work'[w].pc = AfterApply(k) /\ objects' = Applied(k, n, c.spec)
         \/ work'[w].pc = "failed" /\ objects' = objects
  <2>1. k = "deployment" \/ k = "service" \/ k = "networkpolicy"
    BY <1>1 DEF Kinds
  <2>2. ASSUME NEW p, Goto(w, p) PROVE work'[w].pc = p
    BY <2>2, Types DEF Inv, Goto
  <2> QED
    BY <2>1, <2>2 DEF Apply
<1>3. \A j \in Kinds : \A m \in Names :
        objects'[j][m] = IF work'[w].pc # "failed" /\ j = k /\ m = n THEN Desired(k, c.spec)
                         ELSE objects[j][m]
  BY <1>1, <1>2 DEF Inv, TypeInv, Applied, AfterApply
<1>4. objects' \in [Kinds -> [Names -> Object \cup {None}]]
  <2>1. Desired(k, c.spec) \in Object
    BY <1>1 DEF Object
  <2> QED
    BY <1>1, <1>2, <2>1 DEF Inv, TypeInv, Applied
<1>5. TypeInv'
  <2>1. work' \in [Workers -> Worker]
    <3>1. AfterApply(k) \in Steps /\ "failed" \in Steps
      BY <1>2 DEF AfterApply, ApplySteps, Steps
    <3> QED
      BY <3>1, GotoType DEF Inv, Apply
  <2>2. \A j \in Kinds : \A m \in Names :
          objects'[j][m] \in {Desired(j, s) : s \in Specs} \cup {None}
    BY <1>1, <1>3 DEF Inv, TypeInv, TypeOK
  <2>3. TypeOK'
    BY <2>1, <2>2 DEF Inv, TypeInv, TypeOK, Apply, NoteFault, Worker, Steps, queue, history
  <2>4. WorkerTypes'
    BY <1>1, <1>2 DEF Inv, TypeInv, WorkerTypes, Apply, ApplySteps, CleanSteps, AfterApply
  <2> QED
    BY <1>4, <2>3, <2>4 DEF TypeInv
<1>6. QueueInv'
  BY <1>0, <1>1 DEF Inv, QueueInv, OneWorkerPerKey
<1>7. CopyInv'
  BY <1>0 DEF Inv, CopyInv
<1>8. WorkInv'
  <2> SUFFICES ASSUME NEW v \in Workers, work'[v].key # None
               PROVE  WorkOf(v)'
    BY DEF WorkInv
  <2>1. CASE v # w
    <3>1. work'[v] = work[v] /\ work[v].key # n /\ work[v].key \in Names
      BY <1>1, <2>1, Types DEF Inv
    <3>2. \A j \in Kinds : objects'[j][work[v].key] = objects[j][work[v].key]
      BY <1>3, <3>1
    <3>3. AppliedAt(work[v].pc) \subseteq Kinds /\ CleanedAt(work[v].pc) \subseteq Kinds
      BY AtKinds
    <3> QED
      BY <1>0, <3>1, <3>2, <3>3 DEF Inv, WorkInv, WorkOf, Again
  <2>2. CASE v = w
    <3>1. n \in dirty \/ c = cache[n]
      BY <1>1, <1>2 DEF Inv, WorkInv, WorkOf
    <3>2. \A j \in AppliedAt(k) : objects[j][n] = Desired(j, c.spec)
      BY <1>1 DEF Inv, WorkInv, WorkOf
    <3>3. CASE work'[w].pc = "failed"
      BY <1>0, <1>1, <2>2, <3>1, <3>3 DEF WorkOf, AppliedAt
    <3>4. CASE work'[w].pc = AfterApply(k) /\ work'[w].pc # "failed"
      <4>1. AppliedAt(AfterApply(k)) = AppliedAt(k) \cup {k} /\ AppliedAt(k) \subseteq Kinds
        BY <1>2 DEF AppliedAt, AfterApply, Kinds
      <4>2. \A j \in AppliedAt(AfterApply(k)) : objects'[j][n] = Desired(j, c.spec)
        BY <1>1, <1>3, <3>2, <3>4, <4>1
      <4>3. work'[w].pc # "put" /\ work'[w].pc # "done"
        BY <1>2, <3>4 DEF AfterApply
      <4> QED
        BY <1>0, <1>1, <2>2, <3>1, <3>4, <4>2, <4>3 DEF WorkOf
    <3> QED
      BY <1>2, <3>3, <3>4
  <2> QED
    BY <2>1, <2>2
<1>9. RestMeansReconciled'
  <2> SUFFICES ASSUME NEW m \in Names, AtRest(m)' PROVE Reconciled(m)'
    BY DEF RestMeansReconciled
  <2>1. AtRest(m) /\ m # n
    BY <1>0, <1>1 DEF AtRest
  <2>2. \A j \in Kinds : objects'[j][m] = objects[j][m]
    BY <1>3, <2>1
  <2> QED
    BY <1>0, <2>1, <2>2 DEF Inv, RestMeansReconciled, Reconciled, ResolvedPort, Kinds
<1> QED
  BY <1>5, <1>6, <1>7, <1>8, <1>9 DEF Inv

\* One object is deleted, or the call fails and the object counts as leaked.
LEMMA CleanInv ==
  ASSUME Inv, NEW w \in Workers, Clean(w)
  PROVE  Inv'
<1> DEFINE n == work[w].key
           p == work[w].pc
           k == CleanKind(p)
<1>0. UNCHANGED <<cr, watch, cache, dirty, processing, delayed, changes, unreported>>
  BY DEF Clean, queue
<1>1. /\ p = "-deployment" \/ p = "-service" \/ p = "-networkpolicy"
      /\ k \in Kinds /\ AfterClean(p) \in Steps
  BY DEF Clean, CleanSteps, CleanKind, AfterClean, Kinds, Steps
<1>2. /\ n \in Names /\ work[w].cr = None
      /\ work'[w] = [pc |-> AfterClean(p), key |-> n, cr |-> None, fresh |-> work[w].fresh]
      /\ \A v \in Workers \ {w} : work'[v] = work[v] /\ work[v].key # n
      /\ work' \in [Workers -> Worker]
  <2>1. n \in Names /\ work[w].cr = None
    BY <1>1, Types DEF Inv, TypeInv, WorkerTypes, CleanSteps
  <2>2. \A v \in Workers \ {w} : work[v].key # n
    BY <2>1 DEF Inv, QueueInv, OneWorkerPerKey
  <2>3. Goto(w, AfterClean(p))
    BY DEF Clean
  <2> QED
    BY <1>1, <2>1, <2>2, <2>3, GotoType DEF Inv
<1>3. \A j \in Kinds : \A m \in Names :
        /\ j # k \/ m # n =>
             /\ objects'[j][m] = objects[j][m]
             /\ <<j, m>> \in leaked' <=> <<j, m>> \in leaked
        /\ objects'[k][n] = None \/ <<k, n>> \in leaked'
        /\ objects'[j][m] = objects[j][m] \/ objects'[j][m] = None
  <2>1. objects \in [Kinds -> [Names -> Object \cup {None}]]
    BY DEF Inv, TypeInv
  <2>2. CASE objects' = [objects EXCEPT ![k][n] = None] /\ leaked' = leaked \ {<<k, n>>}
    BY <1>1, <1>2, <2>1, <2>2
  <2>3. CASE objects' = objects /\ leaked' = leaked \cup {<<k, n>>}
    BY <2>3
  <2> QED
    BY <2>2, <2>3 DEF Clean
<1>4. objects' \in [Kinds -> [Names -> Object \cup {None}]]
  BY <1>1, <1>2 DEF Inv, TypeInv, Clean
<1>5. TypeInv'
  <2>1. \A j \in Kinds : \A m \in Names :
          objects'[j][m] \in {Desired(j, s) : s \in Specs} \cup {None}
    BY <1>3 DEF Inv, TypeInv, TypeOK
  <2>2. leaked' \subseteq Kinds \X Names
    BY <1>1, <1>2 DEF Inv, TypeInv, TypeOK, Clean
  <2>3. faults' \in 0 .. MaxFaults
    BY DEF Inv, TypeInv, TypeOK, Clean, NoteFault
  <2>4. TypeOK'
    BY <1>0, <1>2, <2>1, <2>2, <2>3 DEF Inv, TypeInv, TypeOK, Worker, Steps
  <2>5. WorkerTypes'
    BY <1>0, <1>1, <1>2 DEF Inv, TypeInv, WorkerTypes, ApplySteps, CleanSteps, AfterClean
  <2> QED
    BY <1>4, <2>4, <2>5 DEF TypeInv
<1>6. QueueInv'
  BY <1>0, <1>2 DEF Inv, QueueInv, OneWorkerPerKey
<1>7. CopyInv'
  BY <1>0 DEF Inv, CopyInv
<1>8. WorkInv'
  <2> SUFFICES ASSUME NEW v \in Workers, work'[v].key # None
               PROVE  WorkOf(v)'
    BY DEF WorkInv
  <2>1. CASE v # w
    <3>1. work'[v] = work[v] /\ work[v].key # n /\ work[v].key \in Names
      BY <1>2, <2>1, Types DEF Inv
    <3>2. \A j \in Kinds : /\ objects'[j][work[v].key] = objects[j][work[v].key]
                           /\ <<j, work[v].key>> \in leaked' <=> <<j, work[v].key>> \in leaked
      BY <1>3, <3>1
    <3>3. AppliedAt(work[v].pc) \subseteq Kinds /\ CleanedAt(work[v].pc) \subseteq Kinds
      BY AtKinds
    <3>4. WorkOf(v)
      BY <3>1 DEF Inv, WorkInv
    <3> QED
      BY ONLY <1>0, <3>1, <3>2, <3>3, <3>4 DEF WorkOf, Again
  <2>2. CASE v = w
    <3>1. n \in dirty \/ None = cache[n]
      BY <1>1, <1>2 DEF Inv, WorkInv, WorkOf
    <3>2. \A j \in CleanedAt(p) : objects[j][n] = None \/ <<j, n>> \in leaked
      BY <1>2 DEF Inv, WorkInv, WorkOf
    <3>3. CleanedAt(AfterClean(p)) = CleanedAt(p) \cup {k} /\ CleanedAt(p) \subseteq Kinds
      BY <1>1 DEF CleanedAt, CleanKind, AfterClean, Kinds
    <3>4. \A j \in CleanedAt(AfterClean(p)) : objects'[j][n] = None \/ <<j, n>> \in leaked'
      <4> SUFFICES ASSUME NEW j \in CleanedAt(AfterClean(p))
                   PROVE  objects'[j][n] = None \/ <<j, n>> \in leaked'
        OBVIOUS
      <4>1. CASE j = k
        BY <1>1, <1>2, <1>3, <4>1
      <4>2. CASE j # k
        <5>1. j \in CleanedAt(p) /\ j \in Kinds
          BY <3>3, <4>2
        <5> QED
          BY <1>2, <1>3, <3>2, <4>2, <5>1
      <4> QED
        BY <4>1, <4>2
    <3>5. AfterClean(p) # "put"
      BY <1>1 DEF AfterClean
    <3> QED
      BY <1>0, <1>2, <2>2, <3>1, <3>4, <3>5 DEF WorkOf
  <2> QED
    BY <2>1, <2>2
<1>9. RestMeansReconciled'
  <2> SUFFICES ASSUME NEW m \in Names, AtRest(m)' PROVE Reconciled(m)'
    BY DEF RestMeansReconciled
  <2>1. AtRest(m) /\ m # n
    BY <1>0, <1>2 DEF AtRest
  <2>2. \A j \in Kinds : /\ objects'[j][m] = objects[j][m]
                         /\ <<j, m>> \in leaked' <=> <<j, m>> \in leaked
    BY <1>3, <2>1
  <2> QED
    BY <1>0, <2>1, <2>2 DEF Inv, RestMeansReconciled, Reconciled, ResolvedPort, Kinds
<1> QED
  BY <1>5, <1>6, <1>7, <1>8, <1>9 DEF Inv

\* The new process starts from what exists.
LEMMA RestartInv ==
  ASSUME Inv, Restart
  PROVE  Inv'
<1>1. \A w \in Workers : work'[w] = Idle
  BY DEF Restart
<1>2. TypeInv'
  <2>1. TypeOK'
    BY DEF Inv, TypeInv, TypeOK, Restart, NoteFault, Idle, Resource
  <2> QED
    BY <1>1, <2>1 DEF Inv, TypeInv, WorkerTypes, Restart, Idle, ApplySteps, CleanSteps
<1>3. QueueInv'
  BY <1>1 DEF QueueInv, OneWorkerPerKey, Idle
<1>4. CopyInv'
  BY DEF CopyInv, Restart
<1>5. WorkInv'
  BY <1>1 DEF WorkInv, Idle
<1>6. RestMeansReconciled'
  <2> SUFFICES ASSUME NEW m \in Names, AtRest(m)' PROVE Reconciled(m)'
    BY DEF RestMeansReconciled
  <2>1. cr[m] = None
    BY DEF AtRest, Restart
  <2>2. \A k \in Kinds : objects[k][m] = None \/ <<k, m>> \in leaked'
    BY <2>1 DEF Restart
  <2> QED
    BY <2>1, <2>2 DEF Reconciled, Restart
<1> QED
  BY <1>2, <1>3, <1>4, <1>5, <1>6 DEF Inv

\* A resource is replaced: every worker that has it will have to look again.
LEMMA SetInv ==
  ASSUME Inv, NEW n \in Names, NEW new \in Resource,
         NEW workers \in [Workers -> Worker], SetCR(n, new, workers),
         \A w \in Workers : workers[w] = work[w]
                           \/ /\ work[w].key = n /\ work[w].pc = "put"
                              /\ workers[w] = [work[w] EXCEPT !.pc = "done"],
         UNCHANGED <<cache, dirty, processing, delayed, objects, leaked>>,
         changes' \in 0 .. MaxChanges, faults' \in 0 .. MaxFaults,
         unreported' \subseteq Names,
         \A m \in Names \ {n} : m \in unreported' <=> m \in unreported
  PROVE  Inv'
<1>1. /\ \A m \in Names \ {n} : cr'[m] = cr[m] /\ watch'[m] = watch[m]
      /\ watch'[n] # <<>> /\ watch'[n] \in Seq(Resource)
      /\ watch'[n][Len(watch'[n])] = new /\ cr'[n] = new
      /\ watch' \in [Names -> Seq(Resource)] /\ cr' \in [Names -> Resource]
  <2>1. cr \in [Names -> Resource] /\ watch \in [Names -> Seq(Resource)]
    BY DEF Inv, TypeInv, TypeOK
  <2>2. /\ Append(watch[n], new) \in Seq(Resource) /\ Append(watch[n], new) # <<>>
        /\ Append(watch[n], new)[Len(Append(watch[n], new))] = new
    BY <2>1, AppendLast
  <2>3. watch'[n] = Append(watch[n], new)
    BY <2>1 DEF SetCR
  <2> QED
    BY <2>1, <2>2, <2>3 DEF SetCR
<1>2. ASSUME NEW w \in Workers
      PROVE  /\ work'[w].key = work[w].key /\ work'[w].cr = work[w].cr
             /\ work[w].key # n => work'[w] = work[w]
             /\ work[w].key = n => ~ work'[w].fresh
             /\ \/ work'[w].pc = work[w].pc
                \/ work[w].pc = "put" /\ work'[w].pc = "done"
             /\ work'[w] \in Worker
  <2>1. workers[w] \in Worker /\ work[w] \in Worker
    BY DEF Inv, TypeInv, TypeOK, Worker, Steps
  <2>2. /\ workers[w].key = work[w].key /\ workers[w].cr = work[w].cr
        /\ work[w].key # n => workers[w] = work[w]
        /\ \/ workers[w].pc = work[w].pc
           \/ work[w].pc = "put" /\ workers[w].pc = "done"
    <3>1. \/ workers[w] = work[w]
          \/ /\ work[w].key = n /\ work[w].pc = "put"
             /\ workers[w] = [work[w] EXCEPT !.pc = "done"]
      OBVIOUS
    <3> QED
      <4>1. CASE workers[w] = work[w]
        BY ONLY <4>1
      <4>2. CASE /\ work[w].key = n /\ work[w].pc = "put"
                 /\ workers[w] = [work[w] EXCEPT !.pc = "done"]
        BY ONLY <2>1, <4>2 DEF Worker
      <4> QED
        BY ONLY <3>1, <4>1, <4>2
  <2>3. work'[w] = IF workers[w].key = n THEN [workers[w] EXCEPT !.fresh = FALSE] ELSE workers[w]
    BY DEF SetCR
  <2> QED
    BY <2>1, <2>2, <2>3 DEF Worker
<1>3. TypeInv'
  <2>1. work' \in [Workers -> Worker]
    <3>1. work' = [w \in Workers |-> work'[w]]
      BY DEF SetCR
    <3> QED
      BY <1>2, <3>1
  <2>2. TypeOK'
    BY <1>1, <2>1 DEF Inv, TypeInv, TypeOK, Worker, Steps
  <2>3. ASSUME NEW w \in Workers
        PROVE  /\ work'[w].pc = "idle" <=> work'[w].key = None
               /\ work'[w].pc \in ApplySteps =>
                    work'[w].cr # None /\ Converts(work'[w].cr.spec)
               /\ work'[w].pc \in CleanSteps => work'[w].cr = None
    BY <1>2 DEF Inv, TypeInv, WorkerTypes, ApplySteps, CleanSteps
  <2>4. ASSUME NEW w \in Workers, work'[w].pc = "put", work'[w].fresh
        PROVE  cr'[work'[w].key] # None
    <3>1. work[w].key # n /\ work'[w] = work[w] /\ work[w].key \in Names
      BY <1>2, <2>4, Types DEF Inv, TypeInv, WorkerTypes
    <3> QED
      BY <1>1, <2>4, <3>1 DEF Inv, TypeInv, WorkerTypes
  <2> QED
    BY <2>2, <2>3, <2>4 DEF Inv, TypeInv, WorkerTypes
<1>4. QueueInv'
  BY <1>2 DEF Inv, QueueInv, OneWorkerPerKey
<1>5. CopyInv'
  BY <1>1 DEF Inv, CopyInv
<1>6. WorkInv'
  <2> SUFFICES ASSUME NEW v \in Workers, work'[v].key # None
               PROVE  WorkOf(v)'
    BY DEF WorkInv
  <2>1. WorkOf(v) /\ work[v].key \in Names
    BY <1>2, Types DEF Inv, WorkInv
  <2>2. CASE work[v].key # n
    <3>1. PICK m : m = work[v].key
      OBVIOUS
    <3>2. work'[v] = work[v] /\ cr'[m] = cr[m] /\ watch'[m] = watch[m]
      BY <1>1, <1>2, <2>1, <2>2, <3>1
    <3>3. /\ m \in unreported' <=> m \in unreported
          /\ UNCHANGED <<cache, dirty, objects, leaked>>
      BY <2>1, <2>2, <3>1
    <3> QED
      BY ONLY <2>1, <3>1, <3>2, <3>3 DEF WorkOf, Again
  <2>3. CASE work[v].key = n
    <3>1. Again(n)'
      BY <1>1 DEF Again
    <3>2. AppliedAt("put") = AppliedAt("done")
      BY DEF AppliedAt
    <3>3. work[v].pc = "put" => work[v].cr # None
      BY DEF Inv, TypeInv, WorkerTypes, ApplySteps
    <3> QED
      BY <1>2, <2>1, <2>3, <3>1, <3>2, <3>3 DEF WorkOf
  <2> QED
    BY <2>2, <2>3
<1>7. RestMeansReconciled'
  <2> SUFFICES ASSUME NEW m \in Names, AtRest(m)' PROVE Reconciled(m)'
    BY DEF RestMeansReconciled
  <2>1. m # n
    BY <1>1 DEF AtRest
  <2>2. AtRest(m)
    BY <1>1, <1>2, <2>1 DEF AtRest
  <2> QED
    <3>1. Reconciled(m)
      BY <2>2 DEF Inv, RestMeansReconciled
    <3>2. cr'[m] = cr[m] /\ (m \in unreported' <=> m \in unreported)
      BY <1>1, <2>1
    <3> QED
      BY <3>1, <3>2 DEF Reconciled, ResolvedPort
<1> QED
  BY <1>3, <1>4, <1>5, <1>6, <1>7 DEF Inv

\* A resource is applied or deleted.
LEMMA ChangeInv ==
  ASSUME Inv, NEW n \in Names, NEW s \in Specs \cup {None}, ChangeCR(n, s)
  PROVE  Inv'
<1>1. work \in [Workers -> Worker] /\ cr[n] \in Resource
  BY DEF Inv, TypeInv, TypeOK, Worker, Steps
<1>2. /\ UNCHANGED <<cache, dirty, processing, delayed, objects, leaked>>
      /\ changes' \in 0 .. MaxChanges /\ faults' \in 0 .. MaxFaults
      /\ unreported' = unreported /\ unreported' \subseteq Names
  BY DEF Inv, TypeInv, TypeOK, ChangeCR, queue, history
<1>3. PICK new \in Resource : SetCR(n, new, work)
  <2>1. CASE s # None
    <3> DEFINE new == [spec |-> s, status |-> IF cr[n] = None THEN None ELSE cr[n].status]
    <3>1. new \in Resource
      BY <1>1, <2>1 DEF Resource
    <3> QED
      BY <2>1, <3>1 DEF ChangeCR
  <2>2. CASE s = None
    BY <2>2 DEF ChangeCR, Resource
  <2> QED
    BY <2>1, <2>2
<1> QED
  BY <1>1, <1>2, <1>3, SetInv

\* A worker at updateStatus goes on without changing the resource.
LEMMA StayInv ==
  ASSUME Inv, NEW w \in Workers, work[w].pc \in {"get", "put"},
         NEW p \in {"put", "done"}, NEW f \in BOOLEAN,
         work' = [work EXCEPT ![w].pc = p, ![w].fresh = f],
         UNCHANGED <<cr, watch, cache, dirty, processing, delayed, objects, changes, leaked>>,
         faults' \in 0 .. MaxFaults, unreported' \subseteq Names,
         \A m \in Names \ {work[w].key} : m \in unreported' <=> m \in unreported,
         p = "put" => f /\ cr[work[w].key] # None,
         p = "done" => \/ work[w].key \in unreported' \/ Again(work[w].key)
                       \/ work[w].key \in dirty
                       \/ cr[work[w].key].status = Service(work[w].cr.spec).port
  PROVE  Inv'
<1> DEFINE n == work[w].key
           c == work[w].cr
<1>1. /\ n \in Names /\ c # None /\ Converts(c.spec)
      /\ work'[w] = [pc |-> p, key |-> n, cr |-> c, fresh |-> f]
      /\ \A v \in Workers \ {w} : work'[v] = work[v] /\ work[v].key # n
      /\ work' \in [Workers -> Worker]
  <2>1. work \in [Workers -> Worker] /\ work[w] \in Worker
    BY DEF Inv, TypeInv, TypeOK, Worker, Steps
  <2>2. n \in Names /\ c # None /\ Converts(c.spec)
    BY <2>1 DEF Inv, TypeInv, WorkerTypes, ApplySteps, Worker
  <2>3. \A v \in Workers \ {w} : work[v].key # n
    BY <2>2 DEF Inv, QueueInv, OneWorkerPerKey
  <2>4. [pc |-> p, key |-> n, cr |-> c, fresh |-> f] \in Worker
    BY <2>1 DEF Worker, Steps, ApplySteps
  <2>5. work' = [work EXCEPT ![w] = [pc |-> p, key |-> n, cr |-> c, fresh |-> f]]
    <3>1. work' = [work EXCEPT ![w] = [[work[w] EXCEPT !.pc = p] EXCEPT !.fresh = f]]
      BY <2>1
    <3>2. [[work[w] EXCEPT !.pc = p] EXCEPT !.fresh = f] =
            [pc |-> p, key |-> n, cr |-> c, fresh |-> f]
      BY <2>1, TwoFields
    <3> QED
      BY <3>1, <3>2
  <2>6. work' \in [Workers -> Worker]
    BY <2>1, <2>4, <2>5
  <2> QED
    BY <2>1, <2>2, <2>3, <2>5, <2>6
<1>2. TypeInv'
  <2>1. TypeOK'
    BY <1>1 DEF Inv, TypeInv, TypeOK, Worker, Steps
  <2>2. WorkerTypes'
    BY <1>1 DEF Inv, TypeInv, WorkerTypes, ApplySteps, CleanSteps
  <2> QED
    BY <2>1, <2>2 DEF Inv, TypeInv
<1>3. QueueInv'
  BY <1>1 DEF Inv, QueueInv, OneWorkerPerKey
<1>4. CopyInv'
  BY DEF Inv, CopyInv
<1>5. WorkInv'
  <2> SUFFICES ASSUME NEW v \in Workers, work'[v].key # None
               PROVE  WorkOf(v)'
    BY DEF WorkInv
  <2>1. CASE v # w
    <3>1. work'[v] = work[v] /\ work[v].key \in Names \ {n} /\ WorkOf(v)
      BY <1>1, <2>1, Types DEF Inv, WorkInv
    <3>2. work[v].key \in unreported' <=> work[v].key \in unreported
      BY <3>1
    <3> QED
      <4>1. WorkOf(v)
        BY <3>1
      <4>2. Again(work[v].key)' <=> Again(work[v].key)
        BY <3>1 DEF Again
      <4> QED
        BY ONLY <3>1, <3>2, <4>1, <4>2,
                UNCHANGED <<cr, watch, cache, dirty, processing, delayed, objects, changes, leaked>>
        DEF WorkOf
  <2>2. CASE v = w
    <3>1. WorkOf(w)
      BY <1>1 DEF Inv, WorkInv
    <3>2. AppliedAt(p) = AppliedAt(work[w].pc)
      BY DEF AppliedAt
    <3> QED
      BY <1>1, <2>2, <3>1, <3>2 DEF WorkOf, Again
  <2> QED
    BY <2>1, <2>2
<1>6. RestMeansReconciled'
  <2> SUFFICES ASSUME NEW m \in Names, AtRest(m)' PROVE Reconciled(m)'
    BY DEF RestMeansReconciled
  <2>1. AtRest(m) /\ m # n
    BY <1>1 DEF AtRest
  <2> QED
    BY <2>1 DEF Inv, RestMeansReconciled, Reconciled, ResolvedPort
<1> QED
  BY <1>2, <1>3, <1>4, <1>5, <1>6 DEF Inv

\* Writing what is there already changes nothing.
LEMMA SameFresh ==
  ASSUME work \in [Workers -> Worker], NEW w \in Workers, Goto(w, "done")
  PROVE  work' = [work EXCEPT ![w].pc = "done", ![w].fresh = work[w].fresh]
<1>1. work[w] \in Worker
  OBVIOUS
<1>2. [work[w] EXCEPT !.pc = "done"] = [[work[w] EXCEPT !.pc = "done"] EXCEPT !.fresh = work[w].fresh]
  BY <1>1 DEF Worker
<1> QED
  BY <1>2 DEF Goto

\* The resource is read before its status is written.
LEMMA GetInv ==
  ASSUME Inv, NEW w \in Workers, GetStatus(w)
  PROVE  Inv'
<1> DEFINE n == work[w].key
<1>1. /\ work[w].pc = "get" /\ n \in Names /\ work[w].cr # None
      /\ work[w].fresh \in BOOLEAN /\ work \in [Workers -> Worker]
  BY Types DEF Inv, TypeInv, TypeOK, WorkerTypes, GetStatus, ApplySteps, Worker, Steps
<1>2. UNCHANGED <<cr, watch, cache, dirty, processing, delayed, objects, changes, leaked>>
  BY DEF GetStatus, queue
<1>3. faults' \in 0 .. MaxFaults /\ unreported' \subseteq Names
  BY <1>1 DEF Inv, TypeInv, TypeOK, GetStatus, NoteFault
<1>4. ASSUME Goto(w, "done")
      PROVE  work' = [work EXCEPT ![w].pc = "done", ![w].fresh = work[w].fresh]
  BY <1>1, <1>4, SameFresh
<1>5. CASE /\ cr[n] # None /\ unreported' = unreported
           /\ work' = [work EXCEPT ![w].pc = "put", ![w].fresh = TRUE]
  BY <1>1, <1>2, <1>3, <1>5, StayInv
<1>6. CASE cr[n] = None /\ Goto(w, "done") /\ unreported' = unreported
  <2>1. Again(n)
    BY <1>1, <1>6 DEF Inv, WorkInv, WorkOf, CopyInv, Again
  <2> QED
    BY <1>1, <1>2, <1>3, <1>4, <1>6, <2>1, StayInv
<1>7. CASE Goto(w, "done") /\ unreported' = unreported \cup {n}
  BY <1>1, <1>2, <1>3, <1>4, <1>7, StayInv
<1> QED
  BY <1>5, <1>6, <1>7 DEF GetStatus

\* The status is written, refused because the resource has changed, or lost.
LEMMA PutInv ==
  ASSUME Inv, NEW w \in Workers, PutStatus(w)
  PROVE  Inv'
<1> DEFINE n == work[w].key
           port == Service(work[w].cr.spec).port
           done == [work EXCEPT ![w].pc = "done"]
<1>1. /\ work[w].pc = "put" /\ n \in Names /\ work[w].cr # None
      /\ work[w].fresh \in BOOLEAN /\ work \in [Workers -> Worker]
      /\ work[w].cr \in Resource /\ WorkOf(w)
      /\ \A v \in Workers \ {w} : work[v].key # n
  BY Types DEF Inv, TypeInv, TypeOK, WorkerTypes, PutStatus, ApplySteps, Worker, Steps,
     WorkInv, QueueInv, OneWorkerPerKey
<1>2. UNCHANGED <<cache, dirty, processing, delayed, objects, changes, leaked>>
  BY DEF PutStatus, queue
<1>3. faults' \in 0 .. MaxFaults /\ unreported' \subseteq Names /\ changes' \in 0 .. MaxChanges
  BY <1>1 DEF Inv, TypeInv, TypeOK, PutStatus, NoteFault
<1>4. ASSUME work' = done
      PROVE  work' = [work EXCEPT ![w].pc = "done", ![w].fresh = work[w].fresh]
  BY <1>1, <1>4, SameFresh DEF Goto
<1>5. CASE /\ work[w].fresh /\ unreported' = unreported \ {n} /\ Differs(n, port)
           /\ SetCR(n, [cr[n] EXCEPT !.status = port], done)
  <2>1. cr[n] # None /\ cr[n] \in Resource
    BY <1>1, <1>5, Types DEF Inv, TypeInv, WorkerTypes
  <2>2. [cr[n] EXCEPT !.status = port] \in Resource
    BY <1>1, <2>1 DEF Resource, Service
  <2>3. done \in [Workers -> Worker]
    <3>1. [work[w] EXCEPT !.pc = "done"] \in Worker
      BY <1>1 DEF Worker, Steps
    <3>2. done = [work EXCEPT ![w] = [work[w] EXCEPT !.pc = "done"]]
      OBVIOUS
    <3> QED
      BY <1>1, <3>1, <3>2
  <2>4. \A v \in Workers : \/ done[v] = work[v]
                          \/ /\ work[v].key = n /\ work[v].pc = "put"
                             /\ done[v] = [work[v] EXCEPT !.pc = "done"]
    BY <1>1
  <2> HIDE DEF done
  <2> QED
    BY <1>1, <1>2, <1>3, <1>5, <2>2, <2>3, <2>4, SetInv
<1>6. CASE /\ work[w].fresh /\ unreported' = unreported \ {n} /\ ~ Differs(n, port)
           /\ work' = done /\ UNCHANGED <<cr, watch>>
  BY <1>1, <1>2, <1>3, <1>4, <1>6, StayInv DEF Differs
<1>7. CASE ~ work[w].fresh /\ Goto(w, "done") /\ UNCHANGED <<cr, watch, unreported>>
  <2>1. Again(n)
    BY <1>1, <1>7 DEF WorkOf
  <2> QED
    BY <1>1, <1>2, <1>3, <1>4, <1>7, <2>1, StayInv DEF Goto
<1>8. CASE Goto(w, "done") /\ unreported' = unreported \cup {n} /\ UNCHANGED <<cr, watch>>
  BY <1>1, <1>2, <1>3, <1>4, <1>8, StayInv DEF Goto
<1> QED
  BY <1>5, <1>6, <1>7, <1>8 DEF PutStatus

\* Every step keeps the invariant.
LEMMA NextInv == Inv /\ [Next]_vars => Inv'
<1> SUFFICES ASSUME Inv, [Next]_vars PROVE Inv'
  OBVIOUS
<1>1. CASE \E n \in Names : \E s \in Specs \cup {None} : ChangeCR(n, s)
  BY <1>1, ChangeInv
<1>2. CASE \E n \in Names : Observe(n) \/ DelayExpires(n)
  BY <1>2, ObserveInv, DelayInv
<1>3. CASE \E w \in Workers : Work(w)
  BY <1>3, TakeInv, LookInv, ApplyInv, GetInv, PutInv, CleanInv, DoneInv DEF Work
<1>4. CASE Restart
  BY <1>4, RestartInv
<1>5. CASE UNCHANGED vars
  <2>1. UNCHANGED <<cr, watch, cache, dirty, processing, delayed, work, objects,
                    changes, faults, leaked, unreported>>
    BY <1>5 DEF vars, queue, history
  <2>2. TypeInv'
    BY <2>1 DEF Inv, TypeInv, TypeOK, WorkerTypes
  <2>3. QueueInv' /\ CopyInv'
    BY <2>1 DEF Inv, QueueInv, OneWorkerPerKey, CopyInv
  <2>4. WorkInv'
    BY <2>1 DEF Inv, WorkInv, WorkOf, Again
  <2>5. RestMeansReconciled'
    BY <2>1 DEF Inv, RestMeansReconciled, AtRest, Reconciled, ResolvedPort
  <2> QED
    BY <2>2, <2>3, <2>4, <2>5 DEF Inv
<1> QED
  BY <1>1, <1>2, <1>3, <1>4, <1>5 DEF Next
-----------------------------------------------------------------------------
(***************************************************************************)
(* The variables of the controller, its queue and the cluster keep their   *)
(* types: in particular an object is always one that a spec asks for.      *)
(***************************************************************************)
THEOREM MCPTypeCorrect == Spec => []TypeOK
<1>1. Inv => TypeOK
  BY DEF Inv, TypeInv
<1> QED
  BY <1>1, InitInv, NextInv, PTL DEF Spec

(***************************************************************************)
(* However many workers Run starts, two of them are never between Get and  *)
(* Done with the same resource.                                            *)
(***************************************************************************)
THEOREM WorkersAreExclusive == Spec => []OneWorkerPerKey
<1>1. Inv => OneWorkerPerKey
  BY DEF Inv, QueueInv
<1> QED
  BY <1>1, InitInv, NextInv, PTL DEF Spec

(***************************************************************************)
(* Whatever events, failed calls, restarts and changes in the middle of a  *)
(* reconcile there have been, a resource that nothing is pending for has   *)
(* the objects its spec asks for, up to the two named omissions.           *)
(***************************************************************************)
THEOREM RestIsReconciled == Spec => []RestMeansReconciled
<1>1. Inv => RestMeansReconciled
  BY DEF Inv
<1> QED
  BY <1>1, InitInv, NextInv, PTL DEF Spec
=============================================================================
