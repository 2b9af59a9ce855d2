---------------------------- MODULE MCPController ----------------------------
(***************************************************************************)
(* controllers/mcpserver_controller.go: MCPServer resources are turned     *)
(* into a Deployment, a Service and a NetworkPolicy each.  The informer    *)
(* follows the API server at a distance, its events put keys on a work     *)
(* queue, workers reconcile a key from the informer's copy of it, one API  *)
(* call at a time.  Any call may fail, and the server may be restarted;    *)
(* its informer does not resync (NewFactory is given 0).  MCPResolver      *)
(* reads the same copies to tell agents where a server is.                 *)
(***************************************************************************)
EXTENDS Integers, Sequences

CONSTANTS
    None,
    Names,        \* resource names, which are the keys of the queue
    Specs,        \* specs a resource may have, with the fields of each
    Fields,
    Workers,      \* goroutines of Run
    MaxChanges,   \* bound: changes of resources
    MaxFaults     \* bound: failed API calls and restarts

ASSUME MCPAssumption ==
    /\ None \notin Names \cup Specs
    /\ MaxChanges \in Nat /\ MaxFaults \in Nat

Kinds == {"deployment", "service", "networkpolicy"}

VARIABLES
    cr,          \* resources in the cluster: spec and the port in status
    watch,       \* name -> events on their way to the informer
    cache,       \* the informer's store
    dirty,       \* work queue: keys that are to be processed
    processing,  \* work queue: keys that are being processed
    delayed,     \* work queue: keys AddRateLimited holds back
    work,        \* worker -> where it is
    objects,     \* kind -> name -> the object in the cluster
    changes,     \* changes of resources so far
    faults,      \* faults so far
    leaked,      \* history: <<kind, name>> whose delete failed or was missed
    unreported   \* history: names whose last status update failed

queue == <<dirty, processing, delayed>>
history == <<leaked, unreported>>
vars == <<cr, watch, cache, queue, work, objects, changes, faults, history>>

\* What the API server stores for a spec (applyDeployment, applyService,
\* applyNetworkPolicy): defaults are filled in by the controller.
Deployment(s) ==
    [image |-> Fields[s].image, port |-> Fields[s].port, env |-> Fields[s].env,
     replicas |-> IF Fields[s].replicas <= 0 THEN 1 ELSE Fields[s].replicas]

Service(s) == [port |-> Fields[s].port]

NetworkPolicy(s) ==
    [from |-> "agent-runtime",
     to |-> IF Fields[s].cidrs = {} THEN {"0.0.0.0/0"} ELSE Fields[s].cidrs]

Desired(kind, s) ==
    CASE kind = "deployment" -> Deployment(s)
      [] kind = "service" -> Service(s)
      [] kind = "networkpolicy" -> NetworkPolicy(s)

\* UnstructuredToMCPServer.
Converts(s) == Fields[s].converts

Resource == [spec : Specs, status : {Fields[s].port : s \in Specs} \cup {None}] \cup {None}

\* The steps of reconcile and of cleanup, in order.
ApplySteps == {"deployment", "service", "networkpolicy", "get", "put"}
CleanSteps == {"-deployment", "-service", "-networkpolicy"}
Idle == [pc |-> "idle", key |-> None, cr |-> None, fresh |-> FALSE]

TypeOK ==
    /\ cr \in [Names -> Resource] /\ cache \in [Names -> Resource]
    /\ watch \in [Names -> Seq(Resource)]
    /\ dirty \subseteq Names /\ processing \subseteq Names /\ delayed \subseteq Names
    /\ work \in [Workers -> [pc : ApplySteps \cup CleanSteps \cup {"idle", "look", "done", "failed"},
                             key : Names \cup {None}, cr : Resource, fresh : BOOLEAN]]
    /\ \A k \in Kinds : \A n \in Names :
         objects[k][n] \in {Desired(k, s) : s \in Specs} \cup {None}
    /\ changes \in 0 .. MaxChanges /\ faults \in 0 .. MaxFaults
    /\ leaked \subseteq Kinds \X Names /\ unreported \subseteq Names

Init ==
    /\ cr = [n \in Names |-> None]
    /\ watch = [n \in Names |-> <<>>]
    /\ cache = [n \in Names |-> None]
    /\ dirty = {} /\ processing = {} /\ delayed = {}
    /\ work = [w \in Workers |-> Idle]
    /\ objects = [k \in Kinds |-> [n \in Names |-> None]]
    /\ changes = 0 /\ faults = 0
    /\ leaked = {} /\ unreported = {}
-----------------------------------------------------------------------------
(* The API server and the informer *)

\* A resource is replaced: the informer will hear of it, and an update that
\* was prepared from the old version is refused (resourceVersion).
SetCR(n, new, workers) ==
    /\ cr' = [cr EXCEPT ![n] = new]
    /\ watch' = [watch EXCEPT ![n] = Append(@, new)]
    /\ work' = [w \in Workers |-> IF workers[w].key = n
                                  THEN [workers[w] EXCEPT !.fresh = FALSE]
                                  ELSE workers[w]]

\* Applying a spec keeps the status, deleting ends it.
ChangeCR(n, s) ==
    /\ changes < MaxChanges /\ changes' = changes + 1
    /\ \/ /\ s # None
          /\ SetCR(n, [spec |-> s, status |-> IF cr[n] = None THEN None
                                              ELSE cr[n].status], work)
       \/ /\ s = None /\ cr[n] # None
          /\ SetCR(n, None, work)
    /\ UNCHANGED <<cache, queue, objects, faults, history>>

\* AddFunc, UpdateFunc, DeleteFunc: the store is updated, the key is queued.
Observe(n) ==
    /\ watch[n] # <<>>
    /\ cache' = [cache EXCEPT ![n] = Head(watch[n])]
    /\ watch' = [watch EXCEPT ![n] = Tail(@)]
    /\ dirty' = dirty \cup {n}
    /\ UNCHANGED <<cr, processing, delayed, work, objects, changes, faults, history>>

\* The delay of AddRateLimited is over.
DelayExpires(n) ==
    /\ n \in delayed
    /\ delayed' = delayed \ {n}
    /\ dirty' = dirty \cup {n}
    /\ UNCHANGED <<cr, watch, cache, processing, work, objects, changes, faults, history>>
-----------------------------------------------------------------------------
(* processNextItem *)

\* Mutant: Done is called when the key has been taken.
GetDone(w, n) ==
    /\ work[w].pc = "idle" /\ n \in dirty
    /\ dirty' = dirty \ {n}
    /\ UNCHANGED processing

\* queue.Get: a key that is being processed waits for its Done.
Get(w, n) ==
    /\ work[w].pc = "idle" /\ n \in dirty \ processing
    /\ dirty' = dirty \ {n}
    /\ processing' = processing \cup {n}

Take(w, n) ==
    /\ Get(w, n)
    /\ work' = [work EXCEPT ![w] = [Idle EXCEPT !.pc = "look", !.key = n]]
    /\ UNCHANGED <<cr, watch, cache, delayed, objects, changes, faults, history>>

\* Mutant: a failed key is forgotten like any other.
Forget(w) == UNCHANGED delayed

\* AddRateLimited after an error, Forget otherwise; then Done.
Requeue(w) ==
    delayed' = IF work[w].pc = "failed" THEN delayed \cup {work[w].key} ELSE delayed

Done(w) ==
    /\ work[w].pc \in {"done", "failed"}
    /\ Requeue(w)
    /\ processing' = processing \ {work[w].key}
    /\ work' = [work EXCEPT ![w] = Idle]
    /\ UNCHANGED <<cr, watch, cache, dirty, objects, changes, faults, history>>
-----------------------------------------------------------------------------
(* reconcile *)

NoteFault == faults < MaxFaults /\ faults' = faults + 1
Goto(w, pc) == work' = [work EXCEPT ![w].pc = pc]

\* The informer's copy decides; one that does not convert is left alone.
Look(w) ==
    LET copy == cache[work[w].key]
    IN  /\ work[w].pc = "look"
        /\ work' = [work EXCEPT ![w].cr = copy,
              ![w].pc = IF copy = None THEN "-deployment"
                        ELSE IF Converts(copy.spec) THEN "deployment" ELSE "done"]
        /\ UNCHANGED <<cr, watch, cache, queue, objects, changes, faults, history>>

AfterApply(pc) == CASE pc = "deployment" -> "service"
                    [] pc = "service" -> "networkpolicy"
                    [] pc = "networkpolicy" -> "get"

\* Mutant: the Deployment's configuration is sent for every kind.
AppliedSame(kind, n, s) == [objects EXCEPT ![kind][n] = Desired("deployment", s)]

Applied(kind, n, s) == [objects EXCEPT ![kind][n] = Desired(kind, s)]

\* Apply, forced: whatever was there before.
Apply(w) ==
    LET kind == work[w].pc
    IN  /\ kind \in Kinds
        /\ \/ /\ objects' = Applied(kind, work[w].key, work[w].cr.spec)
              /\ Goto(w, AfterApply(kind))
              /\ UNCHANGED faults
           \/ NoteFault /\ Goto(w, "failed") /\ UNCHANGED objects
        /\ UNCHANGED <<cr, watch, cache, queue, changes, history>>

\* updateStatus: Get, then UpdateStatus of what it returned.  A failure is
\* logged and not retried; a resource that is gone needs no status.
GetStatus(w) ==
    /\ work[w].pc = "get"
    /\ \/ /\ cr[work[w].key] # None
          /\ work' = [work EXCEPT ![w].pc = "put", ![w].fresh = TRUE]
          /\ UNCHANGED <<faults, unreported>>
       \/ /\ cr[work[w].key] = None
          /\ Goto(w, "done")
          /\ UNCHANGED <<faults, unreported>>
       \/ /\ NoteFault
          /\ Goto(w, "done")
          /\ unreported' = unreported \cup {work[w].key}
    /\ UNCHANGED <<cr, watch, cache, queue, objects, changes, leaked>>

\* Mutant: the status carries the time it was written.
AlwaysDiffers(n, port) == TRUE

\* An update that changes nothing makes no new version and no event.
Differs(n, port) == cr[n].status # port

PutStatus(w) ==
    LET n == work[w].key
        port == Service(work[w].cr.spec).port
        done == [work EXCEPT ![w].pc = "done"]
    IN  /\ work[w].pc = "put"
        /\ \/ /\ work[w].fresh
              /\ unreported' = unreported \ {n}
              /\ IF Differs(n, port)
                 THEN SetCR(n, [cr[n] EXCEPT !.status = port], done)
                 ELSE work' = done /\ UNCHANGED <<cr, watch>>
              /\ UNCHANGED faults
           \/ /\ ~ work[w].fresh
              /\ Goto(w, "done")
              /\ UNCHANGED <<cr, watch, faults, unreported>>
           \/ /\ NoteFault
              /\ Goto(w, "done")
              /\ unreported' = unreported \cup {n}
              /\ UNCHANGED <<cr, watch>>
        /\ UNCHANGED <<cache, queue, objects, changes, leaked>>
-----------------------------------------------------------------------------
(* cleanup *)

CleanKind(pc) == CASE pc = "-deployment" -> "deployment"
                   [] pc = "-service" -> "service"
                   [] pc = "-networkpolicy" -> "networkpolicy"

AfterClean(pc) == CASE pc = "-deployment" -> "-service"
                    [] pc = "-service" -> "-networkpolicy"
                    [] pc = "-networkpolicy" -> "done"

\* An error of a delete is logged; the key counts as reconciled.
Clean(w) ==
    LET n == work[w].key
        kind == CleanKind(work[w].pc)
    IN  /\ work[w].pc \in CleanSteps
        /\ \/ /\ objects' = [objects EXCEPT ![kind][n] = None]
              /\ leaked' = leaked \ {<<kind, n>>}
              /\ UNCHANGED faults
           \/ /\ NoteFault
              /\ leaked' = leaked \cup {<<kind, n>>}
              /\ UNCHANGED objects
        /\ Goto(w, AfterClean(work[w].pc))
        /\ UNCHANGED <<cr, watch, cache, queue, changes, unreported>>
-----------------------------------------------------------------------------
\* The new process lists what exists and queues it: it never hears of a
\* resource that was deleted before and whose objects are still there.
Restart ==
    /\ NoteFault
    /\ cache' = cr
    /\ watch' = [n \in Names |-> <<>>]
    /\ dirty' = {n \in Names : cr[n] # None}
    /\ processing' = {} /\ delayed' = {}
    /\ work' = [w \in Workers |-> Idle]
    /\ leaked' = leaked \cup {kn \in Kinds \X Names : cr[kn[2]] = None
                                                      /\ objects[kn[1]][kn[2]] # None}
    /\ UNCHANGED <<cr, objects, changes, unreported>>

Work(w) ==
    \/ \E n \in Names : Take(w, n)
    \/ Look(w) \/ Apply(w) \/ GetStatus(w) \/ PutStatus(w) \/ Clean(w) \/ Done(w)

Next ==
    \/ \E n \in Names : \E s \in Specs \cup {None} : ChangeCR(n, s)
    \/ \E n \in Names : Observe(n) \/ DelayExpires(n)
    \/ \E w \in Workers : Work(w)
    \/ Restart

\* The informer delivers, delays end and every worker goes on.
Fairness ==
    /\ \A n \in Names : WF_vars(Observe(n)) /\ WF_vars(DelayExpires(n))
    /\ \A w \in Workers : WF_vars(Work(w))

Spec == Init /\ [][Next]_vars
FairSpec == Spec /\ Fairness
-----------------------------------------------------------------------------
(***************************************************************************)
(* Two workers never reconcile the same resource: their applies, and an    *)
(* apply and a cleanup, would interleave (processNextItem calls Done only  *)
(* after reconcile).                                                       *)
(***************************************************************************)
OneWorkerPerKey ==
    \A v, w \in Workers : v # w /\ work[v].key # None => work[v].key # work[w].key

\* MCPResolver.resolveCluster, from the informer's copy.
ResolvedPort(n) ==
    IF cache[n].status # None THEN cache[n].status ELSE Service(cache[n].spec).port

AtRest(n) ==
    /\ watch[n] = <<>> /\ n \notin dirty \cup delayed
    /\ \A w \in Workers : work[w].key # n

Reconciled(n) ==
    /\ cr[n] # None /\ Converts(cr[n].spec) =>
         /\ \A k \in Kinds : objects[k][n] = Desired(k, cr[n].spec)
         /\ n \in unreported \/ ResolvedPort(n) = objects["service"][n].port
    /\ cr[n] = None => \A k \in Kinds : objects[k][n] = None \/ <<k, n>> \in leaked

(***************************************************************************)
(* A resource nobody is going to look at again has its objects as its spec *)
(* wants them and agents are sent to the port of its Service; one that was *)
(* deleted has none left.  No event, failure or change of the resource in  *)
(* the middle of a reconcile is forgotten.  Excluded by name is what the   *)
(* code gives up on: deletes that fail in cleanup or that happen while the *)
(* server is down, and a status update that fails.  Nothing is asked of a  *)
(* resource that no longer converts either: it keeps the objects of the    *)
(* last spec that did.                                                     *)
(***************************************************************************)
RestMeansReconciled == \A n \in Names : AtRest(n) => Reconciled(n)

(***************************************************************************)
(* When resources stop changing and calls stop failing, every resource     *)
(* comes to rest: the controller's own status updates, which come back to  *)
(* it as events, do not keep it busy for ever.                             *)
(***************************************************************************)
ComesToRest == \A n \in Names : <>[]AtRest(n)
=============================================================================
