--------------------------- MODULE AgentLifecycle ---------------------------
(***************************************************************************)
(* The life of one agent: its row in the store, the runtime token the      *)
(* server accepts, the Kubernetes objects of its sandbox and its runtime's *)
(* connections.  handleCreateAgent, handleStartAgent, handleStopAgent,     *)
(* handleDeleteAgent and handleRuntimeWebSocket of internal/api/server.go, *)
(* with Start and Stop of internal/sandbox/kubernetes_provider.go.         *)
(*                                                                         *)
(* Every call to the store or to the Kubernetes API is a step of its own,  *)
(* because other requests, runtimes and the cluster run between two of     *)
(* them.  Everything is keyed by the agent's id, so one agent is enough.   *)
(***************************************************************************)
EXTENDS Naturals

CONSTANTS
  Reqs,         \* lifecycle requests
  Kind,         \* Kind[r]: "start", "stop" or "delete"
  Conns,        \* runtime websocket handlers; one is used again once closed
  Serial,       \* whether the agent's requests come one after the other
  DeletePVC,    \* whether cfg.WorkspacePolicy is "delete"
  MaxFaults,    \* bound: server restarts, container crashes and evictions
  None

ASSUME LifecycleAssumption ==
  /\ Kind \in [Reqs -> {"start", "stop", "delete"}]
  /\ Serial \in BOOLEAN
  /\ DeletePVC \in BOOLEAN
  /\ MaxFaults \in Nat
  /\ Reqs \cap Conns = {}
  /\ None \notin Reqs \cup Conns

VARIABLES
  row,         \* agents.state; "none" before the create, "deleted" after
  token,       \* s.tokens[agentID]; a start's secret is named by its request
  secret,      \* the token in the runtime-token Secret, None if there is none
  pvc,         \* the workspace's claim: none, bound or terminating
  netpol,      \* whether the NetworkPolicy exists
  pod,         \* the Pod: none, pending, running (and so Ready) or failed
  deleting,    \* the Pod has a deletion timestamp
  file,        \* the token in the pod's mounted file
  live,        \* the connection of the runtime process, None without a process
  pc,          \* where each request's and each connection's handler is
  presented,   \* the bearer token of each connection
  registered,  \* RuntimeRegistry.runtimes[agentID]
  gone,        \* requests whose context is cancelled: the client has left
  faults

cluster == <<secret, pvc, netpol, pod, deleting, file>>
server == <<token, registered>>
vars == <<row, token, secret, pvc, netpol, pod, deleting, file, live, pc,
          presented, registered, gone, faults>>

Rows == {"none", "idle", "starting", "running", "stopped", "deleted"}
ReqPC == {"new", "resolve", "token", "starting", "secret", "pvc", "netpol",
          "pod", "wait", "running", "failed", "deletePod", "deleteNetpol",
          "deleteSecret", "deletePVC", "revoke", "stopped", "deleteRow", "done"}
ConnPC == {"closed", "hello", "register", "markRunning", "read", "markIdle",
           "unregister"}

Init ==
  /\ row = "none"
  /\ token = None
  /\ secret = None
  /\ pvc = "none" /\ netpol = FALSE
  /\ pod = "none" /\ deleting = FALSE
  /\ file = None
  /\ live = None
  /\ pc = [p \in Reqs \cup Conns |-> IF p \in Reqs THEN "new" ELSE "closed"]
  /\ presented = [c \in Conns |-> None]
  /\ registered = None
  /\ gone = {}
  /\ faults = 0

Goto(p, l) == pc' = [pc EXCEPT ![p] = l]

InFlight(r) == pc[r] \notin {"new", "done"}
Exists == row \notin {"none", "deleted"}

\* UpdateAgentState: an update of a missing row changes nothing.
\* Mutant: it inserts the row.
Upsert(s) == s
UpdatedRow(s) == IF Exists THEN s ELSE row

\* A call made with the request's context.  It succeeds, or takes effect and
\* its answer is lost, or fails; it fails when the client has left.
Call(r, effect, same, ok, error) ==
  \/ /\ r \notin gone
     /\ effect
     /\ Goto(r, ok) \/ Goto(r, error)
  \/ same /\ Goto(r, error)

\* The same call where the handler goes on in the same way after an error.
CallIgnoringError(r, effect, same, next) == Call(r, effect, same, next, next)

-----------------------------------------------------------------------------
(* Requests *)

Create ==
  /\ row = "none"
  /\ row' = "idle"
  /\ UNCHANGED <<cluster, server, live, pc, presented, gone, faults>>

\* The checks every handler makes first: user, GetAgent, owner, and for a start
\* the model and the gateway's settings.  Any may end the request.
Begin(r) ==
  /\ pc[r] = "new"
  /\ row # "none"
  /\ Serial => \A q \in Reqs : ~InFlight(q)
  /\ \/ /\ Exists
        /\ Goto(r, IF Kind[r] = "start" THEN "resolve" ELSE "deletePod")
     \/ Goto(r, "done")
  /\ UNCHANGED <<row, cluster, server, live, presented, gone, faults>>

\* ResolveAgentRuntime.
Resolve(r) ==
  /\ pc[r] = "resolve"
  /\ Goto(r, "token") \/ Goto(r, "failed")
  /\ UNCHANGED <<row, cluster, server, live, presented, gone, faults>>

\* randomSecret may fail; the token replaces the one of an earlier start.
IssueToken(r) ==
  /\ pc[r] = "token"
  /\ \/ token' = r /\ Goto(r, "starting")
     \/ Goto(r, "done") /\ UNCHANGED token
  /\ UNCHANGED <<row, cluster, registered, live, presented, gone, faults>>

MarkStarting(r) ==
  /\ pc[r] = "starting"
  /\ Call(r, Exists /\ row' = "starting", UNCHANGED row, "secret", "done")
  /\ UNCHANGED <<cluster, server, live, presented, gone, faults>>

\* An error of a call of Start ends it, and the handler marks the agent idle.
\* validateSecretKey comes first: its error is a failure of this call.
CreateOrUpdateSecret(r) ==
  /\ pc[r] = "secret"
  /\ Call(r, secret' = r, UNCHANGED secret, "pvc", "failed")
  /\ UNCHANGED <<row, pvc, netpol, pod, deleting, file, server, live, presented,
                 gone, faults>>

\* A claim that exists, even one that is being deleted, only gets new labels.
CreateOrUpdatePVC(r) ==
  /\ pc[r] = "pvc"
  /\ Call(r, pvc' = IF pvc = "none" THEN "bound" ELSE pvc, UNCHANGED pvc,
          "netpol", "failed")
  /\ UNCHANGED <<row, secret, netpol, pod, deleting, file, server, live,
                 presented, gone, faults>>

CreateOrUpdateNetworkPolicy(r) ==
  /\ pc[r] = "netpol"
  /\ Call(r, netpol' = TRUE, UNCHANGED netpol, "pod", "failed")
  /\ UNCHANGED <<row, secret, pvc, pod, deleting, file, server, live, presented,
                 gone, faults>>

\* A Pod that exists, even one that is being deleted, only gets new labels.
CreateOrUpdatePod(r) ==
  /\ pc[r] = "pod"
  /\ IF pod = "none"
       THEN Call(r, pod' = "pending" /\ file' = None,
                 UNCHANGED <<pod, file>>, "wait", "failed")
       ELSE /\ Call(r, TRUE, TRUE, "wait", "failed")
            /\ UNCHANGED <<pod, file>>
  /\ UNCHANGED <<row, secret, pvc, netpol, deleting, server, live, presented,
                 gone, faults>>

\* Running, with its containers Ready.  Mutant: a Pod that is there will do.
PodFoundAtAll == pod # "none"
PodReady == pod = "running"

\* One poll finds the Pod Running and Ready, or the wait fails: the Pod failed
\* or is gone, the call failed, the timeout passed or the client left.
WaitForPodReady(r) ==
  /\ pc[r] = "wait"
  /\ \/ r \notin gone /\ PodReady /\ Goto(r, "running")
     \/ Goto(r, "failed")
  /\ UNCHANGED <<row, cluster, server, live, presented, gone, faults>>

MarkRunning(r) ==
  /\ pc[r] = "running"
  /\ CallIgnoringError(r, row' = UpdatedRow("running"), UNCHANGED row, "done")
  /\ UNCHANGED <<cluster, server, live, presented, gone, faults>>

\* Both error paths of handleStartAgent; what was provisioned stays.
MarkFailed(r) ==
  /\ pc[r] = "failed"
  /\ CallIgnoringError(r, row' = UpdatedRow("idle"), UNCHANGED row, "done")
  /\ UNCHANGED <<cluster, server, live, presented, gone, faults>>

\* handleStopAgent returns on an error of Stop, handleDeleteAgent goes on.
\* Mutant: the stop goes on too.
GoesOn(r) == "revoke"
OnStopError(r) == IF Kind[r] = "stop" THEN "done" ELSE "revoke"

\* deleteIgnoreNotFound: there is a Pod to delete.  Mutant: there always is.
MissingToo == TRUE
PodFound == pod # "none"

\* The Pod is deleted gracefully: it runs on until the kubelet removes it.
DeletePod(r) ==
  /\ pc[r] = "deletePod"
  /\ Call(r, deleting' = PodFound, UNCHANGED deleting, "deleteNetpol",
          OnStopError(r))
  /\ UNCHANGED <<row, secret, pvc, netpol, pod, file, server, live, presented,
                 gone, faults>>

DeleteNetworkPolicy(r) ==
  /\ pc[r] = "deleteNetpol"
  /\ Call(r, netpol' = FALSE, UNCHANGED netpol, "deleteSecret", OnStopError(r))
  /\ UNCHANGED <<row, secret, pvc, pod, deleting, file, server, live, presented,
                 gone, faults>>

DeleteSecret(r) ==
  /\ pc[r] = "deleteSecret"
  /\ Call(r, secret' = None, UNCHANGED secret,
          IF DeletePVC THEN "deletePVC" ELSE "revoke", OnStopError(r))
  /\ UNCHANGED <<row, pvc, netpol, pod, deleting, file, server, live, presented,
                 gone, faults>>

\* The claim is only marked: it stays, Terminating, while a Pod mounts it.
DeleteWorkspace(r) ==
  /\ pc[r] = "deletePVC"
  /\ Call(r, pvc' = IF pvc = "none" THEN "none" ELSE "terminating",
          UNCHANGED pvc, "revoke", OnStopError(r))
  /\ UNCHANGED <<row, secret, netpol, pod, deleting, file, server, live,
                 presented, gone, faults>>

\* The token is revoked.
Revoke(r) ==
  /\ pc[r] = "revoke"
  /\ token' = None
  /\ Goto(r, IF Kind[r] = "stop" THEN "stopped" ELSE "deleteRow")
  /\ UNCHANGED <<row, cluster, registered, live, presented, gone, faults>>

MarkStopped(r) ==
  /\ pc[r] = "stopped"
  /\ CallIgnoringError(r, row' = UpdatedRow("stopped"), UNCHANGED row, "done")
  /\ UNCHANGED <<cluster, server, live, presented, gone, faults>>

DeleteRow(r) ==
  /\ pc[r] = "deleteRow"
  /\ CallIgnoringError(r, row' = "deleted", UNCHANGED row, "done")
  /\ UNCHANGED <<cluster, server, live, presented, gone, faults>>

\* The client disconnects: the request's context is cancelled.
ClientLeaves(r) ==
  /\ InFlight(r)
  /\ r \notin gone
  /\ gone' = gone \cup {r}
  /\ UNCHANGED <<row, cluster, server, live, pc, presented, faults>>

-----------------------------------------------------------------------------
(* The runtime's connection *)

\* validRuntimeToken.
ValidRuntimeToken(c) == token # None /\ token = presented[c]

Hello(c) ==
  /\ pc[c] = "hello"
  /\ \/ ValidRuntimeToken(c) /\ Goto(c, "register")
     \/ ~ValidRuntimeToken(c) /\ Goto(c, "closed")
  /\ UNCHANGED <<row, cluster, server, live, presented, gone, faults>>

\* The hello cannot be read.
HelloLost(c) ==
  /\ pc[c] = "hello"
  /\ Goto(c, "closed")
  /\ UNCHANGED <<row, cluster, server, live, presented, gone, faults>>

\* The newest connection wins.
Register(c) ==
  /\ pc[c] = "register"
  /\ registered' = c
  /\ Goto(c, "markRunning")
  /\ UNCHANGED <<row, cluster, token, live, presented, gone, faults>>

ConnMarksRunning(c) ==
  /\ pc[c] = "markRunning"
  /\ row' \in {row, UpdatedRow("running")}
  /\ Goto(c, "read")
  /\ UNCHANGED <<cluster, server, live, presented, gone, faults>>

\* The read loop ends: the process exited, the network failed, or Register
\* closed this connection when a newer one came.
ReadError(c) ==
  /\ pc[c] = "read"
  /\ Goto(c, "markIdle")
  /\ UNCHANGED <<row, cluster, server, live, presented, gone, faults>>

ConnMarksIdle(c) ==
  /\ pc[c] = "markIdle"
  /\ row' \in {row, UpdatedRow("idle")}
  /\ Goto(c, "unregister")
  /\ UNCHANGED <<cluster, server, live, presented, gone, faults>>

Unregister(c) ==
  /\ pc[c] = "unregister"
  /\ registered' = IF registered = c THEN None ELSE registered
  /\ Goto(c, "closed")
  /\ UNCHANGED <<row, cluster, token, live, presented, gone, faults>>

-----------------------------------------------------------------------------
(* The cluster, and the server's process *)

\* The kubelet mounts the pod's volumes, the workspace and the Secret's token,
\* and refreshes the token.  A Pod that waits for a claim that is missing or
\* being deleted is not scheduled, so nothing of it is mounted.
Mount ==
  /\ pod \in {"pending", "running"}
  /\ secret \notin {None, file}
  /\ file = None => pvc = "bound"
  /\ file' = secret
  /\ UNCHANGED <<row, secret, pvc, netpol, pod, deleting, server, live, pc,
                 presented, gone, faults>>

\* The container starts: shclop-runtime reads its token once and dials once.
Boot(c) ==
  /\ pod = "pending" /\ ~deleting
  /\ file # None
  /\ pc[c] = "closed"
  /\ pod' = "running"
  /\ live' = c
  /\ presented' = [presented EXCEPT ![c] = file]
  /\ Goto(c, "hello")
  /\ UNCHANGED <<row, secret, pvc, netpol, deleting, file, server, gone,
                 faults>>

\* The process is gone, and the pod's restart policy will start it again.
ProcessEnds ==
  /\ pod = "running"
  /\ pod' = "pending"
  /\ live' = None
  /\ UNCHANGED <<row, secret, pvc, netpol, deleting, file, server, pc,
                 presented, gone>>

\* The process finds its websocket closed: the server rejected the hello, left
\* the read loop, or registered another connection and closed this one.
\* Mutant: a rejection does not make it exit.
Replaced(c) == pc[c] \in {"markRunning", "read"} /\ registered # c
LosesRegisteredConn(c) == pc[c] \in {"markIdle", "unregister"} \/ Replaced(c)
LosesConn(c) == pc[c] \in {"closed", "markIdle", "unregister"} \/ Replaced(c)

\* It exits when it is rejected or disconnected.
Exit ==
  /\ live # None
  /\ LosesConn(live)
  /\ ProcessEnds
  /\ UNCHANGED faults

Crash ==
  /\ faults < MaxFaults
  /\ faults' = faults + 1
  /\ ProcessEnds

Evict ==
  /\ faults < MaxFaults
  /\ faults' = faults + 1
  /\ pod \in {"pending", "running"}
  /\ pod' = "failed"
  /\ live' = None
  /\ UNCHANGED <<row, secret, pvc, netpol, deleting, file, server, pc,
                 presented, gone>>

RemovePod ==
  /\ deleting
  /\ pod' = "none" /\ deleting' = FALSE
  /\ file' = None
  /\ live' = None
  /\ UNCHANGED <<row, secret, pvc, netpol, server, pc, presented, gone,
                 faults>>

\* The claim's finalizer: it goes when no Pod that mounted it runs any more.
RemovePVC ==
  /\ pvc = "terminating"
  /\ pod \in {"none", "failed"} \/ file = None
  /\ pvc' = "none"
  /\ UNCHANGED <<row, secret, netpol, pod, deleting, file, server, live, pc,
                 presented, gone, faults>>

\* The server's process ends and a new one starts: what is in memory is lost,
\* the store and the cluster stay.
Restart ==
  /\ row # "none"
  /\ faults < MaxFaults
  /\ faults' = faults + 1
  /\ token' = None
  /\ registered' = None
  /\ pc' = [p \in Reqs \cup Conns |->
              IF p \in Conns THEN "closed"
              ELSE IF InFlight(p) THEN "done" ELSE pc[p]]
  /\ UNCHANGED <<row, cluster, live, presented, gone>>

-----------------------------------------------------------------------------
StartStep(r) ==
  \/ Resolve(r) \/ IssueToken(r) \/ MarkStarting(r)
  \/ CreateOrUpdateSecret(r) \/ CreateOrUpdatePVC(r)
  \/ CreateOrUpdateNetworkPolicy(r) \/ CreateOrUpdatePod(r)
  \/ WaitForPodReady(r) \/ MarkRunning(r) \/ MarkFailed(r)

StopStep(r) ==
  \/ DeletePod(r) \/ DeleteNetworkPolicy(r) \/ DeleteSecret(r)
  \/ DeleteWorkspace(r) \/ Revoke(r) \/ MarkStopped(r) \/ DeleteRow(r)

ConnStep(c) ==
  \/ Hello(c) \/ Register(c) \/ ConnMarksRunning(c)
  \/ ConnMarksIdle(c) \/ Unregister(c)

Next ==
  \/ Create
  \/ \E r \in Reqs : Begin(r) \/ StartStep(r) \/ StopStep(r) \/ ClientLeaves(r)
  \/ \E c \in Conns : ConnStep(c) \/ HelloLost(c) \/ ReadError(c) \/ Boot(c)
  \/ Mount \/ Exit \/ Crash \/ Evict \/ RemovePod \/ RemovePVC
  \/ Restart

Spec == Init /\ [][Next]_vars

\* Handlers run; the kubelet refreshes the mounted token and restarts the
\* container; a process that was rejected or disconnected exits; the read of
\* a connection fails when its peer is gone or Register has closed it.  A hello
\* may be lost any number of times, but not every time.
Fairness ==
  /\ WF_vars(Mount)
  /\ WF_vars(Exit)
  /\ WF_vars(\E c \in Conns : Boot(c))
  /\ \A c \in Conns :
       /\ SF_vars(Hello(c))
       /\ WF_vars(ConnStep(c))
       /\ WF_vars((live # c \/ registered # c) /\ ReadError(c))

FairSpec == Spec /\ Fairness

-----------------------------------------------------------------------------
(* Properties *)

\* Every variable stays in its domain.
TypeOK ==
  /\ row \in Rows
  /\ token \in Reqs \cup {None}
  /\ secret \in Reqs \cup {None}
  /\ pvc \in {"none", "bound", "terminating"}
  /\ netpol \in BOOLEAN
  /\ pod \in {"none", "pending", "running", "failed"}
  /\ deleting \in BOOLEAN
  /\ file \in Reqs \cup {None}
  /\ live \in Conns \cup {None}
  /\ pc \in [Reqs \cup Conns -> ReqPC \cup ConnPC]
  /\ presented \in [Conns -> Reqs \cup {None}]
  /\ registered \in Conns \cup {None}
  /\ gone \in SUBSET Reqs
  /\ faults \in 0..MaxFaults
  /\ deleting => pod # "none"

\* When a start is about to report success, the token the server accepts is its
\* own, the Secret holds that same token, the NetworkPolicy is in place, and the
\* Pod it found Ready has a workspace that stays, whatever an earlier start or
\* stop left half done or still terminating: createOrUpdatePVC takes a claim
\* that is being deleted for one in place, and only the wait for the Pod tells.
\* The Pod may be on its way out with its claim: RunningNeedsUsablePod
\* (handleStartAgent and KubernetesRuntimeProvider.Start).
StartedIsComplete ==
  Serial =>
    \A r \in Reqs : pc[r] = "running" =>
      /\ token = r /\ secret = r /\ netpol
      /\ pvc = "bound" \/ deleting \/ pod = "none"

\* When a stop is about to report success, nothing of the sandbox is left but a
\* Pod on its way out and, if the policy is to delete it, its workspace on its
\* way out: no accepted token, no Secret, no NetworkPolicy (handleStopAgent and
\* KubernetesRuntimeProvider.Stop).
StoppedIsClean ==
  Serial =>
    \A r \in Reqs : pc[r] = "stopped" =>
      /\ token = None /\ secret = None /\ ~netpol
      /\ pod = "none" \/ deleting
      /\ DeletePVC => pvc # "bound"

\* A deleted agent stays deleted and has no accepted token, whatever requests,
\* connections and pods of it are still about (handleDeleteAgent's order, and
\* UpdateAgentState on a missing row).
DeletedForGood ==
  [][Serial /\ row = "deleted" => row' = "deleted" /\ token' = None]_vars

\* The tokens the server accepts and the Secret holds agree, and the pod and its
\* workspace live.
Provisioned ==
  /\ token # None /\ secret = token
  /\ pvc = "bound"
  /\ pod \in {"pending", "running"} /\ ~deleting

\* While that is so, the runtime process ends up as the registered one: over
\* crashes, stale mounted tokens, rejected hellos and connections of dead
\* processes that are still registered (Register replaces, shclop-runtime exits
\* and reads its token again).
ProvisionedRuntimeRegisters ==
  Provisioned ~> (~Provisioned \/ (live # None /\ registered = live))

\* "Revoke the runtime token so the old runtime cannot reconnect": a connection
\* is registered only with the token accepted at that time.
RevokedCannotReconnect ==
  [][registered' \notin {registered, None} => presented[registered'] = token]_vars

\* "only transition an agent to `running` after the runtime pod reaches a usable
\* Ready state": the Pod a start found Ready is not one being deleted.
RunningNeedsUsablePod ==
  [][\A r \in Reqs : pc[r] = "wait" /\ pc'[r] = "running" => ~deleting]_vars
=============================================================================
