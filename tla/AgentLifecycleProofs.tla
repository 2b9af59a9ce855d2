------------------------ MODULE AgentLifecycleProofs ------------------------
(***************************************************************************)
(* Proofs about AgentLifecycle, for any set of lifecycle requests in any   *)
(* order, any number of runtime connections and any number of faults.      *)
(***************************************************************************)
EXTENDS AgentLifecycle, TLAPS

USE LifecycleAssumption

\* With serial requests at most one is in flight.
OneAtATime ==
  Serial => \A q, r \in Reqs : InFlight(q) /\ InFlight(r) => q = r

\* What a start has put in place by the time it is at a step: nothing that runs
\* beside it takes any of it away.
StartProgress ==
  \A r \in Reqs :
    /\ pc[r] \in {"starting", "secret", "pvc", "netpol", "pod", "wait", "running"}
         => token = r
    /\ pc[r] \in {"pvc", "netpol", "pod", "wait", "running"} => secret = r
    /\ pc[r] \in {"pod", "wait", "running"} => netpol

\* What a stop has taken away by the time it is at a step.
StopProgress ==
  \A r \in Reqs :
    /\ pc[r] = "stopped" => Kind[r] = "stop" /\ token = None
    /\ Kind[r] = "stop" =>
         /\ pc[r] \in {"deleteNetpol", "deleteSecret", "deletePVC", "revoke",
                       "stopped"} => pod = "none" \/ deleting
         /\ pc[r] \in {"deleteSecret", "deletePVC", "revoke", "stopped"} => ~netpol
         /\ pc[r] \in {"deletePVC", "revoke", "stopped"} => secret = None
         /\ pc[r] \in {"revoke", "stopped"} => (DeletePVC => pvc # "bound")

\* A Pod that has mounted its workspace keeps it until it is deleted: only a
\* stop or a delete marks the claim, and it has deleted the Pod first.
WorkspaceHeld ==
  /\ pod = "running" => file # None
  /\ pod # "none" /\ file # None => pvc = "bound" \/ deleting
  /\ \A r \in Reqs :
       /\ pc[r] \in {"deleteNetpol", "deleteSecret", "deletePVC"}
            => pod = "none" \/ deleting
       /\ pc[r] = "running" => pvc = "bound" \/ deleting \/ pod = "none"

\* A delete has revoked the token before it deletes the row, and no start that
\* could issue another is under way.
DeleteProgress ==
  /\ row = "deleted" => token = None
  /\ \A r \in Reqs :
       /\ pc[r] = "deleteRow" => token = None
       /\ pc[r] \in {"resolve", "token"} => row # "deleted"

-----------------------------------------------------------------------------
\* The initial state has a value of the right type in every variable.
LEMMA InitTypeOK == Init => TypeOK
  <1> SUFFICES ASSUME Init PROVE TypeOK
    OBVIOUS
  <1>1. pc \in [Reqs \cup Conns -> ReqPC \cup ConnPC]
    BY DEF Init, ReqPC, ConnPC
  <1>2. faults \in 0..MaxFaults
    BY DEF Init
  <1>3. pvc = "none" /\ netpol \in BOOLEAN /\ deleting \in BOOLEAN
    BY DEF Init
  <1> QED BY <1>1, <1>2, <1>3 DEF Init, TypeOK, Rows

\* Every action keeps every variable in its domain.
LEMMA NextTypeOK == ASSUME TypeOK, [Next]_vars PROVE TypeOK'
  <1>1. ASSUME NEW r \in Reqs, Begin(r) PROVE TypeOK'
    BY <1>1 DEF TypeOK, Rows, ReqPC, ConnPC, Begin, Goto, Exists, InFlight,
        server, cluster
  <1>2. ASSUME NEW r \in Reqs, Resolve(r) PROVE TypeOK'
    BY <1>2 DEF TypeOK, Rows, ReqPC, ConnPC, Resolve, Goto, server, cluster
  <1>3. ASSUME NEW r \in Reqs, IssueToken(r) PROVE TypeOK'
    BY <1>3 DEF TypeOK, Rows, ReqPC, ConnPC, IssueToken, Goto, server, cluster
  <1>4. ASSUME NEW r \in Reqs, MarkStarting(r) PROVE TypeOK'
    BY <1>4 DEF TypeOK, Rows, ReqPC, ConnPC, MarkStarting, Goto, Call, Exists,
        server, cluster
  <1>5. ASSUME NEW r \in Reqs, CreateOrUpdateSecret(r) PROVE TypeOK'
    BY <1>5 DEF TypeOK, Rows, ReqPC, ConnPC, CreateOrUpdateSecret, Goto, Call,
        server, cluster
  <1>6. ASSUME NEW r \in Reqs, CreateOrUpdatePVC(r) PROVE TypeOK'
    <2>1. pvc' \in {"none", "bound", "terminating"}
      BY <1>6 DEF TypeOK, CreateOrUpdatePVC, Goto, Call
    <2> QED
      BY <1>6, <2>1 DEF TypeOK, Rows, ReqPC, ConnPC, CreateOrUpdatePVC, Goto,
        Call, server, cluster
  <1>7. ASSUME NEW r \in Reqs, CreateOrUpdateNetworkPolicy(r) PROVE TypeOK'
    <2>1. netpol' \in BOOLEAN
      BY <1>7 DEF TypeOK, CreateOrUpdateNetworkPolicy, Goto, Call
    <2> QED
      BY <1>7, <2>1 DEF TypeOK, Rows, ReqPC, ConnPC,
        CreateOrUpdateNetworkPolicy, Goto, Call, server, cluster
  <1>8. ASSUME NEW r \in Reqs, CreateOrUpdatePod(r) PROVE TypeOK'
    BY <1>8 DEF TypeOK, Rows, ReqPC, ConnPC, CreateOrUpdatePod, Goto, Call,
        server, cluster
  <1>9. ASSUME NEW r \in Reqs, WaitForPodReady(r) PROVE TypeOK'
    BY <1>9 DEF TypeOK, Rows, ReqPC, ConnPC, WaitForPodReady, PodReady, Goto,
        server, cluster
  <1>10. ASSUME NEW r \in Reqs, MarkRunning(r) PROVE TypeOK'
    BY <1>10 DEF TypeOK, Rows, ReqPC, ConnPC, MarkRunning, Goto, Call,
        CallIgnoringError, UpdatedRow, Exists, server, cluster
  <1>11. ASSUME NEW r \in Reqs, MarkFailed(r) PROVE TypeOK'
    BY <1>11 DEF TypeOK, Rows, ReqPC, ConnPC, MarkFailed, Goto, Call,
        CallIgnoringError, UpdatedRow, Exists, server, cluster
  <1>12. ASSUME NEW r \in Reqs, DeletePod(r) PROVE TypeOK'
    <2>1. deleting' \in BOOLEAN
      BY <1>12 DEF TypeOK, DeletePod, Goto, Call, PodFound
    <2> QED
      BY <1>12, <2>1 DEF TypeOK, Rows, ReqPC, ConnPC, DeletePod, Goto, Call,
        OnStopError, PodFound, server, cluster
  <1>13. ASSUME NEW r \in Reqs, DeleteNetworkPolicy(r) PROVE TypeOK'
    <2>1. netpol' \in BOOLEAN
      BY <1>13 DEF TypeOK, DeleteNetworkPolicy, Goto, Call
    <2> QED
      BY <1>13, <2>1 DEF TypeOK, Rows, ReqPC, ConnPC, DeleteNetworkPolicy,
        Goto, Call, OnStopError, server, cluster
  <1>14. ASSUME NEW r \in Reqs, DeleteSecret(r) PROVE TypeOK'
    BY <1>14 DEF TypeOK, Rows, ReqPC, ConnPC, DeleteSecret, Goto, Call,
        OnStopError, server, cluster
  <1>15. ASSUME NEW r \in Reqs, DeleteWorkspace(r) PROVE TypeOK'
    <2>1. pvc' \in {"none", "bound", "terminating"}
      BY <1>15 DEF TypeOK, DeleteWorkspace, Goto, Call
    <2> QED
      BY <1>15, <2>1 DEF TypeOK, Rows, ReqPC, ConnPC, DeleteWorkspace, Goto,
        Call, OnStopError, server, cluster
  <1>16. ASSUME NEW r \in Reqs, Revoke(r) PROVE TypeOK'
    BY <1>16 DEF TypeOK, Rows, ReqPC, ConnPC, Revoke, Goto, server, cluster
  <1>17. ASSUME NEW r \in Reqs, MarkStopped(r) PROVE TypeOK'
    BY <1>17 DEF TypeOK, Rows, ReqPC, ConnPC, MarkStopped, Goto, Call,
        CallIgnoringError, UpdatedRow, Exists, server, cluster
  <1>18. ASSUME NEW r \in Reqs, DeleteRow(r) PROVE TypeOK'
    BY <1>18 DEF TypeOK, Rows, ReqPC, ConnPC, DeleteRow, Goto, Call,
        CallIgnoringError, server, cluster
  <1>19. ASSUME NEW r \in Reqs, ClientLeaves(r) PROVE TypeOK'
    BY <1>19 DEF TypeOK, Rows, ReqPC, ConnPC, ClientLeaves, InFlight, server,
        cluster
  <1>20. ASSUME NEW c \in Conns, Hello(c) PROVE TypeOK'
    BY <1>20 DEF TypeOK, Rows, ReqPC, ConnPC, Hello, Goto, server, cluster
  <1>21. ASSUME NEW c \in Conns, HelloLost(c) PROVE TypeOK'
    BY <1>21 DEF TypeOK, Rows, ReqPC, ConnPC, HelloLost, Goto, server, cluster
  <1>22. ASSUME NEW c \in Conns, Register(c) PROVE TypeOK'
    BY <1>22 DEF TypeOK, Rows, ReqPC, ConnPC, Register, Goto,
        server, cluster
  <1>23. ASSUME NEW c \in Conns, ConnMarksRunning(c) PROVE TypeOK'
    BY <1>23 DEF TypeOK, Rows, ReqPC, ConnPC, ConnMarksRunning, Goto,
        UpdatedRow, Exists, server, cluster
  <1>24. ASSUME NEW c \in Conns, ReadError(c) PROVE TypeOK'
    BY <1>24 DEF TypeOK, Rows, ReqPC, ConnPC, ReadError, Goto, server, cluster
  <1>25. ASSUME NEW c \in Conns, ConnMarksIdle(c) PROVE TypeOK'
    BY <1>25 DEF TypeOK, Rows, ReqPC, ConnPC, ConnMarksIdle, Goto, UpdatedRow,
        Exists, server, cluster
  <1>26. ASSUME NEW c \in Conns, Unregister(c) PROVE TypeOK'
    BY <1>26 DEF TypeOK, Rows, ReqPC, ConnPC, Unregister, Goto, server,
        cluster
  <1>27. ASSUME NEW c \in Conns, Boot(c) PROVE TypeOK'
    BY <1>27 DEF TypeOK, Rows, ReqPC, ConnPC, Boot, Goto, server, cluster
  <1>28. ASSUME Create PROVE TypeOK'
    BY <1>28 DEF TypeOK, Rows, ReqPC, ConnPC, Create, server, cluster
  <1>29. ASSUME Mount PROVE TypeOK'
    BY <1>29 DEF TypeOK, Rows, ReqPC, ConnPC, Mount, server, cluster
  <1>30. ASSUME Exit PROVE TypeOK'
    BY <1>30 DEF TypeOK, Rows, ReqPC, ConnPC, Exit, ProcessEnds, server,
        cluster
  <1>31. ASSUME Crash PROVE TypeOK'
    BY <1>31 DEF TypeOK, Rows, ReqPC, ConnPC, Crash, ProcessEnds, server,
        cluster
  <1>32. ASSUME Evict PROVE TypeOK'
    BY <1>32 DEF TypeOK, Rows, ReqPC, ConnPC, Evict, server, cluster
  <1>33. ASSUME RemovePod PROVE TypeOK'
    BY <1>33 DEF TypeOK, Rows, ReqPC, ConnPC, RemovePod, server, cluster
  <1>34. ASSUME Restart PROVE TypeOK'
    BY <1>34 DEF TypeOK, Rows, ReqPC, ConnPC, Restart, InFlight, server,
        cluster
  <1>36. ASSUME RemovePVC PROVE TypeOK'
    BY <1>36 DEF TypeOK, Rows, ReqPC, ConnPC, RemovePVC, server, cluster
  <1>35. CASE UNCHANGED vars
    BY <1>35 DEF TypeOK, Rows, ReqPC, ConnPC, vars
  <1> QED BY <1>1, <1>2, <1>3, <1>4, <1>5, <1>6, <1>7, <1>8, <1>9, <1>10,
        <1>11, <1>12, <1>13, <1>14, <1>15, <1>16, <1>17, <1>18, <1>19, <1>20,
        <1>21, <1>22, <1>23, <1>24, <1>25, <1>26, <1>27, <1>28, <1>29, <1>30,
        <1>31, <1>32, <1>33, <1>34, <1>35, <1>36
    DEF Next, StartStep, StopStep, ConnStep

\* TypeOK holds of every behaviour of the lifecycle.
THEOREM LifecycleTypeCorrect == Spec => []TypeOK
  BY InitTypeOK, NextTypeOK, PTL DEF Spec

-----------------------------------------------------------------------------
\* A request begins only when no other is in flight.
LEMMA NextOneAtATime == ASSUME TypeOK, OneAtATime, [Next]_vars PROVE OneAtATime'
  <1>1. ASSUME NEW r \in Reqs, Begin(r) PROVE OneAtATime'
    BY <1>1 DEF TypeOK, OneAtATime, InFlight, Begin, Goto, Exists, server,
        cluster
  <1>2. ASSUME NEW r \in Reqs, Resolve(r) PROVE OneAtATime'
    BY <1>2 DEF TypeOK, OneAtATime, InFlight, Resolve, Goto, server, cluster
  <1>3. ASSUME NEW r \in Reqs, IssueToken(r) PROVE OneAtATime'
    BY <1>3 DEF TypeOK, OneAtATime, InFlight, IssueToken, Goto, server,
        cluster
  <1>4. ASSUME NEW r \in Reqs, MarkStarting(r) PROVE OneAtATime'
    BY <1>4 DEF TypeOK, OneAtATime, InFlight, MarkStarting, Goto, Call,
        Exists, server, cluster
  <1>5. ASSUME NEW r \in Reqs, CreateOrUpdateSecret(r) PROVE OneAtATime'
    BY <1>5 DEF TypeOK, OneAtATime, InFlight, CreateOrUpdateSecret, Goto,
        Call, server, cluster
  <1>6. ASSUME NEW r \in Reqs, CreateOrUpdatePVC(r) PROVE OneAtATime'
    BY <1>6 DEF TypeOK, OneAtATime, InFlight, CreateOrUpdatePVC, Goto, Call,
        server, cluster
  <1>7. ASSUME NEW r \in Reqs, CreateOrUpdateNetworkPolicy(r) PROVE OneAtATime'
    BY <1>7 DEF TypeOK, OneAtATime, InFlight, CreateOrUpdateNetworkPolicy,
        Goto, Call, server, cluster
  <1>8. ASSUME NEW r \in Reqs, CreateOrUpdatePod(r) PROVE OneAtATime'
    BY <1>8 DEF TypeOK, OneAtATime, InFlight, CreateOrUpdatePod, Goto, Call,
        server, cluster
  <1>9. ASSUME NEW r \in Reqs, WaitForPodReady(r) PROVE OneAtATime'
    BY <1>9 DEF TypeOK, OneAtATime, InFlight, WaitForPodReady, PodReady, Goto,
        server, cluster
  <1>10. ASSUME NEW r \in Reqs, MarkRunning(r) PROVE OneAtATime'
    BY <1>10 DEF TypeOK, OneAtATime, InFlight, MarkRunning, Goto, Call,
        CallIgnoringError, UpdatedRow, Exists, server, cluster
  <1>11. ASSUME NEW r \in Reqs, MarkFailed(r) PROVE OneAtATime'
    BY <1>11 DEF TypeOK, OneAtATime, InFlight, MarkFailed, Goto, Call,
        CallIgnoringError, UpdatedRow, Exists, server, cluster
  <1>12. ASSUME NEW r \in Reqs, DeletePod(r) PROVE OneAtATime'
    BY <1>12 DEF TypeOK, OneAtATime, InFlight, DeletePod, Goto, Call,
        OnStopError, PodFound, server, cluster
  <1>13. ASSUME NEW r \in Reqs, DeleteNetworkPolicy(r) PROVE OneAtATime'
    BY <1>13 DEF TypeOK, OneAtATime, InFlight, DeleteNetworkPolicy, Goto,
        Call, OnStopError, server, cluster
  <1>14. ASSUME NEW r \in Reqs, DeleteSecret(r) PROVE OneAtATime'
    BY <1>14 DEF TypeOK, OneAtATime, InFlight, DeleteSecret, Goto, Call,
        OnStopError, server, cluster
  <1>15. ASSUME NEW r \in Reqs, DeleteWorkspace(r) PROVE OneAtATime'
    BY <1>15 DEF TypeOK, OneAtATime, InFlight, DeleteWorkspace, Goto, Call,
        OnStopError, server, cluster
  <1>16. ASSUME NEW r \in Reqs, Revoke(r) PROVE OneAtATime'
    BY <1>16 DEF TypeOK, OneAtATime, InFlight, Revoke, Goto, server, cluster
  <1>17. ASSUME NEW r \in Reqs, MarkStopped(r) PROVE OneAtATime'
    BY <1>17 DEF TypeOK, OneAtATime, InFlight, MarkStopped, Goto, Call,
        CallIgnoringError, UpdatedRow, Exists, server, cluster
  <1>18. ASSUME NEW r \in Reqs, DeleteRow(r) PROVE OneAtATime'
    BY <1>18 DEF TypeOK, OneAtATime, InFlight, DeleteRow, Goto, Call,
        CallIgnoringError, server, cluster
  <1>19. ASSUME NEW r \in Reqs, ClientLeaves(r) PROVE OneAtATime'
    BY <1>19 DEF TypeOK, OneAtATime, InFlight, ClientLeaves, server, cluster
  <1>20. ASSUME NEW c \in Conns, Hello(c) PROVE OneAtATime'
    BY <1>20 DEF TypeOK, OneAtATime, InFlight, Hello, Goto, server, cluster
  <1>21. ASSUME NEW c \in Conns, HelloLost(c) PROVE OneAtATime'
    BY <1>21 DEF TypeOK, OneAtATime, InFlight, HelloLost, Goto, server,
        cluster
  <1>22. ASSUME NEW c \in Conns, Register(c) PROVE OneAtATime'
    BY <1>22 DEF TypeOK, OneAtATime, InFlight, Register, Goto,
        server, cluster
  <1>23. ASSUME NEW c \in Conns, ConnMarksRunning(c) PROVE OneAtATime'
    BY <1>23 DEF TypeOK, OneAtATime, InFlight, ConnMarksRunning, Goto,
        UpdatedRow, Exists, server, cluster
  <1>24. ASSUME NEW c \in Conns, ReadError(c) PROVE OneAtATime'
    BY <1>24 DEF TypeOK, OneAtATime, InFlight, ReadError, Goto, server,
        cluster
  <1>25. ASSUME NEW c \in Conns, ConnMarksIdle(c) PROVE OneAtATime'
    BY <1>25 DEF TypeOK, OneAtATime, InFlight, ConnMarksIdle, Goto,
        UpdatedRow, Exists, server, cluster
  <1>26. ASSUME NEW c \in Conns, Unregister(c) PROVE OneAtATime'
    BY <1>26 DEF TypeOK, OneAtATime, InFlight, Unregister, Goto, server,
        cluster
  <1>27. ASSUME NEW c \in Conns, Boot(c) PROVE OneAtATime'
    BY <1>27 DEF TypeOK, OneAtATime, InFlight, Boot, Goto, server, cluster
  <1>28. ASSUME Create PROVE OneAtATime'
    BY <1>28 DEF TypeOK, OneAtATime, InFlight, Create, server, cluster
  <1>29. ASSUME Mount PROVE OneAtATime'
    BY <1>29 DEF TypeOK, OneAtATime, InFlight, Mount, server, cluster
  <1>30. ASSUME Exit PROVE OneAtATime'
    BY <1>30 DEF TypeOK, OneAtATime, InFlight, Exit, ProcessEnds, server,
        cluster
  <1>31. ASSUME Crash PROVE OneAtATime'
    BY <1>31 DEF TypeOK, OneAtATime, InFlight, Crash, ProcessEnds, server,
        cluster
  <1>32. ASSUME Evict PROVE OneAtATime'
    BY <1>32 DEF TypeOK, OneAtATime, InFlight, Evict, server, cluster
  <1>33. ASSUME RemovePod PROVE OneAtATime'
    BY <1>33 DEF TypeOK, OneAtATime, InFlight, RemovePod, server, cluster
  <1>34. ASSUME Restart PROVE OneAtATime'
    BY <1>34 DEF TypeOK, OneAtATime, InFlight, Restart, server, cluster
  <1>36. ASSUME RemovePVC PROVE OneAtATime'
    BY <1>36 DEF TypeOK, OneAtATime, InFlight, RemovePVC, server, cluster
  <1>35. CASE UNCHANGED vars
    BY <1>35 DEF TypeOK, OneAtATime, InFlight, vars
  <1> QED BY <1>1, <1>2, <1>3, <1>4, <1>5, <1>6, <1>7, <1>8, <1>9, <1>10,
        <1>11, <1>12, <1>13, <1>14, <1>15, <1>16, <1>17, <1>18, <1>19, <1>20,
        <1>21, <1>22, <1>23, <1>24, <1>25, <1>26, <1>27, <1>28, <1>29, <1>30,
        <1>31, <1>32, <1>33, <1>34, <1>35, <1>36
    DEF Next, StartStep, StopStep, ConnStep

\* No action beside a start undoes what the start has done.
LEMMA NextStartProgress ==
  ASSUME Serial, TypeOK, OneAtATime, StartProgress, [Next]_vars
  PROVE  StartProgress'
  <1>1. ASSUME NEW r \in Reqs, Begin(r) PROVE StartProgress'
    BY <1>1 DEF TypeOK, OneAtATime, InFlight, StartProgress, Begin, Goto,
        Exists, server, cluster
  <1>2. ASSUME NEW r \in Reqs, Resolve(r) PROVE StartProgress'
    BY <1>2 DEF TypeOK, OneAtATime, InFlight, StartProgress, Resolve, Goto,
        server, cluster
  <1>3. ASSUME NEW r \in Reqs, IssueToken(r) PROVE StartProgress'
    BY <1>3 DEF TypeOK, OneAtATime, InFlight, StartProgress, IssueToken, Goto,
        server, cluster
  <1>4. ASSUME NEW r \in Reqs, MarkStarting(r) PROVE StartProgress'
    BY <1>4 DEF TypeOK, OneAtATime, InFlight, StartProgress, MarkStarting,
        Goto, Call, Exists, server, cluster
  <1>5. ASSUME NEW r \in Reqs, CreateOrUpdateSecret(r) PROVE StartProgress'
    BY <1>5 DEF TypeOK, OneAtATime, InFlight, StartProgress,
        CreateOrUpdateSecret, Goto, Call, server, cluster
  <1>6. ASSUME NEW r \in Reqs, CreateOrUpdatePVC(r) PROVE StartProgress'
    BY <1>6 DEF TypeOK, OneAtATime, InFlight, StartProgress,
        CreateOrUpdatePVC, Goto, Call, server, cluster
  <1>7. ASSUME NEW r \in Reqs, CreateOrUpdateNetworkPolicy(r) PROVE StartProgress'
    BY <1>7 DEF TypeOK, OneAtATime, InFlight, StartProgress,
        CreateOrUpdateNetworkPolicy, Goto, Call, server, cluster
  <1>8. ASSUME NEW r \in Reqs, CreateOrUpdatePod(r) PROVE StartProgress'
    BY <1>8 DEF TypeOK, OneAtATime, InFlight, StartProgress,
        CreateOrUpdatePod, Goto, Call, server, cluster
  <1>9. ASSUME NEW r \in Reqs, WaitForPodReady(r) PROVE StartProgress'
    BY <1>9 DEF TypeOK, OneAtATime, InFlight, StartProgress, WaitForPodReady,
        PodReady, Goto, server, cluster
  <1>10. ASSUME NEW r \in Reqs, MarkRunning(r) PROVE StartProgress'
    BY <1>10 DEF TypeOK, OneAtATime, InFlight, StartProgress, MarkRunning,
        Goto, Call, CallIgnoringError, UpdatedRow, Exists, server, cluster
  <1>11. ASSUME NEW r \in Reqs, MarkFailed(r) PROVE StartProgress'
    BY <1>11 DEF TypeOK, OneAtATime, InFlight, StartProgress, MarkFailed,
        Goto, Call, CallIgnoringError, UpdatedRow, Exists, server, cluster
  <1>12. ASSUME NEW r \in Reqs, DeletePod(r) PROVE StartProgress'
    BY <1>12 DEF TypeOK, OneAtATime, InFlight, StartProgress, DeletePod, Goto,
        Call, OnStopError, PodFound, server, cluster
  <1>13. ASSUME NEW r \in Reqs, DeleteNetworkPolicy(r) PROVE StartProgress'
    BY <1>13 DEF TypeOK, OneAtATime, InFlight, StartProgress,
        DeleteNetworkPolicy, Goto, Call, OnStopError, server, cluster
  <1>14. ASSUME NEW r \in Reqs, DeleteSecret(r) PROVE StartProgress'
    BY <1>14 DEF TypeOK, OneAtATime, InFlight, StartProgress, DeleteSecret,
        Goto, Call, OnStopError, server, cluster
  <1>15. ASSUME NEW r \in Reqs, DeleteWorkspace(r) PROVE StartProgress'
    BY <1>15 DEF TypeOK, OneAtATime, InFlight, StartProgress, DeleteWorkspace,
        Goto, Call, OnStopError, server, cluster
  <1>16. ASSUME NEW r \in Reqs, Revoke(r) PROVE StartProgress'
    BY <1>16 DEF TypeOK, OneAtATime, InFlight, StartProgress, Revoke, Goto,
        server, cluster
  <1>17. ASSUME NEW r \in Reqs, MarkStopped(r) PROVE StartProgress'
    BY <1>17 DEF TypeOK, OneAtATime, InFlight, StartProgress, MarkStopped,
        Goto, Call, CallIgnoringError, UpdatedRow, Exists, server, cluster
  <1>18. ASSUME NEW r \in Reqs, DeleteRow(r) PROVE StartProgress'
    BY <1>18 DEF TypeOK, OneAtATime, InFlight, StartProgress, DeleteRow, Goto,
        Call, CallIgnoringError, server, cluster
  <1>19. ASSUME NEW r \in Reqs, ClientLeaves(r) PROVE StartProgress'
    BY <1>19 DEF TypeOK, OneAtATime, InFlight, StartProgress, ClientLeaves,
        server, cluster
  <1>20. ASSUME NEW c \in Conns, Hello(c) PROVE StartProgress'
    BY <1>20 DEF TypeOK, OneAtATime, InFlight, StartProgress, Hello, Goto,
        server, cluster
  <1>21. ASSUME NEW c \in Conns, HelloLost(c) PROVE StartProgress'
    BY <1>21 DEF TypeOK, OneAtATime, InFlight, StartProgress, HelloLost, Goto,
        server, cluster
  <1>22. ASSUME NEW c \in Conns, Register(c) PROVE StartProgress'
    BY <1>22 DEF TypeOK, OneAtATime, InFlight, StartProgress, Register, Goto,
        server, cluster
  <1>23. ASSUME NEW c \in Conns, ConnMarksRunning(c) PROVE StartProgress'
    BY <1>23 DEF TypeOK, OneAtATime, InFlight, StartProgress,
        ConnMarksRunning, Goto, UpdatedRow, Exists, server, cluster
  <1>24. ASSUME NEW c \in Conns, ReadError(c) PROVE StartProgress'
    BY <1>24 DEF TypeOK, OneAtATime, InFlight, StartProgress, ReadError, Goto,
        server, cluster
  <1>25. ASSUME NEW c \in Conns, ConnMarksIdle(c) PROVE StartProgress'
    BY <1>25 DEF TypeOK, OneAtATime, InFlight, StartProgress, ConnMarksIdle,
        Goto, UpdatedRow, Exists, server, cluster
  <1>26. ASSUME NEW c \in Conns, Unregister(c) PROVE StartProgress'
    BY <1>26 DEF TypeOK, OneAtATime, InFlight, StartProgress, Unregister,
        Goto, server, cluster
  <1>27. ASSUME NEW c \in Conns, Boot(c) PROVE StartProgress'
    BY <1>27 DEF TypeOK, OneAtATime, InFlight, StartProgress, Boot, Goto,
        server, cluster
  <1>28. ASSUME Create PROVE StartProgress'
    BY <1>28 DEF TypeOK, OneAtATime, InFlight, StartProgress, Create, server,
        cluster
  <1>29. ASSUME Mount PROVE StartProgress'
    BY <1>29 DEF TypeOK, OneAtATime, InFlight, StartProgress, Mount, server,
        cluster
  <1>30. ASSUME Exit PROVE StartProgress'
    BY <1>30 DEF TypeOK, OneAtATime, InFlight, StartProgress, Exit,
        ProcessEnds, server, cluster
  <1>31. ASSUME Crash PROVE StartProgress'
    BY <1>31 DEF TypeOK, OneAtATime, InFlight, StartProgress, Crash,
        ProcessEnds, server, cluster
  <1>32. ASSUME Evict PROVE StartProgress'
    BY <1>32 DEF TypeOK, OneAtATime, InFlight, StartProgress, Evict, server,
        cluster
  <1>33. ASSUME RemovePod PROVE StartProgress'
    BY <1>33 DEF TypeOK, OneAtATime, InFlight, StartProgress, RemovePod,
        server, cluster
  <1>34. ASSUME Restart PROVE StartProgress'
    BY <1>34 DEF TypeOK, OneAtATime, InFlight, StartProgress, Restart, server,
        cluster
  <1>36. ASSUME RemovePVC PROVE StartProgress'
    BY <1>36 DEF TypeOK, OneAtATime, InFlight, StartProgress, RemovePVC,
        server, cluster
  <1>35. CASE UNCHANGED vars
    BY <1>35 DEF TypeOK, OneAtATime, InFlight, StartProgress, vars
  <1> QED BY <1>1, <1>2, <1>3, <1>4, <1>5, <1>6, <1>7, <1>8, <1>9, <1>10,
        <1>11, <1>12, <1>13, <1>14, <1>15, <1>16, <1>17, <1>18, <1>19, <1>20,
        <1>21, <1>22, <1>23, <1>24, <1>25, <1>26, <1>27, <1>28, <1>29, <1>30,
        <1>31, <1>32, <1>33, <1>34, <1>35, <1>36
    DEF Next, StartStep, StopStep, ConnStep

\* No action beside a stop restores what the stop has taken away.
LEMMA NextStopProgress ==
  ASSUME Serial, TypeOK, OneAtATime, StopProgress, [Next]_vars
  PROVE  StopProgress'
  <1>1. ASSUME NEW r \in Reqs, Begin(r) PROVE StopProgress'
    BY <1>1 DEF TypeOK, OneAtATime, InFlight, StopProgress, Begin, Goto,
        Exists, server, cluster
  <1>2. ASSUME NEW r \in Reqs, Resolve(r) PROVE StopProgress'
    BY <1>2 DEF TypeOK, OneAtATime, InFlight, StopProgress, Resolve, Goto,
        server, cluster
  <1>3. ASSUME NEW r \in Reqs, IssueToken(r) PROVE StopProgress'
    BY <1>3 DEF TypeOK, OneAtATime, InFlight, StopProgress, IssueToken, Goto,
        server, cluster
  <1>4. ASSUME NEW r \in Reqs, MarkStarting(r) PROVE StopProgress'
    BY <1>4 DEF TypeOK, OneAtATime, InFlight, StopProgress, MarkStarting,
        Goto, Call, Exists, server, cluster
  <1>5. ASSUME NEW r \in Reqs, CreateOrUpdateSecret(r) PROVE StopProgress'
    BY <1>5 DEF TypeOK, OneAtATime, InFlight, StopProgress,
        CreateOrUpdateSecret, Goto, Call, server, cluster
  <1>6. ASSUME NEW r \in Reqs, CreateOrUpdatePVC(r) PROVE StopProgress'
    BY <1>6 DEF TypeOK, OneAtATime, InFlight, StopProgress, CreateOrUpdatePVC,
        Goto, Call, server, cluster
  <1>7. ASSUME NEW r \in Reqs, CreateOrUpdateNetworkPolicy(r) PROVE StopProgress'
    BY <1>7 DEF TypeOK, OneAtATime, InFlight, StopProgress,
        CreateOrUpdateNetworkPolicy, Goto, Call, server, cluster
  <1>8. ASSUME NEW r \in Reqs, CreateOrUpdatePod(r) PROVE StopProgress'
    BY <1>8 DEF TypeOK, OneAtATime, InFlight, StopProgress, CreateOrUpdatePod,
        Goto, Call, server, cluster
  <1>9. ASSUME NEW r \in Reqs, WaitForPodReady(r) PROVE StopProgress'
    BY <1>9 DEF TypeOK, OneAtATime, InFlight, StopProgress, WaitForPodReady,
        PodReady, Goto, server, cluster
  <1>10. ASSUME NEW r \in Reqs, MarkRunning(r) PROVE StopProgress'
    BY <1>10 DEF TypeOK, OneAtATime, InFlight, StopProgress, MarkRunning,
        Goto, Call, CallIgnoringError, UpdatedRow, Exists, server, cluster
  <1>11. ASSUME NEW r \in Reqs, MarkFailed(r) PROVE StopProgress'
    BY <1>11 DEF TypeOK, OneAtATime, InFlight, StopProgress, MarkFailed, Goto,
        Call, CallIgnoringError, UpdatedRow, Exists, server, cluster
  <1>12. ASSUME NEW r \in Reqs, DeletePod(r) PROVE StopProgress'
    BY <1>12, ZenonT(60)
       DEF TypeOK, OneAtATime, InFlight, StopProgress, DeletePod, Goto,
        Call, OnStopError, PodFound, server, cluster
  <1>13. ASSUME NEW r \in Reqs, DeleteNetworkPolicy(r) PROVE StopProgress'
    BY <1>13 DEF TypeOK, OneAtATime, InFlight, StopProgress,
        DeleteNetworkPolicy, Goto, Call, OnStopError, server, cluster
  <1>14. ASSUME NEW r \in Reqs, DeleteSecret(r) PROVE StopProgress'
    BY <1>14 DEF TypeOK, OneAtATime, InFlight, StopProgress, DeleteSecret,
        Goto, Call, OnStopError, server, cluster
  <1>15. ASSUME NEW r \in Reqs, DeleteWorkspace(r) PROVE StopProgress'
    BY <1>15 DEF TypeOK, OneAtATime, InFlight, StopProgress, DeleteWorkspace,
        Goto, Call, OnStopError, server, cluster
  <1>16. ASSUME NEW r \in Reqs, Revoke(r) PROVE StopProgress'
    BY <1>16 DEF TypeOK, OneAtATime, InFlight, StopProgress, Revoke, Goto,
        server, cluster
  <1>17. ASSUME NEW r \in Reqs, MarkStopped(r) PROVE StopProgress'
    BY <1>17 DEF TypeOK, OneAtATime, InFlight, StopProgress, MarkStopped,
        Goto, Call, CallIgnoringError, UpdatedRow, Exists, server, cluster
  <1>18. ASSUME NEW r \in Reqs, DeleteRow(r) PROVE StopProgress'
    BY <1>18 DEF TypeOK, OneAtATime, InFlight, StopProgress, DeleteRow, Goto,
        Call, CallIgnoringError, server, cluster
  <1>19. ASSUME NEW r \in Reqs, ClientLeaves(r) PROVE StopProgress'
    BY <1>19 DEF TypeOK, OneAtATime, InFlight, StopProgress, ClientLeaves,
        server, cluster
  <1>20. ASSUME NEW c \in Conns, Hello(c) PROVE StopProgress'
    BY <1>20 DEF TypeOK, OneAtATime, InFlight, StopProgress, Hello, Goto,
        server, cluster
  <1>21. ASSUME NEW c \in Conns, HelloLost(c) PROVE StopProgress'
    BY <1>21 DEF TypeOK, OneAtATime, InFlight, StopProgress, HelloLost, Goto,
        server, cluster
  <1>22. ASSUME NEW c \in Conns, Register(c) PROVE StopProgress'
    BY <1>22 DEF TypeOK, OneAtATime, InFlight, StopProgress, Register, Goto,
        server, cluster
  <1>23. ASSUME NEW c \in Conns, ConnMarksRunning(c) PROVE StopProgress'
    BY <1>23 DEF TypeOK, OneAtATime, InFlight, StopProgress, ConnMarksRunning,
        Goto, UpdatedRow, Exists, server, cluster
  <1>24. ASSUME NEW c \in Conns, ReadError(c) PROVE StopProgress'
    BY <1>24 DEF TypeOK, OneAtATime, InFlight, StopProgress, ReadError, Goto,
        server, cluster
  <1>25. ASSUME NEW c \in Conns, ConnMarksIdle(c) PROVE StopProgress'
    BY <1>25 DEF TypeOK, OneAtATime, InFlight, StopProgress, ConnMarksIdle,
        Goto, UpdatedRow, Exists, server, cluster
  <1>26. ASSUME NEW c \in Conns, Unregister(c) PROVE StopProgress'
    BY <1>26 DEF TypeOK, OneAtATime, InFlight, StopProgress, Unregister, Goto,
        server, cluster
  <1>27. ASSUME NEW c \in Conns, Boot(c) PROVE StopProgress'
    BY <1>27 DEF TypeOK, OneAtATime, InFlight, StopProgress, Boot, Goto,
        server, cluster
  <1>28. ASSUME Create PROVE StopProgress'
    BY <1>28 DEF TypeOK, OneAtATime, InFlight, StopProgress, Create, server,
        cluster
  <1>29. ASSUME Mount PROVE StopProgress'
    BY <1>29 DEF TypeOK, OneAtATime, InFlight, StopProgress, Mount, server,
        cluster
  <1>30. ASSUME Exit PROVE StopProgress'
    BY <1>30 DEF TypeOK, OneAtATime, InFlight, StopProgress, Exit,
        ProcessEnds, server, cluster
  <1>31. ASSUME Crash PROVE StopProgress'
    BY <1>31 DEF TypeOK, OneAtATime, InFlight, StopProgress, Crash,
        ProcessEnds, server, cluster
  <1>32. ASSUME Evict PROVE StopProgress'
    BY <1>32 DEF TypeOK, OneAtATime, InFlight, StopProgress, Evict, server,
        cluster
  <1>33. ASSUME RemovePod PROVE StopProgress'
    BY <1>33 DEF TypeOK, OneAtATime, InFlight, StopProgress, RemovePod,
        server, cluster
  <1>34. ASSUME Restart PROVE StopProgress'
    BY <1>34 DEF TypeOK, OneAtATime, InFlight, StopProgress, Restart, server,
        cluster
  <1>36. ASSUME RemovePVC PROVE StopProgress'
    BY <1>36 DEF TypeOK, OneAtATime, InFlight, StopProgress, RemovePVC,
        server, cluster
  <1>35. CASE UNCHANGED vars
    BY <1>35 DEF TypeOK, OneAtATime, InFlight, StopProgress, vars
  <1> QED BY <1>1, <1>2, <1>3, <1>4, <1>5, <1>6, <1>7, <1>8, <1>9, <1>10,
        <1>11, <1>12, <1>13, <1>14, <1>15, <1>16, <1>17, <1>18, <1>19, <1>20,
        <1>21, <1>22, <1>23, <1>24, <1>25, <1>26, <1>27, <1>28, <1>29, <1>30,
        <1>31, <1>32, <1>33, <1>34, <1>35, <1>36
    DEF Next, StartStep, StopStep, ConnStep

\* No action takes the workspace from under a Pod that is not being deleted.
LEMMA NextWorkspaceHeld ==
  ASSUME Serial, TypeOK, OneAtATime, WorkspaceHeld, [Next]_vars
  PROVE  WorkspaceHeld'
  <1>1. ASSUME NEW r \in Reqs, Begin(r) PROVE WorkspaceHeld'
    BY <1>1 DEF TypeOK, OneAtATime, InFlight, WorkspaceHeld, Begin, Goto,
        Exists, server, cluster
  <1>2. ASSUME NEW r \in Reqs, Resolve(r) PROVE WorkspaceHeld'
    BY <1>2 DEF TypeOK, OneAtATime, InFlight, WorkspaceHeld, Resolve, Goto,
        server, cluster
  <1>3. ASSUME NEW r \in Reqs, IssueToken(r) PROVE WorkspaceHeld'
    BY <1>3 DEF TypeOK, OneAtATime, InFlight, WorkspaceHeld, IssueToken, Goto,
        server, cluster
  <1>4. ASSUME NEW r \in Reqs, MarkStarting(r) PROVE WorkspaceHeld'
    BY <1>4 DEF TypeOK, OneAtATime, InFlight, WorkspaceHeld, MarkStarting,
        Goto, Call, Exists, server, cluster
  <1>5. ASSUME NEW r \in Reqs, CreateOrUpdateSecret(r) PROVE WorkspaceHeld'
    BY <1>5 DEF TypeOK, OneAtATime, InFlight, WorkspaceHeld,
        CreateOrUpdateSecret, Goto, Call, server, cluster
  <1>6. ASSUME NEW r \in Reqs, CreateOrUpdatePVC(r) PROVE WorkspaceHeld'
    BY <1>6 DEF TypeOK, OneAtATime, InFlight, WorkspaceHeld, CreateOrUpdatePVC,
        Goto, Call, server, cluster
  <1>7. ASSUME NEW r \in Reqs, CreateOrUpdateNetworkPolicy(r) PROVE WorkspaceHeld'
    BY <1>7 DEF TypeOK, OneAtATime, InFlight, WorkspaceHeld,
        CreateOrUpdateNetworkPolicy, Goto, Call, server, cluster
  <1>8. ASSUME NEW r \in Reqs, CreateOrUpdatePod(r) PROVE WorkspaceHeld'
    BY <1>8 DEF TypeOK, OneAtATime, InFlight, WorkspaceHeld, CreateOrUpdatePod,
        Goto, Call, server, cluster
  <1>9. ASSUME NEW r \in Reqs, WaitForPodReady(r) PROVE WorkspaceHeld'
    BY <1>9 DEF TypeOK, OneAtATime, InFlight, WorkspaceHeld, WaitForPodReady,
        PodReady, Goto, server, cluster
  <1>10. ASSUME NEW r \in Reqs, MarkRunning(r) PROVE WorkspaceHeld'
    BY <1>10 DEF TypeOK, OneAtATime, InFlight, WorkspaceHeld, MarkRunning,
        Goto, Call, CallIgnoringError, UpdatedRow, Exists, server, cluster
  <1>11. ASSUME NEW r \in Reqs, MarkFailed(r) PROVE WorkspaceHeld'
    BY <1>11 DEF TypeOK, OneAtATime, InFlight, WorkspaceHeld, MarkFailed, Goto,
        Call, CallIgnoringError, UpdatedRow, Exists, server, cluster
  <1>12. ASSUME NEW r \in Reqs, DeletePod(r) PROVE WorkspaceHeld'
    BY <1>12 DEF TypeOK, OneAtATime, InFlight, WorkspaceHeld, DeletePod, Goto,
        Call, OnStopError, PodFound, server, cluster
  <1>13. ASSUME NEW r \in Reqs, DeleteNetworkPolicy(r) PROVE WorkspaceHeld'
    BY <1>13 DEF TypeOK, OneAtATime, InFlight, WorkspaceHeld,
        DeleteNetworkPolicy, Goto, Call, OnStopError, server, cluster
  <1>14. ASSUME NEW r \in Reqs, DeleteSecret(r) PROVE WorkspaceHeld'
    BY <1>14 DEF TypeOK, OneAtATime, InFlight, WorkspaceHeld, DeleteSecret,
        Goto, Call, OnStopError, server, cluster
  <1>15. ASSUME NEW r \in Reqs, DeleteWorkspace(r) PROVE WorkspaceHeld'
    BY <1>15 DEF TypeOK, OneAtATime, InFlight, WorkspaceHeld, DeleteWorkspace,
        Goto, Call, OnStopError, server, cluster
  <1>16. ASSUME NEW r \in Reqs, Revoke(r) PROVE WorkspaceHeld'
    BY <1>16 DEF TypeOK, OneAtATime, InFlight, WorkspaceHeld, Revoke, Goto,
        server, cluster
  <1>17. ASSUME NEW r \in Reqs, MarkStopped(r) PROVE WorkspaceHeld'
    BY <1>17 DEF TypeOK, OneAtATime, InFlight, WorkspaceHeld, MarkStopped,
        Goto, Call, CallIgnoringError, UpdatedRow, Exists, server, cluster
  <1>18. ASSUME NEW r \in Reqs, DeleteRow(r) PROVE WorkspaceHeld'
    BY <1>18 DEF TypeOK, OneAtATime, InFlight, WorkspaceHeld, DeleteRow, Goto,
        Call, CallIgnoringError, server, cluster
  <1>19. ASSUME NEW r \in Reqs, ClientLeaves(r) PROVE WorkspaceHeld'
    BY <1>19 DEF TypeOK, OneAtATime, InFlight, WorkspaceHeld, ClientLeaves,
        server, cluster
  <1>20. ASSUME NEW c \in Conns, Hello(c) PROVE WorkspaceHeld'
    BY <1>20 DEF TypeOK, OneAtATime, InFlight, WorkspaceHeld, Hello, Goto,
        server, cluster
  <1>21. ASSUME NEW c \in Conns, HelloLost(c) PROVE WorkspaceHeld'
    BY <1>21 DEF TypeOK, OneAtATime, InFlight, WorkspaceHeld, HelloLost, Goto,
        server, cluster
  <1>22. ASSUME NEW c \in Conns, Register(c) PROVE WorkspaceHeld'
    BY <1>22 DEF TypeOK, OneAtATime, InFlight, WorkspaceHeld, Register, Goto,
        server, cluster
  <1>23. ASSUME NEW c \in Conns, ConnMarksRunning(c) PROVE WorkspaceHeld'
    BY <1>23 DEF TypeOK, OneAtATime, InFlight, WorkspaceHeld, ConnMarksRunning,
        Goto, UpdatedRow, Exists, server, cluster
  <1>24. ASSUME NEW c \in Conns, ReadError(c) PROVE WorkspaceHeld'
    BY <1>24 DEF TypeOK, OneAtATime, InFlight, WorkspaceHeld, ReadError, Goto,
        server, cluster
  <1>25. ASSUME NEW c \in Conns, ConnMarksIdle(c) PROVE WorkspaceHeld'
    BY <1>25 DEF TypeOK, OneAtATime, InFlight, WorkspaceHeld, ConnMarksIdle,
        Goto, UpdatedRow, Exists, server, cluster
  <1>26. ASSUME NEW c \in Conns, Unregister(c) PROVE WorkspaceHeld'
    BY <1>26 DEF TypeOK, OneAtATime, InFlight, WorkspaceHeld, Unregister, Goto,
        server, cluster
  <1>27. ASSUME NEW c \in Conns, Boot(c) PROVE WorkspaceHeld'
    BY <1>27 DEF TypeOK, OneAtATime, InFlight, WorkspaceHeld, Boot, Goto,
        server, cluster
  <1>28. ASSUME Create PROVE WorkspaceHeld'
    BY <1>28 DEF TypeOK, OneAtATime, InFlight, WorkspaceHeld, Create, server,
        cluster
  <1>29. ASSUME Mount PROVE WorkspaceHeld'
    BY <1>29 DEF TypeOK, OneAtATime, InFlight, WorkspaceHeld, Mount, server,
        cluster
  <1>30. ASSUME Exit PROVE WorkspaceHeld'
    BY <1>30 DEF TypeOK, OneAtATime, InFlight, WorkspaceHeld, Exit,
        ProcessEnds, server, cluster
  <1>31. ASSUME Crash PROVE WorkspaceHeld'
    BY <1>31 DEF TypeOK, OneAtATime, InFlight, WorkspaceHeld, Crash,
        ProcessEnds, server, cluster
  <1>32. ASSUME Evict PROVE WorkspaceHeld'
    BY <1>32 DEF TypeOK, OneAtATime, InFlight, WorkspaceHeld, Evict, server,
        cluster
  <1>33. ASSUME RemovePod PROVE WorkspaceHeld'
    BY <1>33 DEF TypeOK, OneAtATime, InFlight, WorkspaceHeld, RemovePod,
        server, cluster
  <1>34. ASSUME Restart PROVE WorkspaceHeld'
    BY <1>34 DEF TypeOK, OneAtATime, InFlight, WorkspaceHeld, Restart, server,
        cluster
  <1>36. ASSUME RemovePVC PROVE WorkspaceHeld'
    BY <1>36 DEF TypeOK, OneAtATime, InFlight, WorkspaceHeld, RemovePVC,
        server, cluster
  <1>35. CASE UNCHANGED vars
    BY <1>35 DEF TypeOK, OneAtATime, InFlight, WorkspaceHeld, vars
  <1> QED BY <1>1, <1>2, <1>3, <1>4, <1>5, <1>6, <1>7, <1>8, <1>9, <1>10,
        <1>11, <1>12, <1>13, <1>14, <1>15, <1>16, <1>17, <1>18, <1>19, <1>20,
        <1>21, <1>22, <1>23, <1>24, <1>25, <1>26, <1>27, <1>28, <1>29, <1>30,
        <1>31, <1>32, <1>33, <1>34, <1>35, <1>36
    DEF Next, StartStep, StopStep, ConnStep

\* No action gives a deleted agent a token or a row.
LEMMA NextDeleteProgress ==
  ASSUME Serial, TypeOK, OneAtATime, DeleteProgress, [Next]_vars
  PROVE  DeleteProgress'
  <1>1. ASSUME NEW r \in Reqs, Begin(r) PROVE DeleteProgress'
    BY <1>1 DEF TypeOK, OneAtATime, InFlight, DeleteProgress, Begin, Goto,
        Exists, server, cluster
  <1>2. ASSUME NEW r \in Reqs, Resolve(r) PROVE DeleteProgress'
    BY <1>2 DEF TypeOK, OneAtATime, InFlight, DeleteProgress, Resolve, Goto,
        server, cluster
  <1>3. ASSUME NEW r \in Reqs, IssueToken(r) PROVE DeleteProgress'
    BY <1>3 DEF TypeOK, OneAtATime, InFlight, DeleteProgress, IssueToken,
        Goto, server, cluster
  <1>4. ASSUME NEW r \in Reqs, MarkStarting(r) PROVE DeleteProgress'
    BY <1>4 DEF TypeOK, OneAtATime, InFlight, DeleteProgress, MarkStarting,
        Goto, Call, Exists, server, cluster
  <1>5. ASSUME NEW r \in Reqs, CreateOrUpdateSecret(r) PROVE DeleteProgress'
    BY <1>5 DEF TypeOK, OneAtATime, InFlight, DeleteProgress,
        CreateOrUpdateSecret, Goto, Call, server, cluster
  <1>6. ASSUME NEW r \in Reqs, CreateOrUpdatePVC(r) PROVE DeleteProgress'
    BY <1>6 DEF TypeOK, OneAtATime, InFlight, DeleteProgress,
        CreateOrUpdatePVC, Goto, Call, server, cluster
  <1>7. ASSUME NEW r \in Reqs, CreateOrUpdateNetworkPolicy(r) PROVE DeleteProgress'
    BY <1>7 DEF TypeOK, OneAtATime, InFlight, DeleteProgress,
        CreateOrUpdateNetworkPolicy, Goto, Call, server, cluster
  <1>8. ASSUME NEW r \in Reqs, CreateOrUpdatePod(r) PROVE DeleteProgress'
    BY <1>8 DEF TypeOK, OneAtATime, InFlight, DeleteProgress,
        CreateOrUpdatePod, Goto, Call, server, cluster
  <1>9. ASSUME NEW r \in Reqs, WaitForPodReady(r) PROVE DeleteProgress'
    BY <1>9 DEF TypeOK, OneAtATime, InFlight, DeleteProgress, WaitForPodReady,
        PodReady, Goto, server, cluster
  <1>10. ASSUME NEW r \in Reqs, MarkRunning(r) PROVE DeleteProgress'
    BY <1>10 DEF TypeOK, OneAtATime, InFlight, DeleteProgress, MarkRunning,
        Goto, Call, CallIgnoringError, UpdatedRow, Exists, server, cluster
  <1>11. ASSUME NEW r \in Reqs, MarkFailed(r) PROVE DeleteProgress'
    BY <1>11 DEF TypeOK, OneAtATime, InFlight, DeleteProgress, MarkFailed,
        Goto, Call, CallIgnoringError, UpdatedRow, Exists, server, cluster
  <1>12. ASSUME NEW r \in Reqs, DeletePod(r) PROVE DeleteProgress'
    BY <1>12 DEF TypeOK, OneAtATime, InFlight, DeleteProgress, DeletePod,
        Goto, Call, OnStopError, PodFound, server, cluster
  <1>13. ASSUME NEW r \in Reqs, DeleteNetworkPolicy(r) PROVE DeleteProgress'
    BY <1>13 DEF TypeOK, OneAtATime, InFlight, DeleteProgress,
        DeleteNetworkPolicy, Goto, Call, OnStopError, server, cluster
  <1>14. ASSUME NEW r \in Reqs, DeleteSecret(r) PROVE DeleteProgress'
    BY <1>14 DEF TypeOK, OneAtATime, InFlight, DeleteProgress, DeleteSecret,
        Goto, Call, OnStopError, server, cluster
  <1>15. ASSUME NEW r \in Reqs, DeleteWorkspace(r) PROVE DeleteProgress'
    BY <1>15 DEF TypeOK, OneAtATime, InFlight, DeleteProgress,
        DeleteWorkspace, Goto, Call, OnStopError, server, cluster
  <1>16. ASSUME NEW r \in Reqs, Revoke(r) PROVE DeleteProgress'
    BY <1>16 DEF TypeOK, OneAtATime, InFlight, DeleteProgress, Revoke, Goto,
        server, cluster
  <1>17. ASSUME NEW r \in Reqs, MarkStopped(r) PROVE DeleteProgress'
    BY <1>17 DEF TypeOK, OneAtATime, InFlight, DeleteProgress, MarkStopped,
        Goto, Call, CallIgnoringError, UpdatedRow, Exists, server, cluster
  <1>18. ASSUME NEW r \in Reqs, DeleteRow(r) PROVE DeleteProgress'
    BY <1>18 DEF TypeOK, OneAtATime, InFlight, DeleteProgress, DeleteRow,
        Goto, Call, CallIgnoringError, server, cluster
  <1>19. ASSUME NEW r \in Reqs, ClientLeaves(r) PROVE DeleteProgress'
    BY <1>19 DEF TypeOK, OneAtATime, InFlight, DeleteProgress, ClientLeaves,
        server, cluster
  <1>20. ASSUME NEW c \in Conns, Hello(c) PROVE DeleteProgress'
    BY <1>20 DEF TypeOK, OneAtATime, InFlight, DeleteProgress, Hello, Goto,
        server, cluster
  <1>21. ASSUME NEW c \in Conns, HelloLost(c) PROVE DeleteProgress'
    BY <1>21 DEF TypeOK, OneAtATime, InFlight, DeleteProgress, HelloLost,
        Goto, server, cluster
  <1>22. ASSUME NEW c \in Conns, Register(c) PROVE DeleteProgress'
    BY <1>22 DEF TypeOK, OneAtATime, InFlight, DeleteProgress, Register, Goto,
        server, cluster
  <1>23. ASSUME NEW c \in Conns, ConnMarksRunning(c) PROVE DeleteProgress'
    BY <1>23 DEF TypeOK, OneAtATime, InFlight, DeleteProgress,
        ConnMarksRunning, Goto, UpdatedRow, Exists, server, cluster
  <1>24. ASSUME NEW c \in Conns, ReadError(c) PROVE DeleteProgress'
    BY <1>24 DEF TypeOK, OneAtATime, InFlight, DeleteProgress, ReadError,
        Goto, server, cluster
  <1>25. ASSUME NEW c \in Conns, ConnMarksIdle(c) PROVE DeleteProgress'
    BY <1>25 DEF TypeOK, OneAtATime, InFlight, DeleteProgress, ConnMarksIdle,
        Goto, UpdatedRow, Exists, server, cluster
  <1>26. ASSUME NEW c \in Conns, Unregister(c) PROVE DeleteProgress'
    BY <1>26 DEF TypeOK, OneAtATime, InFlight, DeleteProgress, Unregister,
        Goto, server, cluster
  <1>27. ASSUME NEW c \in Conns, Boot(c) PROVE DeleteProgress'
    BY <1>27 DEF TypeOK, OneAtATime, InFlight, DeleteProgress, Boot, Goto,
        server, cluster
  <1>28. ASSUME Create PROVE DeleteProgress'
    BY <1>28 DEF TypeOK, OneAtATime, InFlight, DeleteProgress, Create, server,
        cluster
  <1>29. ASSUME Mount PROVE DeleteProgress'
    BY <1>29 DEF TypeOK, OneAtATime, InFlight, DeleteProgress, Mount, server,
        cluster
  <1>30. ASSUME Exit PROVE DeleteProgress'
    BY <1>30 DEF TypeOK, OneAtATime, InFlight, DeleteProgress, Exit,
        ProcessEnds, server, cluster
  <1>31. ASSUME Crash PROVE DeleteProgress'
    BY <1>31 DEF TypeOK, OneAtATime, InFlight, DeleteProgress, Crash,
        ProcessEnds, server, cluster
  <1>32. ASSUME Evict PROVE DeleteProgress'
    BY <1>32 DEF TypeOK, OneAtATime, InFlight, DeleteProgress, Evict, server,
        cluster
  <1>33. ASSUME RemovePod PROVE DeleteProgress'
    BY <1>33 DEF TypeOK, OneAtATime, InFlight, DeleteProgress, RemovePod,
        server, cluster
  <1>34. ASSUME Restart PROVE DeleteProgress'
    BY <1>34 DEF TypeOK, OneAtATime, InFlight, DeleteProgress, Restart,
        server, cluster
  <1>36. ASSUME RemovePVC PROVE DeleteProgress'
    BY <1>36 DEF TypeOK, OneAtATime, InFlight, DeleteProgress, RemovePVC,
        server, cluster
  <1>35. CASE UNCHANGED vars
    BY <1>35 DEF TypeOK, OneAtATime, InFlight, DeleteProgress, vars
  <1> QED BY <1>1, <1>2, <1>3, <1>4, <1>5, <1>6, <1>7, <1>8, <1>9, <1>10,
        <1>11, <1>12, <1>13, <1>14, <1>15, <1>16, <1>17, <1>18, <1>19, <1>20,
        <1>21, <1>22, <1>23, <1>24, <1>25, <1>26, <1>27, <1>28, <1>29, <1>30,
        <1>31, <1>32, <1>33, <1>34, <1>35, <1>36
    DEF Next, StartStep, StopStep, ConnStep

-----------------------------------------------------------------------------
\* The strengthening of the three properties of serial requests.
LifecycleInv ==
  /\ TypeOK /\ OneAtATime
  /\ Serial => StartProgress /\ StopProgress /\ DeleteProgress /\ WorkspaceHeld

\* The strengthening holds in every state.
LEMMA LifecycleInvariant == Spec => []LifecycleInv
  <1>1. Init => LifecycleInv
    BY InitTypeOK
    DEF Init, LifecycleInv, OneAtATime, StartProgress, StopProgress,
        DeleteProgress, WorkspaceHeld, InFlight
  <1>2. LifecycleInv /\ [Next]_vars => LifecycleInv'
    BY NextTypeOK, NextOneAtATime, NextStartProgress, NextStopProgress,
       NextDeleteProgress, NextWorkspaceHeld DEF LifecycleInv
  <1> QED BY <1>1, <1>2, PTL DEF Spec

\* A start that is about to report success has everything in place.
THEOREM StartsAreComplete == Spec => []StartedIsComplete
  <1>1. LifecycleInv => StartedIsComplete
    BY DEF LifecycleInv, StartProgress, WorkspaceHeld, StartedIsComplete
  <1> QED BY <1>1, LifecycleInvariant, PTL

\* A stop that is about to report success has left nothing behind.
THEOREM StopsAreClean == Spec => []StoppedIsClean
  <1>1. LifecycleInv => StoppedIsClean
    BY DEF LifecycleInv, StopProgress, StoppedIsClean
  <1> QED BY <1>1, LifecycleInvariant, PTL

-----------------------------------------------------------------------------
\* No update of a deleted agent's state brings its row back.
LEMMA DeletedRowStays ==
  ASSUME row = "deleted", [Next]_vars
  PROVE  row' = "deleted"
  <1>1. ASSUME NEW r \in Reqs, Begin(r) PROVE row' = "deleted"
    BY <1>1 DEF Begin, Goto, Exists, InFlight, server, cluster
  <1>2. ASSUME NEW r \in Reqs, Resolve(r) PROVE row' = "deleted"
    BY <1>2 DEF Resolve, Goto, server, cluster
  <1>3. ASSUME NEW r \in Reqs, IssueToken(r) PROVE row' = "deleted"
    BY <1>3 DEF IssueToken, Goto, server, cluster
  <1>4. ASSUME NEW r \in Reqs, MarkStarting(r) PROVE row' = "deleted"
    BY <1>4 DEF MarkStarting, Goto, Call, Exists, server, cluster
  <1>5. ASSUME NEW r \in Reqs, CreateOrUpdateSecret(r) PROVE row' = "deleted"
    BY <1>5 DEF CreateOrUpdateSecret, Goto, Call, server,
        cluster
  <1>6. ASSUME NEW r \in Reqs, CreateOrUpdatePVC(r) PROVE row' = "deleted"
    BY <1>6 DEF CreateOrUpdatePVC, Goto, Call, server, cluster
  <1>7. ASSUME NEW r \in Reqs, CreateOrUpdateNetworkPolicy(r) PROVE row' = "deleted"
    BY <1>7 DEF CreateOrUpdateNetworkPolicy, Goto, Call, server,
        cluster
  <1>8. ASSUME NEW r \in Reqs, CreateOrUpdatePod(r) PROVE row' = "deleted"
    BY <1>8 DEF CreateOrUpdatePod, Goto, Call, server, cluster
  <1>9. ASSUME NEW r \in Reqs, WaitForPodReady(r) PROVE row' = "deleted"
    BY <1>9 DEF WaitForPodReady, PodReady, Goto, server, cluster
  <1>10. ASSUME NEW r \in Reqs, MarkRunning(r) PROVE row' = "deleted"
    BY <1>10 DEF MarkRunning, Goto, Call, CallIgnoringError, UpdatedRow,
        Exists, server, cluster
  <1>11. ASSUME NEW r \in Reqs, MarkFailed(r) PROVE row' = "deleted"
    BY <1>11 DEF MarkFailed, Goto, Call, CallIgnoringError, UpdatedRow,
        Exists, server, cluster
  <1>12. ASSUME NEW r \in Reqs, DeletePod(r) PROVE row' = "deleted"
    BY <1>12 DEF DeletePod, Goto, Call, OnStopError, PodFound, server, cluster
  <1>13. ASSUME NEW r \in Reqs, DeleteNetworkPolicy(r) PROVE row' = "deleted"
    BY <1>13 DEF DeleteNetworkPolicy, Goto, Call, OnStopError, server, cluster
  <1>14. ASSUME NEW r \in Reqs, DeleteSecret(r) PROVE row' = "deleted"
    BY <1>14 DEF DeleteSecret, Goto, Call, OnStopError, server, cluster
  <1>15. ASSUME NEW r \in Reqs, DeleteWorkspace(r) PROVE row' = "deleted"
    BY <1>15 DEF DeleteWorkspace, Goto, Call, OnStopError, server, cluster
  <1>16. ASSUME NEW r \in Reqs, Revoke(r) PROVE row' = "deleted"
    BY <1>16 DEF Revoke, Goto, server, cluster
  <1>17. ASSUME NEW r \in Reqs, MarkStopped(r) PROVE row' = "deleted"
    BY <1>17 DEF MarkStopped, Goto, Call, CallIgnoringError, UpdatedRow,
        Exists, server, cluster
  <1>18. ASSUME NEW r \in Reqs, DeleteRow(r) PROVE row' = "deleted"
    BY <1>18 DEF DeleteRow, Goto, Call, CallIgnoringError, server, cluster
  <1>19. ASSUME NEW r \in Reqs, ClientLeaves(r) PROVE row' = "deleted"
    BY <1>19 DEF ClientLeaves, InFlight, server, cluster
  <1>20. ASSUME NEW c \in Conns, Hello(c) PROVE row' = "deleted"
    BY <1>20 DEF Hello, Goto, server, cluster
  <1>21. ASSUME NEW c \in Conns, HelloLost(c) PROVE row' = "deleted"
    BY <1>21 DEF HelloLost, Goto, server, cluster
  <1>22. ASSUME NEW c \in Conns, Register(c) PROVE row' = "deleted"
    BY <1>22 DEF Register, Goto, server, cluster
  <1>23. ASSUME NEW c \in Conns, ConnMarksRunning(c) PROVE row' = "deleted"
    BY <1>23 DEF ConnMarksRunning, Goto, UpdatedRow, Exists, server, cluster
  <1>24. ASSUME NEW c \in Conns, ReadError(c) PROVE row' = "deleted"
    BY <1>24 DEF ReadError, Goto, server, cluster
  <1>25. ASSUME NEW c \in Conns, ConnMarksIdle(c) PROVE row' = "deleted"
    BY <1>25 DEF ConnMarksIdle, Goto, UpdatedRow, Exists, server, cluster
  <1>26. ASSUME NEW c \in Conns, Unregister(c) PROVE row' = "deleted"
    BY <1>26 DEF Unregister, Goto, server, cluster
  <1>27. ASSUME NEW c \in Conns, Boot(c) PROVE row' = "deleted"
    BY <1>27 DEF Boot, Goto, server, cluster
  <1>28. ASSUME Create PROVE row' = "deleted"
    BY <1>28 DEF Create, server, cluster
  <1>29. ASSUME Mount PROVE row' = "deleted"
    BY <1>29 DEF Mount, server, cluster
  <1>30. ASSUME Exit PROVE row' = "deleted"
    BY <1>30 DEF Exit, ProcessEnds, server, cluster
  <1>31. ASSUME Crash PROVE row' = "deleted"
    BY <1>31 DEF Crash, ProcessEnds, server, cluster
  <1>32. ASSUME Evict PROVE row' = "deleted"
    BY <1>32 DEF Evict, server, cluster
  <1>33. ASSUME RemovePod PROVE row' = "deleted"
    BY <1>33 DEF RemovePod, server, cluster
  <1>34. ASSUME Restart PROVE row' = "deleted"
    BY <1>34 DEF Restart, InFlight, server, cluster
  <1>36. ASSUME RemovePVC PROVE row' = "deleted"
    BY <1>36 DEF RemovePVC, server, cluster
  <1>35. CASE UNCHANGED vars
    BY <1>35 DEF vars
  <1> QED BY <1>1, <1>2, <1>3, <1>4, <1>5, <1>6, <1>7, <1>8, <1>9, <1>10,
        <1>11, <1>12, <1>13, <1>14, <1>15, <1>16, <1>17, <1>18, <1>19, <1>20,
        <1>21, <1>22, <1>23, <1>24, <1>25, <1>26, <1>27, <1>28, <1>29, <1>30,
        <1>31, <1>32, <1>33, <1>34, <1>35, <1>36
    DEF Next, StartStep, StopStep, ConnStep

\* A deleted agent stays deleted and without an accepted token.
THEOREM DeletesAreForGood == Spec => DeletedForGood
  <1>1. LifecycleInv /\ LifecycleInv' /\ [Next]_vars
          => [Serial /\ row = "deleted" => row' = "deleted" /\ token' = None]_vars
    BY DeletedRowStays DEF LifecycleInv, DeleteProgress
  <1> QED BY <1>1, LifecycleInvariant, PTL DEF Spec, DeletedForGood
=============================================================================
