# TLA+ models of shclop

shclop lets users create agents, start each one in a sandbox (a Kubernetes pod),
and chat with it from a browser through the backend. This directory models the
parts of the backend whose correctness depends on the order in which goroutines,
requests, pods and connections take their steps; TLC checks the models on small
instances and TLAPS proves their main safety properties for every instance.
`PROJECT.json` lists components, runs, mutants, the map from definitions to
source lines, findings, hazards and theorems.

## The system

| Part | State | Operations | Meets | Hard behaviour | Module |
|---|---|---|---|---|---|
| Runtime gateway (`internal/gateway/registry.go`, the two websocket handlers of `internal/api/server.go`) | registered connection per agent, waiter per (agent, message), each waiter's buffered channel | Register, Unregister, SendTask, Dispatch, cancel | browsers, runtimes | two kinds of locks, blocking channel sends, replaced connections, late events | `RuntimeGateway`, `GatewayStream`, `ChatStream` |
| Agent lifecycle (`server.go` handlers, `internal/sandbox/kubernetes_provider.go`) | agent row, accepted token, Secret, PVC, NetworkPolicy, Pod | create, start, stop, delete; runtime connect and disconnect | store, Kubernetes, runtimes | every call may fail part way, clients leave, pods die gracefully, the server restarts | `AgentLifecycle` |
| Runtime process (`cmd/shclop-runtime`) | one connection, one task | dial, run a task, stream events | gateway | a terminal event must always come | in both of the above |
| Store (`internal/store`) | rows, in memory or in Postgres | one statement or one critical section each | all | two implementations that should agree | `MemoryStore`, `PostgresStore`, `StoreCalls`, `StoreRefinement` |
| Plugin registries (`internal/plugins`) | manifests of the file, database and CRD sources, merged map | scan, poll, upsert, delete, rebuild, notify | integrations | rebuilds race, changes missed between snapshot and subscription | `PluginRegistry` |
| Accounts (`internal/auth`, `internal/api/oidc.go`) | sessions in memory, users, identities, state cookies | login, callback, link, disable, logout | store, identity providers | cached users, concurrent first logins | `Accounts` |
| Identity registry (`internal/identity/registry.go`) | providers, their status, mode | boot, reload, retry | accounts | reloads applied out of order | `Accounts` |
| Integrations (`internal/integrations`) | a user's connections, an agent's enabled providers | connect, disconnect, toggle, resolve | store, plugins, lifecycle | whose credentials an agent gets, cascading deletes | `Integrations` |
| MCPServer controller (`internal/controllers`) | work queue, Deployment, Service, NetworkPolicy, status | observe, reconcile, cleanup | Kubernetes | retries, stale copies, failures in cleanup | `MCPController` |

What makes the parts correct: the gateway sends an answer to the chat that asked
and ends every chat; the lifecycle reports success only when it has done all of
its work and leaves nothing behind that lets an old runtime in; the two stores
answer alike; the registries end up with what their sources hold; accounts serve
only who is entitled and never hand an account to a stranger; integrations touch
only their user's agents and starts are complete or fail; the controller forgets
no change.

`PostgresStore` is a library of operators: `Accounts`, `Integrations` and
`PluginRegistry` run on it (`Pg == INSTANCE PostgresStore`), so their handlers
make the calls the code makes, one statement per step where requests interleave.

## History variables and exclusions

Several properties say that two pieces of state agree "except after X", where X is
a race or a failure in which this code does let them differ. Such an X is never
left out of the model: it happens, and a history variable records it at the step
where it happens (`lost`, `past`, `dangling`, `leaked`, `unreported`). The property
then says that nothing but X makes them differ, which no list of tests would show,
and each X is a hazard in `PROJECT.json`. Histories feed no guard.

## RuntimeGateway

One process per runtime connection (`handleRuntimeWebSocket`) and one per browser
chat (`handleWebSocket`), each with a program counter. `runtimes` and `waiters`
are the registry's maps; `events`, `done` and `wmu` are the channel, the closed
`done` channel and the lock of a waiter, which is named by its chat. A critical
section that cannot block is one action, guarded by `mu = None`. `failWaitersLocked`
can block, so it is the actions `FailNext`, `FailLock`, `Fail`, `FailEnd` and `mu`
names its holder. A Go `select` with two ready cases takes either. `Dispatch`
looks up under the lock and delivers after it: `Dispatch`, `DeliverLock`,
`Deliver`, then `RemoveWaiter` and `Cancel`. The runtime at the other end is the
environment: it may send any event (`Read`), leave (`ReadError`), or be rejected
(`Hello`). `got` is a history of what a browser was sent. An event is its message
id, whether it is terminal, and the connection it came from; text, sequence
numbers and sessions are left out.

Left out: the activity log, metrics, the write of `runtime.accepted`, and the
agent's state, which `AgentLifecycle` has. A write to a websocket is one step.

* `gateway_safety`: two connections of one agent, two of its chats with the same
  message id, runtimes that misbehave twice (`MaxStray`) and browsers that leave, as
  an implementation of `ChatStream` (next section). SendTask overwrites the first
  chat's waiter, and whichever chat ends first takes out whatever the map holds; so
  `NoChatForgotten` speaks of the chats in `Unshared`, whose key no other chat has
  used. Cap 1 is enough for a channel to be full while another send waits, two
  strays for an event to be lost before one that arrives. The interesting cases, a
  connection replaced while its predecessor is in every step of a delivery, and a
  waiter replaced by another chat's between lookup and send, all occur. No
  definition names a connection or a chat, so the run is reduced by the symmetry of
  both.
* `gateway_progress`: two chats of one agent with distinct message ids, two
  connections, runtimes that obey and browsers that stay. A third chat beside two
  of one key is left to the theorem, as are chats of different agents that use the
  same message id.
* `gateway_wedge` (violation): one chat whose browser leaves. Cap 1 stands for 16:
  the runtime streams one event more than the channel holds.

Fairness: goroutines are scheduled and `sync.Mutex` is fair to a goroutine that
has waited (its starvation mode), so a handler whose step is enabled again and
again takes it: strong fairness per handler. A runtime answers each task it
received with a terminal event or its connection breaks (`Answer`): the loop of
`cmd/shclop-runtime` adds an error if the adapter ends without one. Nothing is
assumed about when a browser or a runtime leaves.

## ChatStream and GatewayStream

`ChatStream` is what the gateway promises a browser, without locks, maps and
channels: a chat is bound to one connection (`Open`), is shown what that connection
sends about its message in the order of sending (`See`) until the first terminal
event, and may be shown an error of the gateway's own only when the connection is
gone (`Break`). It may end early (`Leave`), so what a browser saw is a prefix of
what was sent; that it does end is `EveryChatEnds`.

`GatewayStream` adds to `RuntimeGateway` the history `sent`: when `Dispatch` has
looked an event up, it is noted for every chat that waits for that connection and
message, those to which the code does not deliver it included. So an event dropped
while a later one is delivered would be a gap. `conn` is `target`, `seen` is `got`;
a chat is over when its handler has left the loop, and a connection is gone when it
was refused, or registered once and no longer. `StreamsInOrder == Stream!Spec` is
checked in `gateway_safety` and proved.

## AgentLifecycle

Everything is keyed by the agent's id, so the model has one agent. Each request's
handler has a program counter; every call to the store or the Kubernetes API is a
step with three outcomes (`Call`): done, done but the answer lost, or failed, and
it can only fail once the request's context is cancelled (`ClientLeaves`). A
start's secret is named by its request. `pod` is the Pod's phase, `running` being
Running and Ready (there is no readiness probe); `deleting` is its deletion
timestamp: a deleted pod runs on for its grace period. `file` is the mounted
token, which the kubelet refreshes; `live` is the connection of the running
process, which reads the file once, dials once and exits when rejected or
disconnected. `pvc` is the workspace's claim: a delete only marks it
`terminating`, it goes when no running Pod has it mounted any more (`RemovePVC`),
and a Pod whose volumes are not yet mounted waits while it is missing or on its
way out (`Mount`). `Restart` loses what the server has in memory. Creation of an
object that exists is an update; for Pod and claim it changes only labels, be they
on their way out or not.

So a start that comes soon after a stop may take a dying claim, or a dying Pod, for
its own. `StartedIsComplete` says what success still means then: token, Secret and
NetworkPolicy are the start's own, and either the Pod it waited for has a workspace
that stays, or that Pod is itself being deleted (finding 3). A *new* Pod cannot
become Ready over a dying claim, and that start fails. `StoppedIsClean` asks of a
stop what its calls can do: no token, Secret or policy left, Pod and claim at least
on their way out.

`Serial` says that the agent's lifecycle requests come one after the other; runtime
connections, pods and restarts always run beside them. The properties of starts,
stops and deletes are stated for serial requests because the handlers take no lock
over an agent; what overlapping requests can do is in the hazards.

* `lifecycle_serial`: two starts, a stop and a delete in all orders, one
  connection, one fault (restart, crash or eviction), workspace deleted on stop.
  Two starts are enough for a start to meet what another left; a third adds
  nothing to a token that is either one's own or another's.
* `lifecycle_progress`: two starts, two connection handlers, one fault. Handler
  names are used again, so the number of reconnections is not bounded.
* `lifecycle_revoke`, `lifecycle_ready` (violations): see the findings.

Fairness: handlers run, the kubelet refreshes mounts and restarts containers, a
rejected process exits, the read of a connection whose peer is gone or that
Register closed fails (weak fairness); a hello that is sent again and again is
read at some time (strong). A process that loses its connection during a task
exits when it next writes or reads, so this also assumes that an adapter's run
ends. Crashes are bounded by `MaxFaults`.

## The stores

`MemoryStore` is `store.go`: a record of slices and maps, each method an operator
from the state to its reply (error, rows, new state), because every method runs
under one lock. `PostgresStore` is `postgres.go`: tables as sets of rows, a method
as the statements it makes, with the keys, references and defaults of the
migrations. `StoreCalls` makes a state machine of the `Store` interface: `Open`
picks a backend, then any method is called with any arguments the callers may
pass; `ans` is the reply. Time stamps, an agent's texts and status words are left
out.

`StoreRefinement` holds the refinement. `PgView` maps slices and maps to the tables
that hold the same (a user's row takes its hash from the map, an empty setting or
the zero gateway record is no row), `AsPostgres` is `StoreCalls` on those tables
with the SQL backend, and `MemoryImplementsPostgres` says that every step of the
in-memory store is a step of `AsPostgres`, reply for reply. Replies are sets of rows: in which order a
method lists its rows is not compared. `CallsAgree` is sharper:
in every state each method, with every argument a caller may pass, gives the reply
and leaves the data of the SQL method *of the same name*, where the refinement is
content with any call that explains the step. The five places at which the stores
really differ are predicates on the state, and calls in `KnownDifference`:

* `NoHash`: `GetPasswordHash` of a user without a password is not found in
  memory and an empty string in SQL (both make a login fail);
* `DisconnectDiffers`: the in-memory `DeleteIntegrationConnection` answers "not
  found" when there is nothing to delete, and switches the provider off for the
  agents of *every* user, although its comment (`store.go:537`) speaks
  of the user's agents; the SQL one does what the comment says;
* `NoAgent`: SQL refuses a switch of an agent that is gone;
* `LeftSwitches`: when such an agent is deleted again, SQL clears its switches before
  it answers "not found"; in memory the switches that `NoAgent` let in stay. The
  proof attempt showed this one: `CallsAgree` failed to follow for `DeleteAgent`,
  while the refinement took the failed delete for a failed `GetAgent`;
* `ZeroGateway`: SQL tells an all-zero gateway row from none.

Run `stores`. `Focuses` is a bound: a behaviour calls the methods of one of six
groups, each with the tables its methods read and write and `CreateUser` where
they need a user. The groups meet only in `users`, whose other methods change no
field that a group besides `accounts` reads. Two names, two subjects, three
identifiers are enough for a key to collide, for a row to be deleted and made
again, and for two users to own agents of one provider. Names and subjects are only
compared, so they are symmetric. `Updatable` lets one agent's state and error be
written, with another agent beside it or two users before it; `CallsAgree` tries
the update of every agent in every state all the same.

## PluginRegistry

State: what the cluster, the table and the directory hold (`crs`, `db`, `files`);
what each source registry has resolved (`resolved`, with `nameToID`, `pathLast`,
`lastHash` for the CRD, file and database registries); `toSend` and `chan`, the
signal between the swap of a list and its receiver, a channel of capacity one that
drops when full (`broadcast`); `reading`, `seen` and `merged`, a rebuild that reads
the sources one by one without a lock and swaps last. `boot` follows `NewServer`:
scan, watch, poll, informers, `Run`'s first rebuild, its three `Subscribe`s. A
document is a model value with the fields `Validate` looks at.

Reads fail: `watcher.Add` may (`BootWatch`), and then nothing watches the directory
for the life of the process, nor when the directory is removed with its last file
(`ChangeFile`); a scan may fail to read the directory or any of its files, keeps
what it had for them and schedules no other (`Scan`); the first poll may fail. A
later poll that fails changes nothing and is a step not taken.

`lost` records the six ways in which a change can go unnoticed: `window` (a signal
between `Run`'s rebuild and its `Subscribe`), `overtaken` (a rebuild swaps in what
it read while another is under way), `unwatched` (a file changed while nothing
watches: between the scan and `watcher.Add`, or after the watcher failed), `unread`
(the last scan could not read everything), `recreated` (a row deleted and made again
between two polls: equal ids and revisions), `renamed` (resources that share or
change `spec.id`). A scan that reads everything takes `unwatched` and `unread` out
again. `ViewFollowsSources` excludes the first two, which are the only ones between
a list and the view; `ViewSettles` asks for a current view once all six are absent
for good. `OnlyValidIsServed`: nothing that
fails `Validate` reaches the merged view, whatever the sources hold and however
their polls, scans and rebuilds interleave. The items of QA_REQUIRED_CHANGES.md on plugins
becoming visible (14.2 to 14.4) hold but for these cases.

Run `plugins`: one resource, one file, the rows of two ids, four documents (two of
one id, one of another, one invalid), two changes (`MaxChanges`; a first poll that fails
counts as one). Two changes are enough for one
to fall into every step of the rebuild of the other; all three sources can hold
the same id at once with an old row in the table from the start.

Fairness: goroutines run, the poll ticker and the debounce timer fire, not every
poll fails, informers deliver. Nobody has to change anything, and no scan or watcher
has to succeed.

## Accounts

A request is one goroutine; its steps are its calls of the store, so two requests
interleave between any two of them. `db` are the tables; `sessions` is the token
map of `auth.Service`, each with the copy of the user that the login saw;
`booted` is `bootstrapAdmin`'s once-per-process flag; `flow` is a single sign-on
attempt, cookie and provider's answer together; `mode`, `snapshot` and `retry` are
the registry of identity providers. `handlePatchAuthSettings` is taken apart into
the write of the mode, the write of a provider's switch, the two unlocked reads of
`Reload` and its critical section. A crash loses sessions, requests and registry;
a sign-in that has begun survives it only if a cookie key is configured. A
`BootstrapAdmin` that fails is not tried again by its process (`HandleLogin`), and a
failed look-up of the username is taken for "no such user" (`LookupFails`), after
which the keys of the table decide.

Histories: every request carries `out` and `low`, the users who have been disabled
and who have been no administrators *ever since* it began; `owned` has the pairs
of identity and user that were ever linked; `past` says why the registry may differ
from the settings (`failed`, `overlapped`), until the next boot reads them again.

Run `accounts`: the administrator, a user called like the email of the one person
who can sign in, one provider, two requests in flight, two sign-on attempts, three
requests in all, one fault. Three requests are what it takes for a login, an
administrator's change and a request with the session that the change is about;
two attempts make two first logins of one person race. The end of an outage is not
a fault, so an issuer that is down at boot, a restart and its return do combine; a
second outage does not.

Fairness: the process is restarted and the retry ticker ticks for every degraded
provider (`ProviderRecovers`).

Places where the code is not what QA_REQUIRED_CHANGES.md asks for; the model
follows the code: mode `local` does not block a single sign-on that is begun by its URL (15.8);
mode `sso` refuses every password, that of the bootstrap administrator too (15.9).
The first login attempt after a restart runs `bootstrapAdmin`, which re-enables
that administrator, resets the password and writes the configured LLM gateway
settings over what an administrator stored.

## Integrations

The steps of a request are its SQL statements; the two deletes of `postgres.go`
that make two statements without a transaction are two steps. A credential is
named by who gave it, in which request, under which key. `registered` and
`servers` are what the plugin registry and the MCP informer serve, and change
freely; the plugins' own servers answer anything (`Answers`). `bound` is the
environment the last start gave to the sandbox. A restart may come with another
encryption key.

A list of integrations (`summary`) is the steps of `BuildSummary`: the first read of
the registry (`HandleListIntegrations`), a connection looked up per registered plugin
(`SummarizeProvider`), the ids of the user's connections (`ListOrphans`), the second
read of the registry for each of them (`ShowOrphan`). Its calls may fail as the code
lets them, with what they were about left out. `due` is the history: the providers
the user has been connected to ever since the list began and which it has not
shown. `SummaryShowsEveryConnection` says that a complete list owes nothing. Two
cases are taken out of `due` by name: a failed call of the list, and a plugin that
is registered between the two reads (`Remember`), too late for the first and known
to the second.

Histories: `revoked` (credentials replaced or disconnected), per start `dead` and
`on` (what was revoked when it began; what has been switched on ever since it
began), and `dangling`, the pairs of user and provider whose disconnect could not
take the switches along: a toggle had already found the connection, the second
statement failed, or the server stopped before it.

Run `integrations`: an owner, an administrator and one agent, one provider of each
kind, two keys, two requests in flight and one list, four of them in all, one change
or failed call. Lists only read, so a second one would show nothing new. Connect, toggle,
disconnect and start are four requests; the administrator is there because a
start uses the credentials of whoever asks for it (`Credential`), while a toggle
asks for the owner's connection.

What a reader of the code may not expect and the model has: a plugin with fields
other than the token can be connected and then fails at every start, because only
the token is stored; a validation whose answer is well formed counts whatever the
answer says (`HTTPValidate`).

## MCPController

`cr` is the cluster, `watch` the events on their way, `cache` the informer's store,
`dirty`, `processing` and `delayed` the work queue with the semantics of
client-go's (external), `work` the workers, one API call per step, `objects` the
Deployments, Services and NetworkPolicies. An update of a resource clears `fresh`
of the workers that have read it: their status update is refused. `Clean` drops
errors as the code does; `Restart` lists what exists and nothing else, there being
no resync. `leaked` has the objects a failed or a missed delete left, `unreported`
the resources whose last status update failed. A third case needs no history: a
resource that no longer converts is skipped and keeps the objects of the last spec
that did, and `Reconciled` asks nothing of it. QA_REQUIRED_CHANGES.md 14.8 expects the
objects of a deleted resource to be gone; `leaked` is when they are not.

Run `mcp_controller`: two resources, two workers, two specs and one that does not
convert, three changes, one fault. Two workers and one key are needed for
`OneWorkerPerKey`, three changes for a resource to be made, changed in the middle
of its reconcile and deleted.

Fairness: the informer delivers, delays end, workers run.

## Findings

1. `gateway_wedge`: `waiter.fail` waits for room in a channel with the registry's
   lock held, while the chat that should make room waits for that lock.
2. `lifecycle_revoke`: the token is checked and the connection registered in two
   steps; a stop between them does not keep the old runtime out.
3. `lifecycle_ready`: a start soon after a stop takes the old, terminating pod for
   its own, reports running, and is left without a pod.

## Proofs

Every theorem is `Spec => []P` or, for the refinements, that the specification
implies an abstract one, for all values of the constants, from the module's named
assumption (types of the parameters, distinctness of names) alone. Bounds
such as `MaxFaults` are arbitrary naturals, so they bound nothing.

`RuntimeGatewayProofs` proves the gateway's six invariants and action properties and
the refinement of `ChatStream`. They are not inductive; the strengthening has four
layers:

* `TypeInv`: types, and that a handler about to use a waiter or an event has one.
* `RoutingInv`: only handlers in `failWaitersLocked` hold `mu`; a waiter sits under
  its own chat's key; the waiter a connection delivers to is waiting for that very
  connection (it was looked up while the connection was registered and the map
  agreed with the registration); registration follows the handler's progress.
  This gives `AnswersComeFromTaskConnection`, `WaitersMatchRuntime` and
  `RegisteredIsOpen`.
* `SettledInv`: a chat is settled when its terminal event is in its channel. Whoever
  closes, removes or cancels the waiter of a chat that still waits has settled it
  first. A chat that leaves `Unshared` never comes back, and a removal under the key
  of a chat in it is its own, or of its own terminal event. This gives
  `NoChatForgotten`.
* `StreamInv`: a waiter is out of the map before it is failed or cancelled
  (`OutOfMap`); the waiters that are failed wait for a connection that is gone
  (`FailedAreLost`); up to the first terminal event, a channel holds the next events
  of `sent`, or the registry's error about a connection that is gone
  (`ChannelInOrder`), and while the chat can still be delivered to, nothing is
  missing but the event in delivery (`UpToDate`). That one is the crux: only the
  connection's own handler delivers, one event at a time, so between its lookup and
  its send nobody can slip another of its events in front, and a handler that fails
  the waiter meanwhile ends the stream. `StepRefines` then has a case per action:
  `Dispatch` is `Say`, `SendTask` is `Open` or `Leave`, `Forward` is `See`, `Break`
  or `Leave`, `Register` and `Unregister` are `Lose`, and what happens to locks, maps
  and channels is a stutter.

`AgentLifecycleProofs` proves type correctness and the three properties of serial
requests. `OneAtATime` says that one request is in flight; `StartProgress`,
`StopProgress` and `DeleteProgress` say what a request has done by the time it is
at each step and that nothing beside it undoes it. `WorkspaceHeld` carries the
workspace: a Pod with mounted volumes that is not being deleted holds a claim that
is not being deleted, so a Pod found Ready has one, or is on its way out, or gone.

`PluginRegistryProofs` proves type correctness, `ViewFollowsSources` and
`OnlyValidIsServed`. `BootInv` ties the goroutines that may rebuild to how far
`NewServer` is; `ReadInv` says that what a rebuild has read is still so, or its
change will be signalled, or a second rebuild is under way, in which case the first
to swap is `overtaken`. `ServedInv` says where invalid documents may be: every list
that a rebuild can read (`resolved`, `seen`, `merged`) holds valid manifests under
their own ids, and a row of the table has the id of its document. That the directory
is finite is needed for its last file to exist.

`AccountsProofs` proves the three safety properties and type correctness. `EntitledInv`: whom a request
must refuse is disabled, or plain, to this moment, so the row that
`enforceCurrentUser` reads cannot be theirs. `OwnedInv`: every link of the table is
in `owned`, and so is what a sign-in has found or made; its flow is spent and can
change no more between its steps. `SettingsInv`: what a `Reload` has read is what
is stored, or another patch is under way. `Shape` has the record shapes these
need; the tables are treated through one lemma per store method.

Types need an invariant of their own, `TypeInv`. A row that is served or cached is
some row of users (`RequestTyped`), and a request in a sign-in has a provider and a
person, because its flow is spent and stays as it is. That `NewID` and a token are
in range rests on counting (`Counted`): the tokens handed out, with the requests
under way, are no more than the requests that have begun, and so are the users,
with the requests that may still create one. A first login that makes the
administrator pays for that row with its own request.

`MCPControllerProofs` proves type correctness, `OneWorkerPerKey` and
`RestMeansReconciled`. `CopyInv`: the informer's copy is the resource, or the last
event under way will make it so. `WorkInv`: a worker works from the latest copy and
what it has applied so far is what that copy asks for, or the key will be taken
again.

`IntegrationsProofs` proves all six properties of its module. The heart of the
invariant is that a credential is in one place: a row, a request that is about to
save it, or `revoked`; with the fact that a credential names its user, a start that
reads a row reads a live credential of whoever asked. For the switches the
invariant also counts the toggles that have passed the check of
`handleAgentIntegration` and not yet written, and says that a switch refers to an
agent that exists, so that the subquery of `DeleteIntegrationConnection` finds its
owner. `SummaryInv` says where a list stands: what it owes is connected, and is still
to be visited, or will be among the ids that `ListOrphans` reads and is not in the
registry. `None` not being a secret is the only assumption besides types.

`StoreProofs` proves all four properties of the stores, `StoreCallProofs` the lemmas
they rest on. The invariant is `StoreInv`: `TablesInv` (keys, references and record
shapes of the tables, or of their image, and identifiers below `fresh`) and, on the
in-memory store, `MemoryInv` (slices without repeated rows, maps over their keys,
no password under a name that is nobody's). Each method has a lemma `<Method>Call`:
the SQL method leaves `TablesInv` and, over a view, the in-memory one agrees with it.
A loop over a slice that looks for a key is the set of the rows with that key, which
has at most one; the loop that copies the rows to keep is a recursive function,
whose value is found from its smallest counterexample (`RemainingIs`), there being
no induction over data. `<Method>Step` lifts this to the action; `Called` collects
the groups of `Next`. The bounds `MaxIds`, `MaxRevision`, `Updatable` and `Focuses`
are arbitrary.

Only model-checked: liveness, which needs fairness (`EveryChatEnds`,
`UnregisterCompletesPendingWaiters`, `ProvisionedRuntimeRegisters`, `ViewSettles`,
`ProviderRecovers`, `ComesToRest`); the three violations.

## Not modelled

* Claw adapters: they run one subprocess or HTTP stream per task; the gateway
  needs that a terminal event or the end of the connection follows, and assumes it
  (`Answer`).
* Docker and mock sandbox providers: one command, or no call.
* Builders of Pods, Secrets and policies: construction of objects; the lifecycle
  and the controller model which exist and from which inputs.
* Security scanner and policy: functions without callers in the program.
* Activity log: a ring that decides nothing.
* Configuration, metrics, logging, template rendering, JSON paths, the Kubernetes
  types' copies, web UI, charts, scripts and images.
* Models and gateway settings have no module of their own: they are single store
  calls, in `StoreCalls`, behind the administrator's check of `Accounts`.
* What becomes of two chats of one agent with the same message id (that it stays
  between them is `NoChatForgotten`), the unlocked write of `runtime.accepted`, overlapping lifecycle requests and the order of writes of an
  agent's state: listed as hazards; the code promises nothing there that a property
  could state.
