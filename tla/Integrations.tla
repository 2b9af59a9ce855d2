---------------------------- MODULE Integrations ----------------------------
(***************************************************************************)
(* integrations/service.go and its handlers in api/server.go: users        *)
(* connect providers with a credential, switch them on for an agent, and   *)
(* starting the agent turns the switches into the environment of its pod.  *)
(* The steps of a request are its calls of the SQL store, of which the two *)
(* deletes have two statements each and no transaction around them.  The   *)
(* registry of plugins and the plugins' own servers answer as they please. *)
(* One list of integrations is being put together beside them: it reads    *)
(* only, so that several would not see of each other.                      *)
(***************************************************************************)
EXTENDS Integers, FiniteSets

CONSTANTS
    None,
    Users,         \* users, with the role of each
    Role,
    Agents,        \* agents, with the owner of each
    Owner,
    Providers,     \* plugin ids, with the manifest of each
    Manifest,
    Keys,          \* values of IntegrationEncryptionKey over time
    Reqs,          \* bound: requests in flight at a time
    MaxRequests,   \* bound: requests
    MaxChanges     \* bound: restarts, failures, changes of the registry

\* An encrypted credential: whose it is, which one, under which key.
Secret == [by : Users, n : 1 .. MaxRequests, key : Keys]

ASSUME IntegrationsAssumption ==
    /\ MaxRequests \in Nat /\ MaxChanges \in Nat
    /\ Role \in [Users -> {"admin", "user"}]
    /\ Owner \in [Agents -> Users]
    /\ None \notin Users \cup Agents \cup Providers \cup Keys \cup Secret

Pg == INSTANCE PostgresStore

VARIABLES
    db,          \* the tables
    registered,  \* providers the plugin registry serves
    servers,     \* MCPServer resources in the informer's cache
    key,         \* the key of the SecretBox
    req,         \* requests in flight
    summary,     \* the list of integrations that is being put together
    bound,       \* agent -> provider -> the credential its last start was given
    begun,       \* requests and lists so far; also numbers the credentials
    changes,     \* restarts, failures and changes of the registry so far
    revoked,     \* history: credentials replaced or disconnected
    dangling     \* history: <<user, provider>> whose disconnect was overtaken

vars == <<db, registered, servers, key, req, summary, bound, begun, changes, revoked,
          dangling>>

NoEnv == [p \in Providers |-> None]

Idle == [pc |-> "idle", user |-> None, agent |-> None, provider |-> None,
         secret |-> None, todo |-> {}, env |-> NoEnv, dead |-> {}, on |-> {}]

\* due: providers connected ever since the list began that it does not show
\* so far.
NoSummary == [pc |-> "idle", user |-> None, todo |-> {}, due |-> {}]

PCs == {"idle", "save", "switches", "toggle", "list", "resolve", "agent", "row"}

TypeOK ==
    /\ \A c \in db.integration_connections :
         c.user \in Users /\ c.provider \in Providers /\ c.secret \in Secret
    /\ \A s \in db.agent_integrations :
         s.agent \in Agents /\ s.provider \in Providers /\ s.enabled \in BOOLEAN
    /\ registered \subseteq Providers
    /\ key \in Keys
    /\ bound \in [Agents -> [Providers -> Secret \cup {None}]]
    /\ req \in [Reqs -> [pc : PCs, user : Users \cup {None}, agent : Agents \cup {None},
                         provider : Providers \cup {None}, secret : Secret \cup {None},
                         todo : SUBSET Providers,
                         env : [Providers -> Secret \cup {None}],
                         dead : SUBSET Secret, on : SUBSET Providers]]
    /\ summary \in [pc : {"idle", "list", "orphans"}, user : Users \cup {None},
                    todo : SUBSET Providers, due : SUBSET Providers]
    /\ begun \in 0 .. MaxRequests /\ changes \in 0 .. MaxChanges
    /\ revoked \subseteq Secret
    /\ dangling \subseteq Users \X Providers

UserOf(u) == Pg!UserRow(u, u, None, Role[u])
AgentOf(a) == [id |-> a, owner |-> Owner[a], state |-> "idle", lastError |-> None]

\* Users and their agents exist, nothing is connected yet.
Init ==
    /\ db = [Pg!EmptyTables EXCEPT !.users = {UserOf(u) : u \in Users},
                                   !.agents = {AgentOf(a) : a \in Agents}]
    /\ registered = Providers /\ servers = TRUE
    /\ key \in Keys
    /\ req = [r \in Reqs |-> Idle] /\ summary = NoSummary
    /\ bound = [a \in Agents |-> NoEnv]
    /\ begun = 0 /\ changes = 0
    /\ revoked = {} /\ dangling = {}
-----------------------------------------------------------------------------
(* Steps of requests *)

EnabledOn(tables, a) ==
    {s.provider : s \in {t \in tables.agent_integrations : t.agent = a /\ t.enabled}}

\* A start forgets the providers that were switched off meanwhile.
Watched(requests, tables) ==
    [r \in Reqs |-> [requests[r] EXCEPT !.on = @ \cap EnabledOn(tables, requests[r].agent)]]

Begin(r, state) ==
    /\ req[r] = Idle /\ begun < MaxRequests
    /\ begun' = begun + 1
    /\ req' = [req EXCEPT ![r] = state]

At(r, pc) == req[r].pc = pc
Goto(r, pc) == req' = [req EXCEPT ![r].pc = pc]
End(r) == req' = [req EXCEPT ![r] = Idle]

\* A write of the tables that ends the request or leads to the next step.
Write(r, state, tables) ==
    /\ db' = tables
    /\ req' = Watched([req EXCEPT ![r] = state], tables)

Row(reply) == CHOOSE row \in reply.rows : TRUE

\* The agent exists and the caller owns it or is an administrator.
MayUse(u, a) ==
    LET found == Pg!GetAgent(db, a)
    IN  found.err = "" /\ (Row(found).owner = u \/ Role[u] = "admin")

\* Credentials of (u, p) in the table.
Stored(u, p) == {c.secret : c \in Pg!GetIntegrationConnection(db, u, p).rows}
-----------------------------------------------------------------------------
(* What a plugin answers: the outcomes of its server *)

Answers == [reached : BOOLEAN, status : {200, 500},
            body : {"connected", "refused", "garbage"}]

\* HTTPEvaluator.Validate: what the body says is extracted, never judged.
HTTPValidate(m, a) ==
    m.kind = "http_template" /\ a.reached /\ a.status \in m.success /\ a.body # "garbage"

\* SidecarClient.Validate.
SidecarValidate(m, a) ==
    m.kind = "sidecar" /\ a.reached /\ a.status \in 200 .. 299 /\ a.body = "connected"

\* HTTPEvaluator.BuildEnv: a template may use the fields it is given, which
\* at this point are the token alone.
HTTPBuildEnv(m, fields) == m.kind = "http_template" /\ m.uses \subseteq fields

\* SidecarClient.BuildEnv.
SidecarBuildEnv(m, a) ==
    m.kind = "sidecar" /\ a.reached /\ a.status \in 200 .. 299 /\ a.body # "garbage"

\* MCPResolver.Resolve: an external server needs its templates, one in the
\* cluster an entry in the informer's cache.
ResolveMCP(m, fields) ==
    \A ref \in m.mcp : /\ ref.uses \subseteq fields
                       /\ ref.external \/ servers
-----------------------------------------------------------------------------
(* Connect *)

HandleConnectIntegration(r, u, p, a) ==
    /\ Begin(r, [Idle EXCEPT !.pc = "save", !.user = u, !.provider = p,
                             !.secret = [by |-> u, n |-> begun + 1, key |-> key]])
    /\ p \in registered
    /\ HTTPValidate(Manifest[p], a) \/ SidecarValidate(Manifest[p], a)
    /\ UNCHANGED <<db, registered, servers, key, bound, changes, revoked, dangling>>

\* Mutant: the encrypted token is left out of the row.
SaveWithoutSecret(r) ==
    /\ At(r, "save")
    /\ Write(r, Idle, Pg!UpsertIntegrationConnection(db, req[r].user, req[r].provider,
                                                     None, 0).db)
    /\ UNCHANGED <<registered, servers, key, bound, begun, changes, revoked, dangling>>

SaveConnection(r) ==
    LET u == req[r].user
        p == req[r].provider
    IN  /\ At(r, "save")
        /\ Write(r, Idle,
                 Pg!UpsertIntegrationConnection(db, u, p, req[r].secret, 0).db)
        /\ revoked' = revoked \cup Stored(u, p)
        /\ UNCHANGED <<registered, servers, key, bound, begun, changes, dangling>>
-----------------------------------------------------------------------------
(* Disconnect: the provider need not be registered *)

HandleDisconnectIntegration(r, u, p) ==
    /\ req[r] = Idle /\ begun < MaxRequests
    /\ begun' = begun + 1
    /\ Write(r, [Idle EXCEPT !.pc = "switches", !.user = u, !.provider = p],
             Pg!DeleteConnectionRow(db, u, p).db)
    /\ revoked' = revoked \cup Stored(u, p)
    /\ UNCHANGED <<registered, servers, key, bound, changes, dangling>>

\* A toggle that has already found the connection.
TogglePending(u, p) ==
    \E q \in Reqs : At(q, "toggle") /\ req[q].provider = p /\ Owner[req[q].agent] = u

\* An error of the second statement is dropped: the answer is "disconnected".
DisconnectSwitches(r) ==
    LET u == req[r].user
        p == req[r].provider
    IN  /\ At(r, "switches")
        /\ \/ /\ Write(r, Idle, Pg!DeleteOwnersSwitches(db, u, p).db)
              /\ dangling' = IF TogglePending(u, p) THEN dangling \cup {<<u, p>>}
                             ELSE dangling
              /\ UNCHANGED changes
           \/ /\ changes < MaxChanges /\ changes' = changes + 1
              /\ End(r)
              /\ dangling' = dangling \cup {<<u, p>>}
              /\ UNCHANGED db
        /\ UNCHANGED <<registered, servers, key, bound, begun, revoked>>
-----------------------------------------------------------------------------
(* handleAgentIntegration *)

\* Mutant: the connection looked for is the caller's.
CallerConnected(u, a, p) == Pg!GetIntegrationConnection(db, u, p).err = ""

\* The owner must have connected, whoever switches and in which direction.
OwnerConnected(u, a, p) == Pg!GetIntegrationConnection(db, Owner[a], p).err = ""

HandleAgentIntegration(r, u, a, p) ==
    /\ Begin(r, [Idle EXCEPT !.pc = "toggle", !.user = u, !.agent = a, !.provider = p])
    /\ MayUse(u, a) /\ OwnerConnected(u, a, p)
    /\ UNCHANGED <<db, registered, servers, key, bound, changes, revoked, dangling>>

\* The agent may be gone by now: the reference is refused.
ToggleAgentIntegration(r, enabled) ==
    /\ At(r, "toggle")
    /\ Write(r, Idle, Pg!UpsertAgentIntegration(db, req[r].agent, req[r].provider,
                                                enabled, 0).db)
    /\ UNCHANGED <<registered, servers, key, bound, begun, changes, revoked, dangling>>
-----------------------------------------------------------------------------
(* Start: ResolveAgentRuntime, before the pod is asked for *)

HandleStartAgent(r, u, a) ==
    /\ Begin(r, [Idle EXCEPT !.pc = "list", !.user = u, !.agent = a,
                             !.dead = revoked, !.on = EnabledOn(db, a)])
    /\ MayUse(u, a)
    /\ UNCHANGED <<db, registered, servers, key, bound, changes, revoked, dangling>>

ListSwitches(r) ==
    /\ At(r, "list")
    /\ req' = [req EXCEPT ![r].pc = "resolve",
         ![r].todo = {s.provider : s \in
             {t \in Pg!ListAgentIntegrations(db, req[r].agent).rows : t.enabled}}]
    /\ UNCHANGED <<db, registered, servers, key, bound, begun, changes, revoked,
                   dangling>>

\* Mutant: the credential is the owner's.
CredentialOfOwner(r, p) == Stored(Owner[req[r].agent], p)

\* The credential is the caller's, also when an administrator starts the
\* agent of someone else.
Credential(r, p) == Stored(req[r].user, p)

Builds(p, a) ==
    LET m == Manifest[p]
    IN  /\ HTTPBuildEnv(m, {"token"}) \/ SidecarBuildEnv(m, a)
        /\ ResolveMCP(m, {"token"})

\* Mutant: a provider without a connection is passed over.
ResolveOrSkip(r, p, a) ==
    /\ p \in req[r].todo
    /\ req' = [req EXCEPT ![r].todo = @ \ {p},
         ![r].env[p] = IF Credential(r, p) = {} THEN None
                       ELSE CHOOSE s \in Credential(r, p) : TRUE]

ResolveProvider(r, p, a) ==
    /\ p \in req[r].todo /\ p \in registered
    /\ \E s \in Credential(r, p) :
         /\ s.key = key          \* DecryptFromString
         /\ req' = [req EXCEPT ![r].todo = @ \ {p}, ![r].env[p] = s]
    /\ Builds(p, a)

Resolve(r) ==
    /\ At(r, "resolve")
    /\ \E p \in Providers, a \in Answers : ResolveProvider(r, p, a)
    /\ UNCHANGED <<db, registered, servers, key, bound, begun, changes, revoked,
                   dangling>>

\* The first provider that is not registered, not connected, not decrypted
\* or not built ends the start: UpdateAgentError, UpdateAgentState.
ResolveFails(r, p, a) ==
    /\ At(r, "resolve") /\ p \in req[r].todo
    /\ \/ p \notin registered
       \/ \A s \in Credential(r, p) : s.key # key
       \/ ~ Builds(p, a)
    /\ LET noted == Pg!UpdateAgentError(db, req[r].agent, "resolution").db
       IN  Write(r, Idle, Pg!UpdateAgentState(noted, req[r].agent, "idle").db)
    /\ UNCHANGED <<registered, servers, key, bound, begun, changes, revoked, dangling>>

\* sandbox.Start gets the environment.
StartSandbox(r) ==
    /\ At(r, "resolve") /\ req[r].todo = {}
    /\ bound' = [bound EXCEPT ![req[r].agent] = req[r].env]
    /\ End(r)
    /\ UNCHANGED <<db, registered, servers, key, begun, changes, revoked, dangling>>
-----------------------------------------------------------------------------
(* handleDeleteAgent *)

HandleDeleteAgent(r, u, a) ==
    /\ Begin(r, [Idle EXCEPT !.pc = "agent", !.user = u, !.agent = a])
    /\ MayUse(u, a)
    /\ UNCHANGED <<db, registered, servers, key, bound, changes, revoked, dangling>>

DeleteAgentSwitches(r) ==
    /\ At(r, "agent")
    /\ Write(r, [req[r] EXCEPT !.pc = "row"], Pg!DeleteAgentSwitches(db, req[r].agent).db)
    /\ UNCHANGED <<registered, servers, key, bound, begun, changes, revoked, dangling>>

DeleteAgentRow(r) ==
    /\ At(r, "row")
    /\ Write(r, Idle, Pg!DeleteAgentRow(db, req[r].agent).db)
    /\ UNCHANGED <<registered, servers, key, bound, begun, changes, revoked, dangling>>
-----------------------------------------------------------------------------
(* BuildSummary: the registry is read at the start and again at the end,   *)
(* the tables in between.  buildAgentBindings only reads and is left out.  *)

ConnectedTo(tables, u) ==
    {c.provider : c \in {d \in tables.integration_connections : d.user = u}}

ReadOnly == UNCHANGED <<db, registered, servers, key, req, bound, revoked, dangling>>

Fails == changes < MaxChanges /\ changes' = changes + 1

HandleListIntegrations(u) ==
    /\ summary = NoSummary /\ begun < MaxRequests
    /\ begun' = begun + 1
    /\ summary' = [NoSummary EXCEPT !.pc = "list", !.user = u, !.todo = registered,
                                    !.due = ConnectedTo(db, u)]
    /\ UNCHANGED changes /\ ReadOnly

\* A provider of the registry.  After an error of the store it is shown as
\* not connected, and the list no longer owes it.
SummarizeProvider(p) ==
    /\ summary.pc = "list" /\ p \in summary.todo
    /\ \/ /\ summary' = [summary EXCEPT !.todo = @ \ {p}, !.due =
                 IF Stored(summary.user, p) # {} THEN @ \ {p} ELSE @]
          /\ UNCHANGED changes
       \/ Fails /\ summary' = [summary EXCEPT !.todo = @ \ {p}, !.due = @ \ {p}]
    /\ UNCHANGED begun /\ ReadOnly

\* Mutant: what is no longer registered is left out.
SkipOrphans ==
    /\ summary.pc = "list" /\ summary.todo = {}
    /\ summary' = [summary EXCEPT !.pc = "orphans"]
    /\ UNCHANGED <<begun, changes>> /\ ReadOnly

\* ListUserIntegrationProviderIDs.  Its error is logged and ends the list,
\* which then owes nothing more.
ListOrphans ==
    /\ summary.pc = "list" /\ summary.todo = {}
    /\ \/ /\ summary' = [summary EXCEPT !.pc = "orphans", !.todo =
                 {c.provider : c \in
                    Pg!ListUserIntegrationProviderIDs(db, summary.user).rows}]
          /\ UNCHANGED changes
       \/ Fails /\ summary' = [summary EXCEPT !.pc = "orphans", !.due = {}]
    /\ UNCHANGED begun /\ ReadOnly

\* One of those ids is shown unless it is registered by now.
ShowOrphan(p) ==
    /\ summary.pc = "orphans" /\ p \in summary.todo
    /\ summary' = [summary EXCEPT !.todo = @ \ {p}, !.due = @ \ ({p} \ registered)]
    /\ UNCHANGED <<begun, changes>> /\ ReadOnly

EndSummary ==
    /\ summary.pc = "orphans" /\ summary.todo = {}
    /\ summary' = NoSummary
    /\ UNCHANGED <<begun, changes>> /\ ReadOnly

Summarize ==
    \/ \E u \in Users : HandleListIntegrations(u)
    \/ \E p \in Providers : SummarizeProvider(p) \/ ShowOrphan(p)
    \/ ListOrphans \/ EndSummary

\* A list owes a provider only while it stays connected, and not when its
\* plugin is registered meanwhile: the first read of the registry did not
\* have it yet, and the second one has it already.
Remember ==
    summary' = [summary EXCEPT !.due = (@ \cap ConnectedTo(db', summary.user))
                                       \ (registered' \ registered)]
-----------------------------------------------------------------------------
(* The environment *)

RegistryChanges ==
    /\ changes < MaxChanges /\ changes' = changes + 1
    /\ \/ /\ \E p \in Providers : \/ registered' = registered \ {p}
                                \/ registered' = registered \cup {p}
          /\ UNCHANGED servers
       \/ servers' = ~ servers /\ UNCHANGED registered
    /\ UNCHANGED <<db, key, req, bound, begun, revoked, dangling>>

\* The server stops, and starts again with the key it is then given.
Restart(k) ==
    /\ changes < MaxChanges /\ changes' = changes + 1
    /\ key' = k
    /\ req' = [r \in Reqs |-> Idle]
    /\ dangling' = dangling \cup
         {<<req[r].user, req[r].provider>> : r \in {q \in Reqs : At(q, "switches")}}
    /\ UNCHANGED <<db, registered, servers, bound, begun, revoked>>

Request(r) ==
    \/ \E u \in Users, p \in Providers :
         \/ \E a \in Answers : HandleConnectIntegration(r, u, p, a)
         \/ HandleDisconnectIntegration(r, u, p)
         \/ \E a \in Agents : HandleAgentIntegration(r, u, a, p)
    \/ \E u \in Users, a \in Agents :
         HandleStartAgent(r, u, a) \/ HandleDeleteAgent(r, u, a)
    \/ SaveConnection(r) \/ DisconnectSwitches(r)
    \/ \E e \in BOOLEAN : ToggleAgentIntegration(r, e)
    \/ ListSwitches(r) \/ Resolve(r) \/ StartSandbox(r)
    \/ \E p \in Providers, a \in Answers : ResolveFails(r, p, a)
    \/ DeleteAgentSwitches(r) \/ DeleteAgentRow(r)

Next ==
    \/ (\E r \in Reqs : Request(r)) /\ Remember
    \/ RegistryChanges /\ Remember
    \/ Summarize
    \/ (\E k \in Keys : Restart(k)) /\ summary' = NoSummary

Spec == Init /\ [][Next]_vars
-----------------------------------------------------------------------------
(***************************************************************************)
(* What a start hands to the sandbox was supplied by the user who asked    *)
(* for the start, and was not yet replaced or disconnected when the start  *)
(* began: a credential that was withdrawn before is never used, however    *)
(* the resolution interleaves with connects and disconnects                *)
(* (ResolveAgentRuntime).                                                  *)
(***************************************************************************)
StartUsesLiveCredentials ==
    \A r \in Reqs, p \in Providers : req[r].env[p] # None =>
        /\ req[r].env[p].by = req[r].user
        /\ req[r].env[p] \notin req[r].dead

(***************************************************************************)
(* A start that gets as far as the sandbox has bound every provider that   *)
(* has been switched on for the agent ever since it began: it fails rather *)
(* than start an agent with some of its integrations missing.              *)
(***************************************************************************)
StartIsComplete ==
    \A r \in Reqs : At(r, "resolve") /\ req[r].todo = {} =>
        \A p \in req[r].on : req[r].env[p] # None

(***************************************************************************)
(* An agent has a switch for a provider only while its owner is connected  *)
(* to it: the switch would make every later start fail.  Excluded by name  *)
(* are the cases in which the code leaves one behind: a disconnect that    *)
(* ran between the check and the write of handleAgentIntegration, and a    *)
(* second statement of DeleteIntegrationConnection that failed or that the *)
(* server did not live to make.                                            *)
(***************************************************************************)
SwitchesHaveConnections ==
    \A s \in db.agent_integrations :
        LET o == Owner[s.agent]
        IN  \/ Stored(o, s.provider) # {}
            \/ <<o, s.provider>> \in dangling
            \/ \E r \in Reqs : /\ At(r, "switches")
                               /\ req[r].user = o /\ req[r].provider = s.provider

Switches == {<<s.agent, s.provider>> : s \in db.agent_integrations}

(***************************************************************************)
(* A switch disappears only because the agent's owner disconnects that     *)
(* provider or the agent is deleted: nobody's disconnect reaches the       *)
(* agents of another user (DeleteIntegrationConnection's subquery).        *)
(***************************************************************************)
SwitchesVanishForAReason ==
    [][\A s \in Switches \ Switches' : \E r \in Reqs :
          \/ /\ At(r, "switches")
             /\ req[r].user = Owner[s[1]] /\ req[r].provider = s[2]
          \/ req[r].pc \in {"agent", "row"} /\ req[r].agent = s[1]]_vars

(***************************************************************************)
(* A list of integrations that is complete shows every provider the user   *)
(* was connected to all the time it was put together, and so lets her      *)
(* disconnect it, also when its plugin left the registry before the first  *)
(* read, between the two or never (BuildSummary).  Excluded by name are    *)
(* the cases in which the code leaves one out: a store call of the list    *)
(* that failed, and a plugin that was registered between the two reads.    *)
(***************************************************************************)
SummaryShowsEveryConnection ==
    summary.pc = "orphans" /\ summary.todo = {} => summary.due = {}
=============================================================================
