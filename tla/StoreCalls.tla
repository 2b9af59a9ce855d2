----------------------------- MODULE StoreCalls -----------------------------
(***************************************************************************)
(* The Store interface (internal/store/store.go) as its callers see it:    *)
(* store.Open picks a backend when the server starts, and from then on the *)
(* server calls methods and gets replies.  A method runs as one step here; *)
(* the two methods of the SQL store that are two statements are taken      *)
(* apart in module Integrations.  Callers pass arguments that satisfy what *)
(* the code has checked before (an authenticated user exists, revision 0). *)
(***************************************************************************)
EXTENDS Integers, Sequences, FiniteSets

CONSTANTS
    None,
    Backends,      \* the backends Open may be asked for
    Focuses,       \* bound: which group of methods one behaviour calls
    Names, Hashes, Providers, Subjects, PluginIds, Yamls, Keys,
    MaxIds,        \* bound: identifiers newID hands out
    MaxRevision,   \* bound: how often one row is written
    Updatable      \* bound: which agents are updated

ASSUME StoreAssumption ==
    /\ "postgres" \in Backends /\ Backends \subseteq {"memory", "postgres"}
    /\ "auth.mode" \in Keys
    /\ MaxIds \in Nat
    /\ None \notin [id : PluginIds, yaml : Yamls, enabled : BOOLEAN, revision : Nat]

VARIABLES
    backend,  \* "memory" or "postgres"
    focus,    \* the group of methods called in this behaviour
    db,       \* the state of the store
    ans,      \* the reply to the last call
    fresh     \* the next identifier of newID

vars == <<backend, focus, db, ans, fresh>>

Mem == INSTANCE MemoryStore
Pg == INSTANCE PostgresStore

Ids == 1 .. MaxIds
Roles == {"admin", "user"}

\* store.Open.
Open == IF backend = "memory" THEN Mem!EmptyMemory ELSE Pg!EmptyTables

Init ==
    /\ backend \in Backends
    /\ focus \in Focuses
    /\ db = Open
    /\ ans = [err |-> "", rows |-> {}]
    /\ fresh = 1

\* The call returns: the backend's own reply is the answer.
Return(m, p) ==
    LET reply == IF backend = "memory" THEN m ELSE p
    IN  /\ db' = reply.db
        /\ ans' = [err |-> reply.err, rows |-> reply.rows]
        /\ UNCHANGED <<backend, focus>>

Same == UNCHANGED fresh
\* newID: an identifier that ends up in no row is as good as new.
NewID(m, p) ==
    /\ fresh \in Ids
    /\ Return(m, p)
    /\ fresh' = IF ans'.err = "" THEN fresh + 1 ELSE fresh

KnownUser(id) == IF backend = "memory" THEN Mem!GetUser(db, id).err = ""
                 ELSE Pg!GetUser(db, id).err = ""
KnownName(n) == IF backend = "memory" THEN Mem!GetUserByUsername(db, n).err = ""
                ELSE Pg!GetUserByUsername(db, n).err = ""
-----------------------------------------------------------------------------
CreateUser(n, h, r) == NewID(Mem!CreateUser(db, fresh, n, h, r),
                             Pg!CreateUser(db, fresh, n, h, r))
GetUser(id) == Same /\ Return(Mem!GetUser(db, id), Pg!GetUser(db, id))
GetUserByUsername(n) == Same /\ Return(Mem!GetUserByUsername(db, n),
                                       Pg!GetUserByUsername(db, n))
ListUsers == Same /\ Return(Mem!ListUsers(db), Pg!ListUsers(db))
UpdateUser(id, d, r) == Same /\ Return(Mem!UpdateUser(db, id, d, r),
                                       Pg!UpdateUser(db, id, d, r))
GetPasswordHash(n) == Same /\ Return(Mem!GetPasswordHash(db, n),
                                     Pg!GetPasswordHash(db, n))
\* Called by bootstrapAdmin only, for the user BootstrapAdmin has written.
SetPasswordHash(n, h) == /\ KnownName(n) /\ Same
                         /\ Return(Mem!SetPasswordHash(db, n, h),
                                   Pg!SetPasswordHash(db, n, h))
BootstrapAdmin(n, h) == NewID(Mem!BootstrapAdmin(db, fresh, n, h),
                              Pg!BootstrapAdmin(db, fresh, n, h))

AccountCalls ==
    \/ \E n \in Names, h \in Hashes \cup {None}, r \in Roles : CreateUser(n, h, r)
    \/ \E id \in Ids : GetUser(id)
    \/ \E n \in Names : GetUserByUsername(n) \/ GetPasswordHash(n)
    \/ ListUsers
    \/ \E id \in Ids, d \in BOOLEAN \cup {None}, r \in Roles \cup {None} :
           UpdateUser(id, d, r)
    \/ \E n \in Names, h \in Hashes : SetPasswordHash(n, h) \/ BootstrapAdmin(n, h)
-----------------------------------------------------------------------------
CreateAgent(u) == KnownUser(u) /\ NewID(Mem!CreateAgent(db, fresh, u),
                                        Pg!CreateAgent(db, fresh, u))
GetAgent(id) == Same /\ Return(Mem!GetAgent(db, id), Pg!GetAgent(db, id))
ListAgents(u) == Same /\ Return(Mem!ListAgents(db, u), Pg!ListAgents(db, u))
UpdateAgentState(id, s) == Same /\ Return(Mem!UpdateAgentState(db, id, s),
                                          Pg!UpdateAgentState(db, id, s))
UpdateAgentError(id, e) == Same /\ Return(Mem!UpdateAgentError(db, id, e),
                                          Pg!UpdateAgentError(db, id, e))
DeleteAgent(id) == Same /\ Return(Mem!DeleteAgent(db, id),
                                  Pg!DeleteAgent(db, id))
\* Connect and Toggle pass revision 0.
UpsertIntegrationConnection(u, p, s) ==
    /\ KnownUser(u) /\ Same
    /\ Return(Mem!UpsertIntegrationConnection(db, u, p, s, 0),
              Pg!UpsertIntegrationConnection(db, u, p, s, 0))
GetIntegrationConnection(u, p) ==
    Same /\ Return(Mem!GetIntegrationConnection(db, u, p),
                   Pg!GetIntegrationConnection(db, u, p))
ListUserIntegrationProviderIDs(u) ==
    Same /\ Return(Mem!ListUserIntegrationProviderIDs(db, u),
                   Pg!ListUserIntegrationProviderIDs(db, u))
DeleteIntegrationConnection(u, p) ==
    Same /\ Return(Mem!DeleteIntegrationConnection(db, u, p),
                   Pg!DeleteIntegrationConnection(db, u, p))
\* The agent was found when the handler looked it up; it may be gone by now.
UpsertAgentIntegration(a, p, e) ==
    /\ a < fresh /\ ~ KnownUser(a) /\ Same
    /\ Return(Mem!UpsertAgentIntegration(db, a, p, e, 0),
              Pg!UpsertAgentIntegration(db, a, p, e, 0))
ListAgentIntegrations(a) ==
    Same /\ Return(Mem!ListAgentIntegrations(db, a),
                   Pg!ListAgentIntegrations(db, a))
GetAgentIntegration(a, p) ==
    Same /\ Return(Mem!GetAgentIntegration(db, a, p),
                   Pg!GetAgentIntegration(db, a, p))

Fewer(rows) == \A r \in rows : r.revision < MaxRevision
WritesLeft ==
    IF backend = "memory"
    THEN Fewer({db.integrations[i] : i \in DOMAIN db.integrations} \cup
               {db.agentIntegrations[i] : i \in DOMAIN db.agentIntegrations})
    ELSE Fewer(db.integration_connections \cup db.agent_integrations)

AgentCalls ==
    \/ \E n \in Names : CreateUser(n, None, "user")
    \/ \E u \in Ids : CreateAgent(u) \/ ListAgents(u)
                      \/ ListUserIntegrationProviderIDs(u)
    \/ \E a \in Ids : GetAgent(a) \/ DeleteAgent(a) \/ ListAgentIntegrations(a)
    \/ \E a \in Updatable : UpdateAgentState(a, "running") \/ UpdateAgentError(a, "")
    \/ \E u \in Ids, p \in Providers : \/ GetIntegrationConnection(u, p)
                                       \/ DeleteIntegrationConnection(u, p)
                                       \/ GetAgentIntegration(u, p)
    \/ WritesLeft /\ \E u \in Ids, p \in Providers :
           \/ UpsertIntegrationConnection(u, p, "token")
           \/ \E e \in BOOLEAN : UpsertAgentIntegration(u, p, e)
-----------------------------------------------------------------------------
CreateLLMModel(e) == NewID(Mem!CreateLLMModel(db, fresh, "d", "p", e),
                           Pg!CreateLLMModel(db, fresh, "d", "p", e))
GetLLMModel(id) == Same /\ Return(Mem!GetLLMModel(db, id), Pg!GetLLMModel(db, id))
ListLLMModels == Same /\ Return(Mem!ListLLMModels(db), Pg!ListLLMModels(db))
UpdateLLMModel(id, d, p, e) == Same /\ Return(Mem!UpdateLLMModel(db, id, d, p, e),
                                              Pg!UpdateLLMModel(db, id, d, p, e))
GetLLMGatewaySettings == Same /\ Return(Mem!GetLLMGatewaySettings(db),
                                        Pg!GetLLMGatewaySettings(db))
UpsertLLMGatewaySettings(e, s) ==
    Same /\ Return(Mem!UpsertLLMGatewaySettings(db, e, s),
                   Pg!UpsertLLMGatewaySettings(db, e, s))

ModelCalls ==
    \/ fresh < MaxIds /\ \E e \in BOOLEAN : CreateLLMModel(e)
    \/ \E id \in Ids : GetLLMModel(id)
    \/ \E id \in Ids, d \in {"e", None}, p \in {"q", None},
          e \in BOOLEAN \cup {None} : UpdateLLMModel(id, d, p, e)
    \/ ListLLMModels \/ GetLLMGatewaySettings
    \/ \E e \in BOOLEAN, s \in {"s", None} : UpsertLLMGatewaySettings(e, s)
-----------------------------------------------------------------------------
ListPluginManifests(b) == Same /\ Return(Mem!ListPluginManifests(db, b),
                                         Pg!ListPluginManifests(db, b))
GetPluginManifest(id) == Same /\ Return(Mem!GetPluginManifest(db, id),
                                        Pg!GetPluginManifest(db, id))
UpsertPluginManifest(id, y, e) ==
    Same /\ Return(Mem!UpsertPluginManifest(db, id, y, e),
                   Pg!UpsertPluginManifest(db, id, y, e))
DeletePluginManifest(id) == Same /\ Return(Mem!DeletePluginManifest(db, id),
                                           Pg!DeletePluginManifest(db, id))

ManifestWritesLeft(id) ==
    IF backend = "memory"
    THEN db.pluginManifests[id] # None =>
             db.pluginManifests[id].revision < MaxRevision
    ELSE \A m \in db.plugin_manifests : m.id = id => m.revision < MaxRevision

ManifestCalls ==
    \/ \E b \in BOOLEAN : ListPluginManifests(b)
    \/ \E id \in PluginIds : GetPluginManifest(id) \/ DeletePluginManifest(id)
    \/ \E id \in PluginIds, y \in Yamls, e \in BOOLEAN :
           ManifestWritesLeft(id) /\ UpsertPluginManifest(id, y, e)
-----------------------------------------------------------------------------
GetUserIDByIdentity(p, s) == Same /\ Return(Mem!GetUserIDByIdentity(db, p, s),
                                            Pg!GetUserIDByIdentity(db, p, s))
TouchIdentityLogin(p, s) == Same /\ Return(Mem!TouchIdentityLogin(db, p, s),
                                           Pg!TouchIdentityLogin(db, p, s))
CreateUserAndIdentity(n, p, s) ==
    NewID(Mem!CreateUserAndIdentity(db, fresh, n, "user", p, s),
          Pg!CreateUserAndIdentity(db, fresh, n, "user", p, s))
LinkIdentityToUser(u, p, s) == Same /\ Return(Mem!LinkIdentityToUser(db, u, p, s),
                                              Pg!LinkIdentityToUser(db, u, p, s))
ListUserIdentities(u) == Same /\ Return(Mem!ListUserIdentities(db, u),
                                        Pg!ListUserIdentities(db, u))
UnlinkIdentity(u, p, s) == Same /\ Return(Mem!UnlinkIdentity(db, u, p, s),
                                          Pg!UnlinkIdentity(db, u, p, s))
GetAppSetting(k) == Same /\ Return(Mem!GetAppSetting(db, k),
                                   Pg!GetAppSetting(db, k))
SetAppSetting(k, v) == Same /\ Return(Mem!SetAppSetting(db, k, v),
                                      Pg!SetAppSetting(db, k, v))
ListAppSettings(ks) == Same /\ Return(Mem!ListAppSettings(db, ks),
                                      Pg!ListAppSettings(db, ks))

IdentityCalls ==
    \/ \E n \in Names : CreateUser(n, None, "user")
    \/ \E p \in Providers, s \in Subjects :
           \/ GetUserIDByIdentity(p, s) \/ TouchIdentityLogin(p, s)
           \/ \E n \in Names : CreateUserAndIdentity(n, p, s)
           \/ \E u \in Ids : LinkIdentityToUser(u, p, s) \/ UnlinkIdentity(u, p, s)
    \/ \E u \in Ids : ListUserIdentities(u)

SettingCalls ==
    \/ \E k \in Keys : GetAppSetting(k) \/ \E v \in {"local", "sso"} : SetAppSetting(k, v)
    \/ \E ks \in SUBSET Keys : ListAppSettings(ks)
-----------------------------------------------------------------------------
Next ==
    \/ focus = "accounts" /\ AccountCalls
    \/ focus = "agents" /\ AgentCalls
    \/ focus = "models" /\ ModelCalls
    \/ focus = "manifests" /\ ManifestCalls
    \/ focus = "identities" /\ IdentityCalls
    \/ focus = "settings" /\ SettingCalls

Spec == Init /\ [][Next]_vars
=============================================================================
