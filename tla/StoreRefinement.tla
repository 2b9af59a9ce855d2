--------------------------- MODULE StoreRefinement ---------------------------
(***************************************************************************)
(* The tests run on the in-memory store and production runs on Postgres.   *)
(* Seen through PgView, every behaviour of the in-memory store is one of   *)
(* the SQL store, reply for reply, except at the calls named below.        *)
(***************************************************************************)
EXTENDS StoreCalls, TLC

Rows(s) == {s[i] : i \in DOMAIN s}

\* The tables that hold what the slices and maps hold.
View(d) ==
    [users |-> {[id |-> u.id, name |-> u.name, role |-> u.role,
                 disabled |-> u.disabled,
                 hash |-> d.passwordHashes[u.name]] : u \in Rows(d.users)},
     agents |-> Rows(d.agents),
     llm_models |-> Rows(d.llmModels),
     gateway |-> IF d.gateway = Mem!EmptyMemory.gateway THEN {} ELSE {d.gateway},
     integration_connections |-> Rows(d.integrations),
     agent_integrations |-> Rows(d.agentIntegrations),
     plugin_manifests |-> Rows(d.pluginManifests) \ {None},
     user_identities |-> Rows(d.userIdentities),
     app_settings |-> {[key |-> k, value |-> d.appSettings[k]] :
                         k \in {j \in Keys : d.appSettings[j] # ""}}]

\* The refinement mapping.
PgView == IF backend = "postgres" THEN db ELSE View(db)

AsPostgres == INSTANCE StoreCalls WITH backend <- "postgres", db <- PgView

Owner(a) == {r.owner : r \in {s \in PgView.agents : s.id = a}}
SwitchesOf(a) == {r \in PgView.agent_integrations : r.agent = a}

\* User names and subjects are only compared: they may be exchanged.
Alike == Permutations(Names) \cup Permutations(Subjects)

(***************************************************************************)
(* The calls the two backends answer, or carry out, differently.           *)
(***************************************************************************)
\* A user without a password: no map entry here, an empty column there.
NoHash(n) == \E u \in PgView.users : u.name = n /\ u.hash = None

\* A disconnect of what is not connected is an error here only; one of what
\* is connected also switches the provider off for other users' agents.
DisconnectDiffers(u, p) ==
    \/ Pg!GetIntegrationConnection(PgView, u, p).err # ""
    \/ \E r \in PgView.agent_integrations : r.provider = p /\ u \notin Owner(r.agent)

\* A switch for an agent that is gone: a row here, a broken reference there.
NoAgent(a) == Owner(a) = {}

\* Deleted again, such an agent loses the switches it left there only.
LeftSwitches(a) == Owner(a) = {} /\ SwitchesOf(a) # {}

\* An all-zero gateway row is told from no row only in SQL.
ZeroGateway(e, s) == e = FALSE /\ s = None

KnownDifference ==
    \/ \E n \in Names : NoHash(n) /\ GetPasswordHash(n)
    \/ \E u \in Ids, p \in Providers : /\ DisconnectDiffers(u, p)
                                       /\ DeleteIntegrationConnection(u, p)
    \/ \E a \in Ids, p \in Providers, e \in BOOLEAN :
           NoAgent(a) /\ UpsertAgentIntegration(a, p, e)
    \/ \E a \in Ids : LeftSwitches(a) /\ DeleteAgent(a)
    \/ \E e \in BOOLEAN, s \in {"s", None} :
           ZeroGateway(e, s) /\ UpsertLLMGatewaySettings(e, s)

(***************************************************************************)
(* Every call on the in-memory store changes the data and answers as the   *)
(* same call on Postgres would, or is one of the known differences         *)
(* (store.go and postgres.go, all methods of Store).                       *)
(***************************************************************************)
MemoryImplementsPostgres ==
    AsPostgres!Init /\ [][AsPostgres!Next \/ KnownDifference]_<<PgView, ans>>

\* The same reply, and the same data afterwards.
SameReply(m, p) == m.err = p.err /\ m.rows = p.rows /\ View(m.db) = p.db

AccountsAgree ==
    LET t == PgView IN
    /\ \A n \in Names, h \in Hashes \cup {None}, r \in Roles :
         SameReply(Mem!CreateUser(db, fresh, n, h, r),
                   Pg!CreateUser(t, fresh, n, h, r))
    /\ \A id \in Ids : SameReply(Mem!GetUser(db, id), Pg!GetUser(t, id))
    /\ \A n \in Names : /\ SameReply(Mem!GetUserByUsername(db, n),
                                     Pg!GetUserByUsername(t, n))
                        /\ NoHash(n) \/ SameReply(Mem!GetPasswordHash(db, n),
                                                  Pg!GetPasswordHash(t, n))
    /\ SameReply(Mem!ListUsers(db), Pg!ListUsers(t))
    /\ \A id \in Ids, d \in BOOLEAN \cup {None}, r \in Roles \cup {None} :
         SameReply(Mem!UpdateUser(db, id, d, r), Pg!UpdateUser(t, id, d, r))
    /\ \A n \in Names, h \in Hashes :
         /\ KnownName(n) => SameReply(Mem!SetPasswordHash(db, n, h),
                                      Pg!SetPasswordHash(t, n, h))
         /\ SameReply(Mem!BootstrapAdmin(db, fresh, n, h),
                      Pg!BootstrapAdmin(t, fresh, n, h))

AgentsAgree ==
    LET t == PgView IN
    /\ \A u \in Ids :
         /\ KnownUser(u) => SameReply(Mem!CreateAgent(db, fresh, u),
                                      Pg!CreateAgent(t, fresh, u))
         /\ SameReply(Mem!ListAgents(db, u), Pg!ListAgents(t, u))
         /\ SameReply(Mem!ListUserIntegrationProviderIDs(db, u),
                      Pg!ListUserIntegrationProviderIDs(t, u))
    /\ \A a \in Ids :
         /\ SameReply(Mem!GetAgent(db, a), Pg!GetAgent(t, a))
         /\ LeftSwitches(a) \/ SameReply(Mem!DeleteAgent(db, a), Pg!DeleteAgent(t, a))
         /\ SameReply(Mem!ListAgentIntegrations(db, a), Pg!ListAgentIntegrations(t, a))
         /\ SameReply(Mem!UpdateAgentState(db, a, "running"),
                      Pg!UpdateAgentState(t, a, "running"))
         /\ SameReply(Mem!UpdateAgentError(db, a, ""), Pg!UpdateAgentError(t, a, ""))

IntegrationsAgree ==
    LET t == PgView IN
    \A i \in Ids, p \in Providers :
      /\ SameReply(Mem!GetIntegrationConnection(db, i, p),
                   Pg!GetIntegrationConnection(t, i, p))
      /\ DisconnectDiffers(i, p) \/ SameReply(Mem!DeleteIntegrationConnection(db, i, p),
                                              Pg!DeleteIntegrationConnection(t, i, p))
      /\ SameReply(Mem!GetAgentIntegration(db, i, p), Pg!GetAgentIntegration(t, i, p))
      /\ KnownUser(i) => SameReply(Mem!UpsertIntegrationConnection(db, i, p, "token", 0),
                                   Pg!UpsertIntegrationConnection(t, i, p, "token", 0))
      /\ \A e \in BOOLEAN :
           NoAgent(i) \/ SameReply(Mem!UpsertAgentIntegration(db, i, p, e, 0),
                                   Pg!UpsertAgentIntegration(t, i, p, e, 0))

ModelsAgree ==
    LET t == PgView IN
    /\ \A e \in BOOLEAN : SameReply(Mem!CreateLLMModel(db, fresh, "d", "p", e),
                                    Pg!CreateLLMModel(t, fresh, "d", "p", e))
    /\ \A id \in Ids : SameReply(Mem!GetLLMModel(db, id), Pg!GetLLMModel(t, id))
    /\ \A id \in Ids, d \in {"e", None}, p \in {"q", None}, e \in BOOLEAN \cup {None} :
         SameReply(Mem!UpdateLLMModel(db, id, d, p, e), Pg!UpdateLLMModel(t, id, d, p, e))
    /\ SameReply(Mem!ListLLMModels(db), Pg!ListLLMModels(t))
    /\ SameReply(Mem!GetLLMGatewaySettings(db), Pg!GetLLMGatewaySettings(t))
    /\ \A e \in BOOLEAN, s \in {"s", None} :
         ZeroGateway(e, s) \/ SameReply(Mem!UpsertLLMGatewaySettings(db, e, s),
                                        Pg!UpsertLLMGatewaySettings(t, e, s))

ManifestsAgree ==
    LET t == PgView IN
    /\ \A b \in BOOLEAN : SameReply(Mem!ListPluginManifests(db, b),
                                    Pg!ListPluginManifests(t, b))
    /\ \A id \in PluginIds :
         /\ SameReply(Mem!GetPluginManifest(db, id), Pg!GetPluginManifest(t, id))
         /\ SameReply(Mem!DeletePluginManifest(db, id), Pg!DeletePluginManifest(t, id))
         /\ \A y \in Yamls, e \in BOOLEAN :
              SameReply(Mem!UpsertPluginManifest(db, id, y, e),
                        Pg!UpsertPluginManifest(t, id, y, e))

IdentitiesAgree ==
    LET t == PgView IN
    /\ \A p \in Providers, s \in Subjects :
         /\ SameReply(Mem!GetUserIDByIdentity(db, p, s), Pg!GetUserIDByIdentity(t, p, s))
         /\ SameReply(Mem!TouchIdentityLogin(db, p, s), Pg!TouchIdentityLogin(t, p, s))
         /\ \A n \in Names : SameReply(Mem!CreateUserAndIdentity(db, fresh, n, "user", p, s),
                                       Pg!CreateUserAndIdentity(t, fresh, n, "user", p, s))
         /\ \A u \in Ids : /\ SameReply(Mem!LinkIdentityToUser(db, u, p, s),
                                        Pg!LinkIdentityToUser(t, u, p, s))
                           /\ SameReply(Mem!UnlinkIdentity(db, u, p, s),
                                        Pg!UnlinkIdentity(t, u, p, s))
    /\ \A u \in Ids : SameReply(Mem!ListUserIdentities(db, u), Pg!ListUserIdentities(t, u))

SettingsAgree ==
    LET t == PgView IN
    /\ \A k \in Keys :
         /\ SameReply(Mem!GetAppSetting(db, k), Pg!GetAppSetting(t, k))
         /\ \A v \in {"local", "sso"} : SameReply(Mem!SetAppSetting(db, k, v),
                                                  Pg!SetAppSetting(t, k, v))
    /\ \A ks \in SUBSET Keys : SameReply(Mem!ListAppSettings(db, ks),
                                         Pg!ListAppSettings(t, ks))

(***************************************************************************)
(* Call by call: in every state the in-memory store can get to, every      *)
(* method, with every argument a caller may pass, gives the reply and      *)
(* leaves the data that the same method of the SQL store would, but for    *)
(* the five differences named above.  MemoryImplementsPostgres only says   *)
(* that some call of the SQL store explains the step.                      *)
(***************************************************************************)
CallsAgree ==
    backend = "memory" => /\ AccountsAgree /\ AgentsAgree /\ IntegrationsAgree
                          /\ ModelsAgree /\ ManifestsAgree /\ IdentitiesAgree
                          /\ SettingsAgree

(***************************************************************************)
(* On both backends no two users share a name and no two users share an    *)
(* identity, a connection or a switch, whatever the order of the calls:    *)
(* the slices have no keys, only the checks in CreateUser,                 *)
(* CreateUserAndIdentity, LinkIdentityToUser, BootstrapAdmin and Upsert*.  *)
(***************************************************************************)
KeysAreUnique ==
    LET Distinct(rows, Key(_)) == \A r, s \in rows : Key(r) = Key(s) => r = s
        NoRepeat(t) == Cardinality(Rows(db[t])) = Len(db[t])
    IN  /\ Distinct(PgView.users, LAMBDA u : u.name)
        /\ Distinct(PgView.user_identities, LAMBDA i : <<i.provider, i.subject>>)
        /\ Distinct(PgView.integration_connections,
                    LAMBDA c : <<c.user, c.provider>>)
        /\ Distinct(PgView.agent_integrations, LAMBDA r : <<r.agent, r.provider>>)
        /\ backend = "memory" =>
             \A t \in {"users", "userIdentities", "integrations",
                       "agentIntegrations"} : NoRepeat(t)

(***************************************************************************)
(* An identity never changes hands: while its row exists it names the same *)
(* user (LinkIdentityToUser, CreateUserAndIdentity, UnlinkIdentity), and   *)
(* that user exists.                                                       *)
(***************************************************************************)
IdentitiesStayPut ==
    [][\A i \in PgView.user_identities, j \in PgView'.user_identities :
         i.provider = j.provider /\ i.subject = j.subject =>
             i.user = j.user /\ \E u \in PgView'.users : u.id = i.user]_vars
=============================================================================
