---------------------------- MODULE PostgresStore ----------------------------
(***************************************************************************)
(* internal/store/postgres.go: the SQL store, over the tables the          *)
(* migrations create.  A table is the set of its rows; a method is an      *)
(* operator from the tables to its reply (error, rows returned, tables),   *)
(* one operator per SQL statement where a method has two.  An insert       *)
(* fails when it breaks a key, a unique constraint or a reference: nothing *)
(* is looked up first.  password_hash '' is None.                          *)
(***************************************************************************)
EXTENDS Integers, FiniteSets

CONSTANTS None

\* runMigrations on an empty database: 0006 seeds auth.mode.
EmptyTables ==
    [users |-> {}, agents |-> {}, llm_models |-> {}, gateway |-> {},
     integration_connections |-> {}, agent_integrations |-> {},
     plugin_manifests |-> {}, user_identities |-> {},
     app_settings |-> {[key |-> "auth.mode", value |-> "local"]}]

Ok(db, rows) == [err |-> "", rows |-> rows, db |-> db]
Fail(db, err) == [err |-> err, rows |-> {}, db |-> db]
Given(x, old) == IF x = None THEN old ELSE x

(***************************************************************************)
(* The statements: select, update and delete "where", and insert "on       *)
(* conflict do update".  A method that expects a row answers ErrNotFound   *)
(* for sql.ErrNoRows or RowsAffected() = 0.                                *)
(***************************************************************************)
Where(db, t, Is(_)) == {r \in db[t] : Is(r)}

SelectRow(db, t, Is(_)) ==
    IF Where(db, t, Is) = {} THEN Fail(db, "notfound")
    ELSE Ok(db, Where(db, t, Is))

UpdateWhere(db, t, Is(_), New(_)) ==
    LET new == {New(r) : r \in Where(db, t, Is)}
    IN  IF new = {} THEN Fail(db, "notfound")
        ELSE Ok([db EXCEPT ![t] = (@ \ Where(db, t, Is)) \cup new], new)

DeleteWhere(db, t, Is(_)) ==
    IF Where(db, t, Is) = {} THEN Fail(db, "notfound")
    ELSE Ok([db EXCEPT ![t] = @ \ Where(db, t, Is)], {})

InsertRow(db, t, row) == Ok([db EXCEPT ![t] = @ \cup {row}], {row})

OnConflict(db, t, row, Same(_), New(_)) ==
    IF Where(db, t, Same) = {} THEN InsertRow(db, t, row)
    ELSE UpdateWhere(db, t, Same, New)

\* What the users queries select: every column but password_hash.
Public(u) == [id |-> u.id, name |-> u.name, role |-> u.role,
              disabled |-> u.disabled]
PublicReply(reply) == [reply EXCEPT !.rows = {Public(u) : u \in @}]
-----------------------------------------------------------------------------
(* Users *)

UserRow(id, name, hash, role) ==
    [id |-> id, name |-> name, hash |-> hash, role |-> role,
     disabled |-> FALSE]

CreateUser(db, id, name, hash, role) ==
    IF \E u \in db.users : u.name = name \/ u.id = id
    THEN Fail(db, "conflict")
    ELSE PublicReply(InsertRow(db, "users", UserRow(id, name, hash, role)))

GetUser(db, id) == PublicReply(SelectRow(db, "users", LAMBDA u : u.id = id))

GetUserByUsername(db, name) ==
    PublicReply(SelectRow(db, "users", LAMBDA u : u.name = name))

ListUsers(db) == PublicReply(Ok(db, db.users))

UpdateUser(db, id, disabled, role) ==
    PublicReply(UpdateWhere(db, "users", LAMBDA u : u.id = id,
        LAMBDA u : [u EXCEPT !.disabled = Given(disabled, @),
                             !.role = Given(role, @)]))

GetPasswordHash(db, name) ==
    LET found == SelectRow(db, "users", LAMBDA u : u.name = name)
    IN  [found EXCEPT !.rows = {[hash |-> u.hash] : u \in @}]

SetPasswordHash(db, name, hash) ==
    Ok(UpdateWhere(db, "users", LAMBDA u : u.name = name,
                   LAMBDA u : [u EXCEPT !.hash = hash]).db, {})

BootstrapAdmin(db, id, name, hash) ==
    Ok(OnConflict(db, "users", UserRow(id, name, hash, "admin"),
                  LAMBDA u : u.name = name,
                  LAMBDA u : [u EXCEPT !.hash = Given(hash, @),
                                       !.role = "admin",
                                       !.disabled = FALSE]).db, {})
-----------------------------------------------------------------------------
(* Agents *)

CreateAgent(db, id, owner) ==
    IF \A u \in db.users : u.id # owner THEN Fail(db, "reference")
    ELSE InsertRow(db, "agents", [id |-> id, owner |-> owner,
                                  state |-> "idle", lastError |-> None])

GetAgent(db, id) == SelectRow(db, "agents", LAMBDA a : a.id = id)

ListAgents(db, owner) == Ok(db, Where(db, "agents", LAMBDA a : a.owner = owner))

UpdateAgentState(db, id, state) ==
    UpdateWhere(db, "agents", LAMBDA a : a.id = id,
                LAMBDA a : [a EXCEPT !.state = state])

UpdateAgentError(db, id, lastError) ==
    UpdateWhere(db, "agents", LAMBDA a : a.id = id,
                LAMBDA a : [a EXCEPT !.lastError = lastError])

\* The two statements of DeleteAgent; the second cascades to the switches.
DeleteAgentSwitches(db, id) ==
    Ok(DeleteWhere(db, "agent_integrations", LAMBDA r : r.agent = id).db, {})

DeleteAgentRow(db, id) ==
    LET reply == DeleteWhere(db, "agents", LAMBDA a : a.id = id)
    IN  IF reply.err # "" THEN reply
        ELSE Ok(DeleteAgentSwitches(reply.db, id).db, {})

DeleteAgent(db, id) == DeleteAgentRow(DeleteAgentSwitches(db, id).db, id)
-----------------------------------------------------------------------------
(* LLM models and the gateway's settings *)

CreateLLMModel(db, id, display, provider, enabled) ==
    InsertRow(db, "llm_models", [id |-> id, display |-> display,
                                 provider |-> provider, enabled |-> enabled])

GetLLMModel(db, id) == SelectRow(db, "llm_models", LAMBDA m : m.id = id)

ListLLMModels(db) == Ok(db, db.llm_models)

UpdateLLMModel(db, id, display, provider, enabled) ==
    UpdateWhere(db, "llm_models", LAMBDA m : m.id = id,
                LAMBDA m : [m EXCEPT !.display = Given(display, @),
                                     !.provider = Given(provider, @),
                                     !.enabled = Given(enabled, @)])

\* The table has one row or none; none is answered with the zero value.
GetLLMGatewaySettings(db) ==
    Ok(db, IF db.gateway = {} THEN {[enabled |-> FALSE, secret |-> None]}
           ELSE db.gateway)

UpsertLLMGatewaySettings(db, enabled, secret) ==
    LET row == [enabled |-> enabled, secret |-> secret]
    IN  OnConflict(db, "gateway", row, LAMBDA r : TRUE, LAMBDA r : row)
-----------------------------------------------------------------------------
(* Integrations: a user's connections and an agent's switches *)

FirstRevision(revision) == IF revision = 0 THEN 1 ELSE revision

UpsertIntegrationConnection(db, user, provider, secret, revision) ==
    IF \A u \in db.users : u.id # user THEN Fail(db, "reference")
    ELSE OnConflict(db, "integration_connections",
            [user |-> user, provider |-> provider, secret |-> secret,
             revision |-> FirstRevision(revision)],
            LAMBDA c : c.user = user /\ c.provider = provider,
            LAMBDA c : [c EXCEPT !.secret = secret, !.revision = @ + 1])

GetIntegrationConnection(db, user, provider) ==
    SelectRow(db, "integration_connections",
              LAMBDA c : c.user = user /\ c.provider = provider)

ListUserIntegrationProviderIDs(db, user) ==
    Ok(db, {[provider |-> c.provider] : c \in
              Where(db, "integration_connections", LAMBDA c : c.user = user)})

\* The two statements of DeleteIntegrationConnection.
DeleteConnectionRow(db, user, provider) ==
    Ok(DeleteWhere(db, "integration_connections",
           LAMBDA c : c.user = user /\ c.provider = provider).db, {})

\* Mutant: the owner is not compared.
DeleteAllSwitches(db, user, provider) ==
    Ok(DeleteWhere(db, "agent_integrations",
           LAMBDA r : r.provider = provider).db, {})

DeleteOwnersSwitches(db, user, provider) ==
    Ok(DeleteWhere(db, "agent_integrations",
           LAMBDA r : /\ r.provider = provider
                      /\ \E a \in db.agents : a.id = r.agent
                                              /\ a.owner = user).db, {})

DeleteIntegrationConnection(db, user, provider) ==
    DeleteOwnersSwitches(DeleteConnectionRow(db, user, provider).db,
                         user, provider)

UpsertAgentIntegration(db, agent, provider, enabled, revision) ==
    IF \A a \in db.agents : a.id # agent THEN Fail(db, "reference")
    ELSE OnConflict(db, "agent_integrations",
            [agent |-> agent, provider |-> provider, enabled |-> enabled,
             revision |-> FirstRevision(revision)],
            LAMBDA r : r.agent = agent /\ r.provider = provider,
            LAMBDA r : [r EXCEPT !.enabled = enabled, !.revision = @ + 1])

ListAgentIntegrations(db, agent) ==
    Ok(db, Where(db, "agent_integrations", LAMBDA r : r.agent = agent))

GetAgentIntegration(db, agent, provider) ==
    SelectRow(db, "agent_integrations",
              LAMBDA r : r.agent = agent /\ r.provider = provider)
-----------------------------------------------------------------------------
(* Plugin manifests *)

ListPluginManifests(db, enabledOnly) ==
    Ok(db, Where(db, "plugin_manifests", LAMBDA m : enabledOnly => m.enabled))

GetPluginManifest(db, id) ==
    SelectRow(db, "plugin_manifests", LAMBDA m : m.id = id)

UpsertPluginManifest(db, id, yaml, enabled) ==
    OnConflict(db, "plugin_manifests",
        [id |-> id, yaml |-> yaml, enabled |-> enabled, revision |-> 1],
        LAMBDA m : m.id = id,
        LAMBDA m : [m EXCEPT !.yaml = yaml, !.enabled = enabled,
                             !.revision = @ + 1])

DeletePluginManifest(db, id) ==
    DeleteWhere(db, "plugin_manifests", LAMBDA m : m.id = id)
-----------------------------------------------------------------------------
(* User identities *)

GetUserIDByIdentity(db, provider, subject) ==
    Ok(db, {[user |-> i.user] : i \in Where(db, "user_identities",
              LAMBDA i : i.provider = provider /\ i.subject = subject)})

TouchIdentityLogin(db, provider, subject) ==
    LET reply == UpdateWhere(db, "user_identities",
                    LAMBDA i : i.provider = provider /\ i.subject = subject,
                    LAMBDA i : [i EXCEPT !.seen = TRUE])
    IN  [reply EXCEPT !.rows = {}]

IdentityRow(provider, subject, user) ==
    [provider |-> provider, subject |-> subject, user |-> user, seen |-> FALSE]

\* insert into user_identities: the key is (provider_name, subject).
InsertIdentity(db, provider, subject, user) ==
    IF \E i \in db.user_identities : /\ i.provider = provider
                                     /\ i.subject = subject
    THEN Fail(db, "conflict")
    ELSE Ok(InsertRow(db, "user_identities",
                      IdentityRow(provider, subject, user)).db, {})

\* One transaction: a failed second insert rolls the first one back.
CreateUserAndIdentity(db, id, name, role, provider, subject) ==
    LET user == CreateUser(db, id, name, None, role)
        identity == InsertIdentity(user.db, provider, subject, id)
    IN  IF user.err # "" THEN user
        ELSE IF identity.err # "" THEN Fail(db, identity.err)
        ELSE Ok(identity.db, user.rows)

LinkIdentityToUser(db, user, provider, subject) ==
    IF \A u \in db.users : u.id # user THEN Fail(db, "notfound")
    ELSE InsertIdentity(db, provider, subject, user)

ListUserIdentities(db, user) ==
    Ok(db, Where(db, "user_identities", LAMBDA i : i.user = user))

UnlinkIdentity(db, user, provider, subject) ==
    DeleteWhere(db, "user_identities", LAMBDA i : /\ i.user = user
                                                  /\ i.provider = provider
                                                  /\ i.subject = subject)
-----------------------------------------------------------------------------
(* Application settings *)

GetAppSetting(db, key) ==
    LET found == Where(db, "app_settings", LAMBDA s : s.key = key)
    IN  Ok(db, IF found = {} THEN {[key |-> key, value |-> ""]} ELSE found)

SetAppSetting(db, key, value) ==
    Ok(OnConflict(db, "app_settings", [key |-> key, value |-> value],
                  LAMBDA s : s.key = key,
                  LAMBDA s : [s EXCEPT !.value = value]).db, {})

ListAppSettings(db, keys) ==
    Ok(db, Where(db, "app_settings", LAMBDA s : s.key \in keys))
=============================================================================
