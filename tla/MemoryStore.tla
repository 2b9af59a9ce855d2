----------------------------- MODULE MemoryStore -----------------------------
(***************************************************************************)
(* internal/store/store.go: the in-memory store.  Its state is one record  *)
(* of slices and maps, and every method runs under m.mu, so a method is an *)
(* operator from the state to its reply: the error, the rows it returns    *)
(* and the new state.  Time stamps, the texts of an agent and the status   *)
(* words are left out.  A missing password, email or optional argument is  *)
(* None.  newID's random identifiers are chosen by the caller, each once.  *)
(***************************************************************************)
EXTENDS Integers, Sequences, SequencesExt

CONSTANTS
    None,
    Names,      \* usernames
    PluginIds,  \* ids of plugin manifests
    Keys        \* keys of app_settings; "auth.mode" is one of them

\* NewMemory.
EmptyMemory ==
    [users |-> <<>>, passwordHashes |-> [n \in Names |-> None],
     agents |-> <<>>, llmModels |-> <<>>,
     gateway |-> [enabled |-> FALSE, secret |-> None],
     integrations |-> <<>>, agentIntegrations |-> <<>>,
     pluginManifests |-> [p \in PluginIds |-> None],
     userIdentities |-> <<>>,
     appSettings |-> [k \in Keys |-> IF k = "auth.mode" THEN "local" ELSE ""]]

Ok(db, rows) == [err |-> "", rows |-> rows, db |-> db]
Fail(db, err) == [err |-> err, rows |-> {}, db |-> db]

\* An optional argument: nil leaves the field as it is.
Given(x, old) == IF x = None THEN old ELSE x

(***************************************************************************)
(* The loops the methods are made of, over the slice db[t]: look for the   *)
(* first row that matches, change it in place, cut it out, or collect all. *)
(***************************************************************************)
First(db, t, Is(_)) ==
    LET i == SelectInSeq(db[t], Is)
    IN  IF i = 0 THEN Fail(db, "notfound") ELSE Ok(db, {db[t][i]})

Change(db, t, Is(_), New(_)) ==
    LET i == SelectInSeq(db[t], Is)
    IN  IF i = 0 THEN Fail(db, "notfound")
        ELSE Ok([db EXCEPT ![t][i] = New(@)], {New(db[t][i])})

Cut(db, t, Is(_)) ==
    LET i == SelectInSeq(db[t], Is)
    IN  IF i = 0 THEN Fail(db, "notfound")
        ELSE Ok([db EXCEPT ![t] = RemoveAt(@, i)], {})

All(db, t, Is(_)) == Ok(db, {r \in ToSet(db[t]) : Is(r)})

Has(db, t, Is(_)) == SelectInSeq(db[t], Is) # 0

Push(db, t, row) == Ok([db EXCEPT ![t] = Append(@, row)], {row})

\* The loop that copies the rows to keep, in their order, to a new slice.
Remaining(rows, gone) ==
    LET remaining[i \in 0 .. Len(rows)] ==
            IF i = 0 THEN <<>>
            ELSE IF rows[i] \in gone THEN remaining[i - 1]
            ELSE Append(remaining[i - 1], rows[i])
    IN  remaining[Len(rows)]
-----------------------------------------------------------------------------
(* Users *)

NewUser(id, name, role) ==
    [id |-> id, name |-> name, role |-> role, disabled |-> FALSE]

\* Mutant: the duplicate check is left out.
CreateUserUnchecked(db, id, name, hash, role) ==
    Push([db EXCEPT !.passwordHashes[name] = Given(hash, @)],
         "users", NewUser(id, name, role))

CreateUser(db, id, name, hash, role) ==
    IF Has(db, "users", LAMBDA u : u.name = name) THEN Fail(db, "conflict")
    ELSE Push([db EXCEPT !.passwordHashes[name] = Given(hash, @)],
              "users", NewUser(id, name, role))

GetUser(db, id) == First(db, "users", LAMBDA u : u.id = id)

GetUserByUsername(db, name) == First(db, "users", LAMBDA u : u.name = name)

ListUsers(db) == All(db, "users", LAMBDA u : TRUE)

UpdateUser(db, id, disabled, role) ==
    Change(db, "users", LAMBDA u : u.id = id,
           LAMBDA u : [u EXCEPT !.disabled = Given(disabled, @),
                                !.role = Given(role, @)])

GetPasswordHash(db, name) ==
    IF db.passwordHashes[name] = None THEN Fail(db, "notfound")
    ELSE Ok(db, {[hash |-> db.passwordHashes[name]]})

SetPasswordHash(db, name, hash) ==
    Ok([db EXCEPT !.passwordHashes[name] = hash], {})

BootstrapAdmin(db, id, name, hash) ==
    LET named(u) == u.name = name
        withHash == [db EXCEPT !.passwordHashes[name] = Given(hash, @)]
        reply == IF Has(db, "users", named)
                 THEN Change(withHash, "users", named,
                             LAMBDA u : [u EXCEPT !.disabled = FALSE,
                                                  !.role = "admin"])
                 ELSE Push(withHash, "users", NewUser(id, name, "admin"))
    IN  Ok(reply.db, {})
-----------------------------------------------------------------------------
(* Agents *)

CreateAgent(db, id, owner) ==
    Push(db, "agents", [id |-> id, owner |-> owner, state |-> "idle",
                        lastError |-> None])

GetAgent(db, id) == First(db, "agents", LAMBDA a : a.id = id)

ListAgents(db, owner) == All(db, "agents", LAMBDA a : a.owner = owner)

UpdateAgentState(db, id, state) ==
    Change(db, "agents", LAMBDA a : a.id = id,
           LAMBDA a : [a EXCEPT !.state = state])

UpdateAgentError(db, id, lastError) ==
    Change(db, "agents", LAMBDA a : a.id = id,
           LAMBDA a : [a EXCEPT !.lastError = lastError])

\* Mutant: the agent's switches stay behind.
DeleteAgentOnly(db, id) == Cut(db, "agents", LAMBDA a : a.id = id)

DeleteAgent(db, id) ==
    LET reply == Cut(db, "agents", LAMBDA a : a.id = id)
        gone == All(db, "agentIntegrations", LAMBDA r : r.agent = id).rows
        remaining == Remaining(db.agentIntegrations, gone)
    IN  IF reply.err # "" THEN reply
        ELSE [reply EXCEPT !.db.agentIntegrations = remaining]
-----------------------------------------------------------------------------
(* LLM models and the gateway's settings *)

CreateLLMModel(db, id, display, provider, enabled) ==
    Push(db, "llmModels", [id |-> id, display |-> display,
                           provider |-> provider, enabled |-> enabled])

GetLLMModel(db, id) == First(db, "llmModels", LAMBDA m : m.id = id)

ListLLMModels(db) == All(db, "llmModels", LAMBDA m : TRUE)

UpdateLLMModel(db, id, display, provider, enabled) ==
    Change(db, "llmModels", LAMBDA m : m.id = id,
           LAMBDA m : [m EXCEPT !.display = Given(display, @),
                                !.provider = Given(provider, @),
                                !.enabled = Given(enabled, @)])

GetLLMGatewaySettings(db) == Ok(db, {db.gateway})

UpsertLLMGatewaySettings(db, enabled, secret) ==
    LET row == [enabled |-> enabled, secret |-> secret]
    IN  Ok([db EXCEPT !.gateway = row], {row})
-----------------------------------------------------------------------------
(* Integrations: a user's connections and an agent's switches *)

Larger(x, y) == IF x > y THEN x ELSE y

UpsertIntegrationConnection(db, user, provider, secret, revision) ==
    LET same(c) == c.user = user /\ c.provider = provider
    IN  IF Has(db, "integrations", same)
        THEN Change(db, "integrations", same,
                    LAMBDA c : [c EXCEPT !.secret = secret,
                                !.revision = Larger(@ + 1, revision)])
        ELSE Push(db, "integrations",
                  [user |-> user, provider |-> provider, secret |-> secret,
                   revision |-> IF revision = 0 THEN 1 ELSE revision])

GetIntegrationConnection(db, user, provider) ==
    First(db, "integrations",
          LAMBDA c : c.user = user /\ c.provider = provider)

ListUserIntegrationProviderIDs(db, user) ==
    Ok(db, {[provider |-> c.provider] :
              c \in All(db, "integrations", LAMBDA c : c.user = user).rows})

\* The switches of the provider go for every agent, whoever owns it.
DeleteIntegrationConnection(db, user, provider) ==
    LET reply == Cut(db, "integrations",
                     LAMBDA c : c.user = user /\ c.provider = provider)
        gone == All(db, "agentIntegrations", LAMBDA r : r.provider = provider).rows
        remaining == Remaining(db.agentIntegrations, gone)
    IN  IF reply.err # "" THEN reply
        ELSE [reply EXCEPT !.db.agentIntegrations = remaining]

\* A new row has revision 1 whatever is asked, and no agent is looked up.
UpsertAgentIntegration(db, agent, provider, enabled, revision) ==
    LET same(r) == r.agent = agent /\ r.provider = provider
    IN  IF Has(db, "agentIntegrations", same)
        THEN Change(db, "agentIntegrations", same,
                    LAMBDA r : [r EXCEPT !.enabled = enabled,
                                !.revision = Larger(@ + 1, revision)])
        ELSE Push(db, "agentIntegrations",
                  [agent |-> agent, provider |-> provider,
                   enabled |-> enabled, revision |-> 1])

ListAgentIntegrations(db, agent) ==
    All(db, "agentIntegrations", LAMBDA r : r.agent = agent)

GetAgentIntegration(db, agent, provider) ==
    First(db, "agentIntegrations",
          LAMBDA r : r.agent = agent /\ r.provider = provider)
-----------------------------------------------------------------------------
(* Plugin manifests *)

ListPluginManifests(db, enabledOnly) ==
    Ok(db, {db.pluginManifests[p] : p \in
              {q \in PluginIds : /\ db.pluginManifests[q] # None
                                 /\ enabledOnly =>
                                        db.pluginManifests[q].enabled}})

GetPluginManifest(db, id) ==
    IF db.pluginManifests[id] = None THEN Fail(db, "notfound")
    ELSE Ok(db, {db.pluginManifests[id]})

UpsertPluginManifest(db, id, yaml, enabled) ==
    LET old == db.pluginManifests[id]
        row == [id |-> id, yaml |-> yaml, enabled |-> enabled,
                revision |-> IF old = None THEN 1 ELSE old.revision + 1]
    IN  Ok([db EXCEPT !.pluginManifests[id] = row], {row})

DeletePluginManifest(db, id) ==
    IF db.pluginManifests[id] = None THEN Fail(db, "notfound")
    ELSE Ok([db EXCEPT !.pluginManifests[id] = None], {})
-----------------------------------------------------------------------------
(* User identities *)

GetUserIDByIdentity(db, provider, subject) ==
    LET found == First(db, "userIdentities",
                       LAMBDA i : i.provider = provider /\ i.subject = subject)
    IN  Ok(db, {[user |-> i.user] : i \in found.rows})

TouchIdentityLogin(db, provider, subject) ==
    LET reply == Change(db, "userIdentities",
                        LAMBDA i : i.provider = provider /\ i.subject = subject,
                        LAMBDA i : [i EXCEPT !.seen = TRUE])
    IN  [reply EXCEPT !.rows = {}]

NewIdentity(provider, subject, user) ==
    [provider |-> provider, subject |-> subject, user |-> user, seen |-> FALSE]

CreateUserAndIdentity(db, id, name, role, provider, subject) ==
    IF \/ Has(db, "users", LAMBDA u : u.name = name)
       \/ Has(db, "userIdentities",
              LAMBDA i : i.provider = provider /\ i.subject = subject)
    THEN Fail(db, "conflict")
    ELSE LET user == NewUser(id, name, role)
         IN  Ok([db EXCEPT !.users = Append(@, user), !.userIdentities =
                    Append(@, NewIdentity(provider, subject, id))], {user})

\* Mutant: an identity that is linked already is given to the new user.
RelinkIdentity(db, user, provider, subject) ==
    LET same(i) == i.provider = provider /\ i.subject = subject
    IN  IF ~ Has(db, "users", LAMBDA u : u.id = user) THEN Fail(db, "notfound")
        ELSE IF Has(db, "userIdentities", same)
        THEN Change(db, "userIdentities", same, LAMBDA i : [i EXCEPT !.user = user])
        ELSE Ok(Push(db, "userIdentities",
                     NewIdentity(provider, subject, user)).db, {})

LinkIdentityToUser(db, user, provider, subject) ==
    IF ~ Has(db, "users", LAMBDA u : u.id = user) THEN Fail(db, "notfound")
    ELSE IF Has(db, "userIdentities",
                LAMBDA i : i.provider = provider /\ i.subject = subject)
    THEN Fail(db, "conflict")
    ELSE Ok(Push(db, "userIdentities",
                 NewIdentity(provider, subject, user)).db, {})

ListUserIdentities(db, user) ==
    All(db, "userIdentities", LAMBDA i : i.user = user)

\* Mutant: whose identity it is is not compared.
UnlinkAnyones(db, user, provider, subject) ==
    Cut(db, "userIdentities", LAMBDA i : /\ i.provider = provider
                                         /\ i.subject = subject)

UnlinkIdentity(db, user, provider, subject) ==
    Cut(db, "userIdentities", LAMBDA i : /\ i.user = user
                                         /\ i.provider = provider
                                         /\ i.subject = subject)
-----------------------------------------------------------------------------
(* Application settings *)

GetAppSetting(db, key) == Ok(db, {[key |-> key, value |-> db.appSettings[key]]})

SetAppSetting(db, key, value) == Ok([db EXCEPT !.appSettings[key] = value], {})

\* The keys that start with the prefix; an absent key is not listed.
ListAppSettings(db, keys) ==
    Ok(db, {[key |-> k, value |-> db.appSettings[k]] :
              k \in {j \in keys : db.appSettings[j] # ""}})
=============================================================================
