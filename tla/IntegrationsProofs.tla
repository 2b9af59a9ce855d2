------------------------- MODULE IntegrationsProofs -------------------------
(***************************************************************************)
(* Proofs about Integrations, for any users, agents, providers, manifests  *)
(* and keys and any number of requests, restarts and failures.             *)
(***************************************************************************)
EXTENDS Integrations, TLAPS

\* The tables, as a record, and the rows of three of them.
Tables(d) ==
  d = [users |-> d.users, agents |-> d.agents, llm_models |-> d.llm_models,
       gateway |-> d.gateway, integration_connections |-> d.integration_connections,
       agent_integrations |-> d.agent_integrations,
       plugin_manifests |-> d.plugin_manifests,
       user_identities |-> d.user_identities, app_settings |-> d.app_settings]

IsAgent(a) ==
  /\ a = [id |-> a.id, owner |-> a.owner, state |-> a.state, lastError |-> a.lastError]
  /\ a.id \in Agents /\ a.owner = Owner[a.id]

IsConnection(c) ==
  /\ c = [user |-> c.user, provider |-> c.provider, secret |-> c.secret,
          revision |-> c.revision]
  /\ c.user \in Users /\ c.provider \in Providers
  /\ c.secret \in Secret /\ c.secret.by = c.user

IsSwitch(s) ==
  /\ s = [agent |-> s.agent, provider |-> s.provider, enabled |-> s.enabled,
          revision |-> s.revision]
  /\ s.agent \in Agents /\ s.provider \in Providers /\ s.enabled \in BOOLEAN

\* A switch refers to an agent that exists: the subquery of
\* DeleteIntegrationConnection finds the owner of every one.
Store(d) ==
  /\ Tables(d)
  /\ \A u \in Users : \E x \in d.users : x.id = u
  /\ \A a \in d.agents : IsAgent(a)
  /\ \A c \in d.integration_connections : IsConnection(c)
  /\ \A s \in d.agent_integrations :
       IsSwitch(s) /\ \E a \in d.agents : a.id = s.agent

\* A request, as a record.
IsRequest(x) ==
  x = [pc |-> x.pc, user |-> x.user, agent |-> x.agent, provider |-> x.provider,
       secret |-> x.secret, todo |-> x.todo, env |-> x.env, dead |-> x.dead, on |-> x.on]

\* What holds of a request whatever the tables are.
Typed(x) ==
  /\ IsRequest(x)
  /\ x.pc \in PCs /\ x.user \in Users \cup {None} /\ x.agent \in Agents \cup {None}
  /\ x.provider \in Providers \cup {None} /\ x.secret \in Secret \cup {None}
  /\ x.todo \in SUBSET Providers /\ x.env \in [Providers -> Secret \cup {None}]
  /\ x.dead \in SUBSET Secret /\ x.on \in SUBSET Providers
  /\ x.pc \in {"save", "switches"} => x.user \in Users /\ x.provider \in Providers
  /\ x.pc = "save" => x.secret \in Secret /\ x.secret.by = x.user
  /\ x.pc = "toggle" => x.agent \in Agents /\ x.provider \in Providers
  /\ x.pc \in {"list", "resolve"} => x.user \in Users
  /\ x.pc \in {"list", "resolve", "agent", "row"} => x.agent \in Agents

Usable(x) ==
  \A p \in Providers : x.env[p] # None => x.env[p].by = x.user /\ x.env[p] \notin x.dead

\* A provider that has been on ever since is bound, or still to be bound.
Kept(x) == x.pc = "resolve" => \A p \in x.on : p \in x.todo \/ x.env[p] # None

Form(x) == Typed(x) /\ Usable(x) /\ Kept(x)

Requests(rq) == rq = [r \in Reqs |-> rq[r]] /\ \A r \in Reqs : Form(rq[r])

\* A start watches providers that are on, and knows of no credential that is
\* not revoked by now.
Watching(rq, d, R) ==
  \A r \in Reqs : rq[r].on \subseteq EnabledOn(d, rq[r].agent) /\ rq[r].dead \subseteq R

\* Every credential is in one place: a row, a request about to save it, or
\* among the revoked ones.
Fresh(s, n, R) == s.n <= n /\ s \notin R
Credentials(d, n, R) ==
  /\ R \subseteq Secret /\ \A s \in R : s.n <= n
  /\ \A c \in d.integration_connections : Fresh(c.secret, n, R)
  /\ \A c, e \in d.integration_connections :
       c.secret = e.secret => c.user = e.user /\ c.provider = e.provider
Saving(rq, d, n, R) ==
  \A r \in Reqs : rq[r].pc = "save" =>
    /\ Fresh(rq[r].secret, n, R)
    /\ \A c \in d.integration_connections : c.secret # rq[r].secret
    /\ \A q \in Reqs \ {r} : rq[q].pc = "save" => rq[q].secret # rq[r].secret

\* Why a switch may exist, or be about to be written.
Connected(d, u, p) == \E c \in d.integration_connections : c.user = u /\ c.provider = p
Covered(u, p, d, rq, dg) ==
  \/ Connected(d, u, p)
  \/ <<u, p>> \in dg
  \/ \E r \in Reqs : rq[r].pc = "switches" /\ rq[r].user = u /\ rq[r].provider = p
SwitchesCovered(d, rq, dg) ==
  \A s \in d.agent_integrations : Covered(Owner[s.agent], s.provider, d, rq, dg)
TogglesCovered(d, rq, dg) ==
  \A r \in Reqs : rq[r].pc = "toggle" =>
    Covered(Owner[rq[r].agent], rq[r].provider, d, rq, dg)

Rest ==
  /\ registered \subseteq Providers /\ key \in Keys
  /\ bound \in [Agents -> [Providers -> Secret \cup {None}]]
  /\ begun \in 0 .. MaxRequests /\ changes \in 0 .. MaxChanges
  /\ dangling \subseteq Users \X Providers

Inv ==
  /\ Rest
  /\ Store(db)
  /\ Requests(req)
  /\ Watching(req, db, revoked)
  /\ Credentials(db, begun, revoked)
  /\ Saving(req, db, begun, revoked)
  /\ SwitchesCovered(db, req, dangling)
  /\ TogglesCovered(db, req, dangling)
-----------------------------------------------------------------------------
(* The tables *)

\* The rows Stored reads.
LEMMA StoredIs ==
  ASSUME NEW u, NEW p
  PROVE  \A s : s \in Stored(u, p) <=>
           \E c \in db.integration_connections : c.user = u /\ c.provider = p /\ c.secret = s
  BY DEF Stored, Pg!GetIntegrationConnection, Pg!SelectRow, Pg!Where, Pg!Fail, Pg!Ok

\* Two fields of a connection, or of a switch, are set.
Resaved(c, s) == [c EXCEPT !.secret = s, !.revision = @ + 1]
Reset(c, s) == [c EXCEPT !.enabled = s, !.revision = @ + 1]

\* What the two updates make of a row.
LEMMA RowsUpdated ==
  ASSUME NEW c, NEW f, NEW g, NEW h, NEW k, NEW s
  PROVE  /\ c = [user |-> f, provider |-> g, secret |-> h, revision |-> k] =>
              Resaved(c, s) = [user |-> f, provider |-> g, secret |-> s, revision |-> k + 1]
         /\ c = [agent |-> f, provider |-> g, enabled |-> h, revision |-> k] =>
              Reset(c, s) = [agent |-> f, provider |-> g, enabled |-> s, revision |-> k + 1]
<1>1. PICK l : l = k + 1
  OBVIOUS
<1>2. /\ [[user |-> f, provider |-> g, secret |-> s, revision |-> k] EXCEPT !.revision = l] =
           [user |-> f, provider |-> g, secret |-> s, revision |-> l]
      /\ [[agent |-> f, provider |-> g, enabled |-> s, revision |-> k] EXCEPT !.revision = l] =
           [agent |-> f, provider |-> g, enabled |-> s, revision |-> l]
  BY ONLY TRUE
<1>3. /\ c = [user |-> f, provider |-> g, secret |-> h, revision |-> k] =>
           [c EXCEPT !.secret = s] = [user |-> f, provider |-> g, secret |-> s, revision |-> k]
      /\ c = [agent |-> f, provider |-> g, enabled |-> h, revision |-> k] =>
           [c EXCEPT !.enabled = s] = [agent |-> f, provider |-> g, enabled |-> s, revision |-> k]
  BY ONLY TRUE
<1>4. /\ Resaved(c, s) = [[c EXCEPT !.secret = s] EXCEPT !.revision = @ + 1]
      /\ Reset(c, s) = [[c EXCEPT !.enabled = s] EXCEPT !.revision = @ + 1]
  BY DEF Resaved, Reset
<1>5. /\ [user |-> f, provider |-> g, secret |-> s, revision |-> k].revision = k
      /\ [agent |-> f, provider |-> g, enabled |-> s, revision |-> k].revision = k
  BY ONLY TRUE
<1>6. /\ [[user |-> f, provider |-> g, secret |-> s, revision |-> k] EXCEPT !.revision = @ + 1] =
           [user |-> f, provider |-> g, secret |-> s, revision |-> l]
      /\ [[agent |-> f, provider |-> g, enabled |-> s, revision |-> k] EXCEPT !.revision = @ + 1] =
           [agent |-> f, provider |-> g, enabled |-> s, revision |-> l]
  BY ONLY <1>1, <1>2, <1>5
<1> QED
  BY ONLY <1>1, <1>3, <1>4, <1>6

\* UpsertIntegrationConnection leaves one credential for the pair, the new one.
LEMMA SaveTables ==
  ASSUME NEW d, Store(d), NEW u \in Users, NEW p \in Providers, NEW s \in Secret, s.by = u
  PROVE  LET e == Pg!UpsertIntegrationConnection(d, u, p, s, 0).db
         IN  /\ Store(e)
             /\ e.agent_integrations = d.agent_integrations
             /\ \A c \in e.integration_connections :
                  \/ c \in d.integration_connections /\ ~ (c.user = u /\ c.provider = p)
                  \/ c.user = u /\ c.provider = p /\ c.secret = s
             /\ \A v, q : Connected(d, v, q) => Connected(e, v, q)
<1> DEFINE e == Pg!UpsertIntegrationConnection(d, u, p, s, 0).db
           T == d.integration_connections
           same(c) == c.user = u /\ c.provider = p
           new == [user |-> u, provider |-> p, secret |-> s, revision |-> 1]
           upd(c) == Resaved(c, s)
           X == IF {c \in T : same(c)} = {} THEN T \cup {new}
                ELSE (T \ {c \in T : same(c)}) \cup {upd(c) : c \in {x \in T : same(x)}}
<1>1. e = [d EXCEPT !["integration_connections"] = X]
  <2>1. ~ \A x \in d.users : x.id # u
    BY DEF Store
  <2>2. {c \in T : same(c)} # {} => {upd(c) : c \in {x \in T : same(x)}} # {}
    OBVIOUS
  <2> QED
    BY <2>1, <2>2 DEF Pg!UpsertIntegrationConnection, Pg!OnConflict, Pg!InsertRow,
         Pg!UpdateWhere, Pg!Where, Pg!Fail, Pg!Ok, Pg!FirstRevision, Resaved
<1>2. /\ Tables(e) /\ e.integration_connections = X
      /\ e.agent_integrations = d.agent_integrations
      /\ e.agents = d.agents /\ e.users = d.users
  BY <1>1 DEF Store, Tables
<1>3. ASSUME NEW c \in T, same(c)
      PROVE  /\ IsConnection(upd(c)) /\ same(upd(c)) /\ upd(c).secret = s
  <2>1. IsConnection(c)
    BY DEF Store
  <2>2. PICK f, g, h, k : c = [user |-> f, provider |-> g, secret |-> h, revision |-> k]
    BY <2>1 DEF IsConnection
  <2>3. Resaved(c, s) =
          [user |-> f, provider |-> g, secret |-> s, revision |-> k + 1]
    BY ONLY <2>2, RowsUpdated
  <2>4. upd(c) = [user |-> f, provider |-> g, secret |-> s, revision |-> k + 1]
    BY <2>3
  <2> HIDE DEF upd
  <2> QED
    BY <2>1, <2>2, <2>4, <1>3 DEF IsConnection
<1>4. IsConnection(new) /\ same(new) /\ new.secret = s
  BY DEF IsConnection
<1>5. \A c \in X : (c \in T /\ ~ same(c)) \/ (IsConnection(c) /\ same(c) /\ c.secret = s)
  <2> HIDE DEF new, upd, same
  <2> QED
    BY <1>3, <1>4
<1>6. \A c \in T : \E x \in X : x.user = c.user /\ x.provider = c.provider
  <2> SUFFICES ASSUME NEW c \in T
               PROVE  \E x \in X : x.user = c.user /\ x.provider = c.provider
    OBVIOUS
  <2>1. CASE same(c)
    <3>1. upd(c) \in X
      BY <2>1
    <3> QED
      BY <3>1, <2>1, <1>3
  <2>2. CASE ~ same(c)
    BY <2>2
  <2> QED
    BY <2>1, <2>2
<1>7. Store(e)
  <2>1. \A c \in X : IsConnection(c)
    BY <1>5 DEF Store
  <2> HIDE DEF e, X
  <2> QED
    BY <1>2, <2>1 DEF Store
<1>8. \A v, q : Connected(d, v, q) => Connected(e, v, q)
  <2> HIDE DEF e, X
  <2> QED
    BY <1>2, <1>6 DEF Connected
<1> HIDE DEF e, X
<1>9. \A c \in e.integration_connections :
        \/ c \in d.integration_connections /\ ~ (c.user = u /\ c.provider = p)
        \/ c.user = u /\ c.provider = p /\ c.secret = s
  BY <1>2, <1>5
<1> QED
  BY <1>2, <1>7, <1>8, <1>9 DEF e

\* The first statement of DeleteIntegrationConnection: the rows of the pair go.
LEMMA DropTables ==
  ASSUME NEW d, Store(d), NEW u, NEW p
  PROVE  LET e == Pg!DeleteConnectionRow(d, u, p).db
         IN  /\ Store(e)
             /\ e.agent_integrations = d.agent_integrations
             /\ e.integration_connections =
                  {c \in d.integration_connections : ~ (c.user = u /\ c.provider = p)}
<1> DEFINE e == Pg!DeleteConnectionRow(d, u, p).db
           T == {c \in d.integration_connections : ~ (c.user = u /\ c.provider = p)}
           M == {c \in d.integration_connections : c.user = u /\ c.provider = p}
<1>1. e = IF M = {} THEN d ELSE [d EXCEPT !["integration_connections"] = @ \ M]
  BY DEF Pg!DeleteConnectionRow, Pg!DeleteWhere, Pg!Where, Pg!Fail, Pg!Ok
<1>2. d.integration_connections \ M = T /\ (M = {} => d.integration_connections = T)
  OBVIOUS
<1>3. /\ Tables(e) /\ e.integration_connections = T
      /\ e.agent_integrations = d.agent_integrations
      /\ e.agents = d.agents /\ e.users = d.users
  <2> HIDE DEF e, T, M
  <2> QED
    BY <1>1, <1>2 DEF Store, Tables
<1> HIDE DEF e
<1>4. Store(e)
  BY <1>3 DEF Store
<1> QED
  BY <1>3, <1>4 DEF e

\* The second statement: the switches of the owner's agents go, and no other.
LEMMA OwnersTables ==
  ASSUME NEW d, Store(d), NEW u, NEW p
  PROVE  LET e == Pg!DeleteOwnersSwitches(d, u, p).db
         IN  /\ Store(e)
             /\ e.integration_connections = d.integration_connections
             /\ e.agent_integrations =
                  {s \in d.agent_integrations : ~ (s.provider = p /\ Owner[s.agent] = u)}
<1> DEFINE e == Pg!DeleteOwnersSwitches(d, u, p).db
           T == {s \in d.agent_integrations : ~ (s.provider = p /\ Owner[s.agent] = u)}
           M == {s \in d.agent_integrations :
                   s.provider = p /\ \E a \in d.agents : a.id = s.agent /\ a.owner = u}
<1>1. e = IF M = {} THEN d ELSE [d EXCEPT !["agent_integrations"] = @ \ M]
  BY DEF Pg!DeleteOwnersSwitches, Pg!DeleteWhere, Pg!Where, Pg!Fail, Pg!Ok
<1>2. d.agent_integrations \ M = T
  <2>1. ASSUME NEW s \in d.agent_integrations
        PROVE  (\E a \in d.agents : a.id = s.agent /\ a.owner = u) <=> Owner[s.agent] = u
    BY DEF Store, IsAgent
  <2> QED
    BY <2>1
<1>3. /\ Tables(e) /\ e.agent_integrations = T
      /\ e.integration_connections = d.integration_connections
      /\ e.agents = d.agents /\ e.users = d.users
  <2> HIDE DEF e, T, M
  <2> QED
    BY <1>1, <1>2 DEF Store, Tables
<1> HIDE DEF e
<1>4. Store(e)
  BY <1>3 DEF Store
<1> QED
  BY <1>3, <1>4 DEF e

\* UpsertAgentIntegration: at most the switch it is about is new.
LEMMA ToggleTables ==
  ASSUME NEW d, Store(d), NEW a \in Agents, NEW p \in Providers, NEW b \in BOOLEAN
  PROVE  LET e == Pg!UpsertAgentIntegration(d, a, p, b, 0).db
         IN  /\ Store(e)
             /\ e.integration_connections = d.integration_connections
             /\ \A s \in e.agent_integrations :
                  s \in d.agent_integrations \/ (s.agent = a /\ s.provider = p)
             /\ \A s \in d.agent_integrations : \E t \in e.agent_integrations :
                  t.agent = s.agent /\ t.provider = s.provider
<1> DEFINE e == Pg!UpsertAgentIntegration(d, a, p, b, 0).db
           T == d.agent_integrations
           same(s) == s.agent = a /\ s.provider = p
           new == [agent |-> a, provider |-> p, enabled |-> b, revision |-> 1]
           upd(s) == Reset(s, b)
           X == IF {s \in T : same(s)} = {} THEN T \cup {new}
                ELSE (T \ {s \in T : same(s)}) \cup {upd(s) : s \in {x \in T : same(x)}}
<1>1. \/ e = d
      \/ e = [d EXCEPT !["agent_integrations"] = X] /\ \E x \in d.agents : x.id = a
  BY DEF Pg!UpsertAgentIntegration, Pg!OnConflict, Pg!InsertRow, Pg!UpdateWhere,
         Pg!Where, Pg!Fail, Pg!Ok, Pg!FirstRevision, Reset
<1>2. CASE e = d
  <2> HIDE DEF e
  <2> QED
    BY <1>2 DEF e
<1>3. CASE e = [d EXCEPT !["agent_integrations"] = X] /\ \E x \in d.agents : x.id = a
  <2>1. /\ Tables(e) /\ e.agent_integrations = X
        /\ e.integration_connections = d.integration_connections
        /\ e.agents = d.agents /\ e.users = d.users
    BY <1>3 DEF Store, Tables
  <2>2. ASSUME NEW s \in T, same(s)
        PROVE  IsSwitch(upd(s)) /\ same(upd(s))
    <3>1. IsSwitch(s)
      BY DEF Store
    <3>2. PICK f, g, h, k : s = [agent |-> f, provider |-> g, enabled |-> h, revision |-> k]
      BY <3>1 DEF IsSwitch
    <3>3. Reset(s, b) =
            [agent |-> f, provider |-> g, enabled |-> b, revision |-> k + 1]
      BY ONLY <3>2, RowsUpdated
    <3>4. upd(s) = [agent |-> f, provider |-> g, enabled |-> b, revision |-> k + 1]
      BY <3>3
    <3> HIDE DEF upd
    <3> QED
      BY <3>1, <3>2, <3>4, <2>2 DEF IsSwitch
  <2>3. IsSwitch(new) /\ same(new)
    BY DEF IsSwitch
  <2>4. \A s \in X : (s \in T /\ ~ same(s)) \/ (IsSwitch(s) /\ same(s))
    <3> HIDE DEF new, upd, same
    <3> QED
      BY <2>2, <2>3
  <2>5. \A s \in T : \E x \in X : x.agent = s.agent /\ x.provider = s.provider
    <3> SUFFICES ASSUME NEW s \in T
                 PROVE  \E x \in X : x.agent = s.agent /\ x.provider = s.provider
      OBVIOUS
    <3>1. CASE same(s)
      <4>1. upd(s) \in X
        BY <3>1
      <4> QED
        BY <4>1, <3>1, <2>2
    <3>2. CASE ~ same(s)
      BY <3>2
    <3> QED
      BY <3>1, <3>2
  <2>6. Store(e)
    <3>1. \A s \in X : IsSwitch(s) /\ \E x \in d.agents : x.id = s.agent
      <4> HIDE DEF X
      <4> QED
        BY <2>4, <1>3 DEF Store
    <3> HIDE DEF e, X
    <3> QED
      BY <2>1, <3>1 DEF Store
  <2> HIDE DEF e, X
  <2> QED
    BY <2>1, <2>4, <2>5, <2>6 DEF e
<1> HIDE DEF e, X
<1> QED
  BY <1>1, <1>2, <1>3 DEF e

\* The two statements of DeleteAgent take the switches of that agent, no other.
Without(d, e, a) ==
  /\ e.integration_connections = d.integration_connections
  /\ e.agent_integrations \subseteq d.agent_integrations
  /\ \A s \in d.agent_integrations : s \in e.agent_integrations \/ s.agent = a

\* The first statement of DeleteAgent.
LEMMA AgentSwitchesTables ==
  ASSUME NEW d, Store(d), NEW a
  PROVE  LET e == Pg!DeleteAgentSwitches(d, a).db
         IN  Store(e) /\ Without(d, e, a) /\ \A s \in e.agent_integrations : s.agent # a
<1> DEFINE e == Pg!DeleteAgentSwitches(d, a).db
           M == {s \in d.agent_integrations : s.agent = a}
<1>1. e = IF M = {} THEN d ELSE [d EXCEPT !["agent_integrations"] = @ \ M]
  BY DEF Pg!DeleteAgentSwitches, Pg!DeleteWhere, Pg!Where, Pg!Fail, Pg!Ok
<1>2. /\ Tables(e) /\ e.agent_integrations = d.agent_integrations \ M
      /\ e.integration_connections = d.integration_connections
      /\ e.agents = d.agents /\ e.users = d.users
  <2> HIDE DEF e, M
  <2> QED
    BY <1>1 DEF Store, Tables
<1> HIDE DEF e
<1>3. Store(e)
  BY <1>2 DEF Store
<1> QED
  BY <1>2, <1>3 DEF e, Without

\* The row of the agent goes, and its switches with it: none is left over.
LEMMA AgentRowTables ==
  ASSUME NEW d, Store(d), NEW a
  PROVE  LET e == Pg!DeleteAgentRow(d, a).db
         IN  Store(e) /\ Without(d, e, a)
<1> DEFINE e == Pg!DeleteAgentRow(d, a).db
           M == {x \in d.agents : x.id = a}
           S == {s \in d.agent_integrations : s.agent = a}
           f == [d EXCEPT !["agents"] = @ \ M]
<1>1. e = IF M = {} THEN d ELSE Pg!DeleteAgentSwitches(f, a).db
  BY DEF Pg!DeleteAgentRow, Pg!DeleteWhere, Pg!Where, Pg!Fail, Pg!Ok
<1>2. /\ Tables(f) /\ f.agents = d.agents \ M /\ f.users = d.users
      /\ f.agent_integrations = d.agent_integrations
      /\ f.integration_connections = d.integration_connections
  <2>1. PICK N : N = d.agents \ M
    OBVIOUS
  <2>2. f = [d EXCEPT !["agents"] = N]
    BY <2>1
  <2> HIDE DEF f, M
  <2> QED
    BY <2>1, <2>2 DEF Store, Tables
<1> HIDE DEF f
<1>3. CASE M = {}
  <2> HIDE DEF e
  <2> QED
    BY <1>1, <1>3 DEF Without, e
<1>4. CASE M # {}
  <2>1. e = IF S = {} THEN f ELSE [f EXCEPT !["agent_integrations"] = @ \ S]
    BY <1>1, <1>2, <1>4 DEF Pg!DeleteAgentSwitches, Pg!DeleteWhere, Pg!Where, Pg!Fail, Pg!Ok
  <2>2. /\ Tables(e) /\ e.agent_integrations = d.agent_integrations \ S
        /\ e.integration_connections = d.integration_connections
        /\ e.agents = d.agents \ M /\ e.users = d.users
    <3> HIDE DEF e, M, S
    <3> QED
      BY <1>2, <2>1 DEF Tables
  <2> HIDE DEF e
  <2>3. Store(e)
    <3>1. \A s \in e.agent_integrations : s \in d.agent_integrations /\ s.agent # a
      BY <2>2
    <3>2. \A s \in e.agent_integrations :
            IsSwitch(s) /\ \E x \in e.agents : x.id = s.agent
      BY <3>1, <2>2 DEF Store
    <3> QED
      BY <2>2, <3>2 DEF Store
  <2> QED
    BY <2>2, <2>3 DEF e, Without
<1> HIDE DEF M
<1> QED
  BY <1>3, <1>4

\* The table of agents is replaced, by one that knows the same agents.
LEMMA AgentsReplaced ==
  ASSUME NEW d, Store(d), NEW X, NEW e, e = [d EXCEPT !["agents"] = X],
         \A x \in X : IsAgent(x), \A x \in d.agents : \E y \in X : y.id = x.id
  PROVE  /\ Store(e)
         /\ e.agent_integrations = d.agent_integrations
         /\ e.integration_connections = d.integration_connections
<1>1. /\ Tables(e) /\ e.agent_integrations = d.agent_integrations
      /\ e.integration_connections = d.integration_connections
      /\ e.agents = X /\ e.users = d.users
  BY DEF Store, Tables
<1>2. \A s \in e.agent_integrations : IsSwitch(s) /\ \E y \in X : y.id = s.agent
  BY <1>1 DEF Store
<1> QED
  BY <1>1, <1>2 DEF Store

\* UpdateAgentError and UpdateAgentState change neither id nor owner.
LEMMA AgentUpdated ==
  ASSUME NEW d, Store(d), NEW a, NEW v
  PROVE  LET Same(e) == /\ Store(e)
                        /\ e.agent_integrations = d.agent_integrations
                        /\ e.integration_connections = d.integration_connections
         IN  Same(Pg!UpdateAgentError(d, a, v).db) /\ Same(Pg!UpdateAgentState(d, a, v).db)
<1> DEFINE M == {x \in d.agents : x.id = a}
           X == (d.agents \ M) \cup {[x EXCEPT !.lastError = v] : x \in M}
           Y == (d.agents \ M) \cup {[x EXCEPT !.state = v] : x \in M}
           e == Pg!UpdateAgentError(d, a, v).db
           f == Pg!UpdateAgentState(d, a, v).db
<1>1. \/ e = d
      \/ e = [d EXCEPT !["agents"] = X]
  BY DEF Pg!UpdateAgentError, Pg!UpdateWhere, Pg!Where, Pg!Fail, Pg!Ok
<1>2. \/ f = d
      \/ f = [d EXCEPT !["agents"] = Y]
  BY DEF Pg!UpdateAgentState, Pg!UpdateWhere, Pg!Where, Pg!Fail, Pg!Ok
<1>3. \A x \in d.agents : /\ IsAgent(x)
                          /\ IsAgent([x EXCEPT !.lastError = v])
                          /\ [x EXCEPT !.lastError = v].id = x.id
                          /\ IsAgent([x EXCEPT !.state = v]) /\ [x EXCEPT !.state = v].id = x.id
  BY DEF Store, IsAgent
<1>4. /\ \A x \in X \cup Y : IsAgent(x)
      /\ \A x \in d.agents : \E y \in X : y.id = x.id
      /\ \A x \in d.agents : \E y \in Y : y.id = x.id
  BY <1>3
<1> HIDE DEF X, Y, e, f
<1>5. \/ e = d
      \/ /\ Store(e)
         /\ e.agent_integrations = d.agent_integrations
         /\ e.integration_connections = d.integration_connections
  BY <1>1, <1>4, AgentsReplaced
<1>6. \/ f = d
      \/ /\ Store(f)
         /\ f.agent_integrations = d.agent_integrations
         /\ f.integration_connections = d.integration_connections
  BY <1>2, <1>4, AgentsReplaced
<1> QED
  BY <1>5, <1>6 DEF e, f

\* What the failed start writes: UpdateAgentError, UpdateAgentState.
LEMMA NotedTables ==
  ASSUME NEW d, Store(d), NEW a
  PROVE  LET f == Pg!UpdateAgentError(d, a, "resolution").db
             e == Pg!UpdateAgentState(f, a, "idle").db
         IN  /\ Store(e)
             /\ e.agent_integrations = d.agent_integrations
             /\ e.integration_connections = d.integration_connections
<1>1. PICK f : f = Pg!UpdateAgentError(d, a, "resolution").db
  OBVIOUS
<1>2. PICK e : e = Pg!UpdateAgentState(f, a, "idle").db
  OBVIOUS
<1>3. /\ Store(f) /\ f.agent_integrations = d.agent_integrations
      /\ f.integration_connections = d.integration_connections
  BY <1>1, AgentUpdated
<1>4. /\ Store(e) /\ e.agent_integrations = f.agent_integrations
      /\ e.integration_connections = f.integration_connections
  BY <1>2, <1>3, AgentUpdated
<1> QED
  BY <1>1, <1>2, <1>3, <1>4
-----------------------------------------------------------------------------
(* The states of a request *)

\* A request, from its fields.
Request9(pc, u, a, p, s, todo, env, dead, on) ==
  [pc |-> pc, user |-> u, agent |-> a, provider |-> p, secret |-> s, todo |-> todo,
   env |-> env, dead |-> dead, on |-> on]

\* One field of a request is set.
SetPc(x, v) == [x EXCEPT !.pc = v]
SetUser(x, v) == [x EXCEPT !.user = v]
SetAgent(x, v) == [x EXCEPT !.agent = v]
SetProvider(x, v) == [x EXCEPT !.provider = v]
SetSecret(x, v) == [x EXCEPT !.secret = v]
SetTodo(x, v) == [x EXCEPT !.todo = v]
SetEnv(x, v) == [x EXCEPT !.env = v]
SetDead(x, v) == [x EXCEPT !.dead = v]
SetOn(x, v) == [x EXCEPT !.on = v]

\* What setting one field makes of a request.
LEMMA FieldSet ==
  ASSUME NEW pc, NEW u, NEW a, NEW p, NEW s, NEW todo, NEW env, NEW dead, NEW on, NEW v
  PROVE  LET x == Request9(pc, u, a, p, s, todo, env, dead, on)
         IN  /\ SetPc(x, v) = Request9(v, u, a, p, s, todo, env, dead, on)
             /\ SetUser(x, v) = Request9(pc, v, a, p, s, todo, env, dead, on)
             /\ SetAgent(x, v) = Request9(pc, u, v, p, s, todo, env, dead, on)
             /\ SetProvider(x, v) = Request9(pc, u, a, v, s, todo, env, dead, on)
             /\ SetSecret(x, v) = Request9(pc, u, a, p, v, todo, env, dead, on)
             /\ SetTodo(x, v) = Request9(pc, u, a, p, s, v, env, dead, on)
             /\ SetEnv(x, v) = Request9(pc, u, a, p, s, todo, v, dead, on)
             /\ SetDead(x, v) = Request9(pc, u, a, p, s, todo, env, v, on)
             /\ SetOn(x, v) = Request9(pc, u, a, p, s, todo, env, dead, v)
  BY DEF Request9, SetPc, SetUser, SetAgent, SetProvider, SetSecret, SetTodo, SetEnv,
         SetDead, SetOn

\* The states in which the handlers leave a request.
ToSave(u, p, s) == [Idle EXCEPT !.pc = "save", !.user = u, !.provider = p, !.secret = s]
ToSwitches(u, p) == [Idle EXCEPT !.pc = "switches", !.user = u, !.provider = p]
ToToggle(u, a, p) == [Idle EXCEPT !.pc = "toggle", !.user = u, !.agent = a, !.provider = p]
ToList(u, a, dead, on) ==
  [Idle EXCEPT !.pc = "list", !.user = u, !.agent = a, !.dead = dead, !.on = on]
ToDelete(u, a) == [Idle EXCEPT !.pc = "agent", !.user = u, !.agent = a]

\* The fields of those states.
LEMMA Begun ==
  ASSUME NEW u, NEW a, NEW p, NEW s, NEW dead, NEW on
  PROVE  /\ ToSave(u, p, s) = Request9("save", u, None, p, s, {}, NoEnv, {}, {})
         /\ ToSwitches(u, p) = Request9("switches", u, None, p, None, {}, NoEnv, {}, {})
         /\ ToToggle(u, a, p) = Request9("toggle", u, a, p, None, {}, NoEnv, {}, {})
         /\ ToList(u, a, dead, on) =
              Request9("list", u, a, None, None, {}, NoEnv, dead, on)
         /\ ToDelete(u, a) = Request9("agent", u, a, None, None, {}, NoEnv, {}, {})
<1> DEFINE x(pc) == SetUser(SetPc(Idle, pc), u)
<1>1. Idle = Request9("idle", None, None, None, None, {}, NoEnv, {}, {})
  BY DEF Idle, Request9
<1>2. \A pc : x(pc) = Request9(pc, u, None, None, None, {}, NoEnv, {}, {})
  BY <1>1, FieldSet
<1>3. /\ ToSave(u, p, s) = SetSecret(SetProvider(x("save"), p), s)
      /\ ToSwitches(u, p) = SetProvider(x("switches"), p)
      /\ ToToggle(u, a, p) = SetProvider(SetAgent(x("toggle"), a), p)
      /\ ToList(u, a, dead, on) = SetOn(SetDead(SetAgent(x("list"), a), dead), on)
      /\ ToDelete(u, a) = SetAgent(x("agent"), a)
  BY DEF SetPc, SetUser, SetAgent, SetProvider, SetSecret, SetDead, SetOn,
         ToSave, ToSwitches, ToToggle, ToList, ToDelete
<1> HIDE DEF x
<1> QED
  BY <1>2, <1>3, FieldSet

\* The fields of a request, and what they must be.
LEMMA FormOf ==
  ASSUME NEW pc, NEW u, NEW a, NEW p, NEW s, NEW todo, NEW env, NEW dead, NEW on
  PROVE  LET x == Request9(pc, u, a, p, s, todo, env, dead, on)
         IN  /\ IsRequest(x)
             /\ x.pc = pc /\ x.user = u /\ x.agent = a /\ x.provider = p /\ x.secret = s
             /\ x.todo = todo /\ x.env = env /\ x.dead = dead /\ x.on = on
  BY DEF Request9, IsRequest

\* A request that has not begun.
LEMMA IdleForm == Form(Idle) /\ Idle.pc = "idle" /\ Idle.dead = {} /\ Idle.on = {}
<1>1. NoEnv \in [Providers -> Secret \cup {None}] /\ \A p \in Providers : NoEnv[p] = None
  BY DEF NoEnv
<1> HIDE DEF NoEnv
<1>2. IsRequest(Idle)
  BY DEF Idle, IsRequest
<1>3. /\ Idle.pc = "idle" /\ Idle.user = None /\ Idle.agent = None /\ Idle.provider = None
      /\ Idle.secret = None /\ Idle.todo = {} /\ Idle.env = NoEnv /\ Idle.dead = {}
      /\ Idle.on = {}
  BY DEF Idle
<1> HIDE DEF Idle
<1> QED
  BY <1>1, <1>2, <1>3 DEF Form, Typed, Usable, Kept, PCs

\* A new request has no environment yet.
LEMMA BegunForm ==
  ASSUME NEW pc \in PCs \ {"idle", "resolve"}, NEW u \in Users, NEW a \in Agents \cup {None},
         NEW p \in Providers \cup {None}, NEW s \in Secret \cup {None},
         NEW dead \in SUBSET Secret, NEW on \in SUBSET Providers,
         pc \in {"save", "switches", "toggle"} => p \in Providers,
         pc = "save" => s \in Secret /\ s.by = u,
         pc \in {"toggle", "list", "agent", "row"} => a \in Agents
  PROVE  Form(Request9(pc, u, a, p, s, {}, NoEnv, dead, on))
<1>1. NoEnv \in [Providers -> Secret \cup {None}] /\ \A q \in Providers : NoEnv[q] = None
  BY DEF NoEnv
<1> HIDE DEF NoEnv
<1>2. PICK x : x = Request9(pc, u, a, p, s, {}, NoEnv, dead, on)
  OBVIOUS
<1>3. /\ IsRequest(x)
      /\ x.pc = pc /\ x.user = u /\ x.agent = a /\ x.provider = p /\ x.secret = s
      /\ x.todo = {} /\ x.env = NoEnv /\ x.dead = dead /\ x.on = on
  BY <1>2, FormOf
<1>4. Form(x)
  BY <1>1, <1>3 DEF Form, Typed, Usable, Kept
<1> QED
  BY <1>2, <1>4

\* The fields that a write of the tables leaves alone in every request.
Alike(x, y) ==
  /\ x.pc = y.pc /\ x.user = y.user /\ x.agent = y.agent /\ x.provider = y.provider
  /\ x.secret = y.secret /\ x.dead = y.dead

\* One request moves to x, the others stay.
Moves(rq, rr, r, x) ==
  Alike(rr[r], x) /\ \A q \in Reqs \ {r} : Alike(rr[q], rq[q])

\* A request takes a step that leaves the tables alone.
Put(rq, r, x) == [rq EXCEPT ![r] = x]

\* The others stay as they are, and nothing else changes.
LEMMA Moved ==
  ASSUME NEW rq, Requests(rq), NEW r \in Reqs, NEW x, Form(x), NEW rr,
         rr = Put(rq, r, x)
  PROVE  /\ Requests(rr) /\ Moves(rq, rr, r, x)
         /\ rr[r] = x /\ \A q \in Reqs \ {r} : rr[q] = rq[q]
<1>1. /\ rr = [q \in Reqs |-> rr[q]]
      /\ rr[r] = x /\ \A q \in Reqs \ {r} : rr[q] = rq[q]
  BY DEF Requests, Put
<1>2. \A q \in Reqs : Form(rr[q])
  BY <1>1 DEF Requests
<1>3. Moves(rq, rr, r, x)
  BY <1>1 DEF Moves, Alike
<1> QED
  BY <1>1, <1>2, <1>3 DEF Requests

\* A start forgets providers: the rest of the request is as it was.
LEMMA Forgets ==
  ASSUME NEW x, Form(x), NEW S
  PROVE  LET y == [x EXCEPT !.on = @ \cap S]
         IN  Form(y) /\ Alike(y, x) /\ y.on \subseteq S
<1>1. PICK pc, u, a, p, s, todo, env, dead, on :
        x = Request9(pc, u, a, p, s, todo, env, dead, on)
  BY DEF Form, Typed, IsRequest, Request9
<1>2. /\ x.pc = pc /\ x.user = u /\ x.agent = a /\ x.provider = p /\ x.secret = s
      /\ x.todo = todo /\ x.env = env /\ x.dead = dead /\ x.on = on
  BY <1>1, FormOf
<1>3. [x EXCEPT !.on = @ \cap S] = SetOn(x, x.on \cap S)
  BY DEF SetOn
<1>4. SetOn(x, x.on \cap S) = Request9(pc, u, a, p, s, todo, env, dead, on \cap S)
  BY <1>1, <1>2, FieldSet
<1>5. PICK y : y = Request9(pc, u, a, p, s, todo, env, dead, on \cap S)
  OBVIOUS
<1>6. /\ IsRequest(y)
      /\ y.pc = pc /\ y.user = u /\ y.agent = a /\ y.provider = p /\ y.secret = s
      /\ y.todo = todo /\ y.env = env /\ y.dead = dead /\ y.on = on \cap S
  BY <1>5, FormOf
<1>7. Form(y) /\ Alike(y, x) /\ y.on \subseteq S
  BY ONLY <1>2, <1>6, Form(x) DEF Form, Typed, Usable, Kept, Alike
<1> QED
  BY ONLY <1>3, <1>4, <1>5, <1>7

\* A request takes a step that writes the tables.
LEMMA WatchedMoved ==
  ASSUME NEW rq, Requests(rq), NEW r \in Reqs, NEW x, Form(x), NEW e, NEW rr,
         rr = Watched(Put(rq, r, x), e)
  PROVE  /\ Requests(rr) /\ Moves(rq, rr, r, x)
         /\ \A q \in Reqs : rr[q].on \subseteq EnabledOn(e, rr[q].agent)
<1>1. PICK t : t = Put(rq, r, x)
  OBVIOUS
<1>2. /\ Requests(t) /\ t[r] = x /\ \A q \in Reqs \ {r} : t[q] = rq[q]
  BY <1>1, Moved
<1>3. rr = Watched(t, e)
  BY <1>1
<1>4. ASSUME NEW q \in Reqs
      PROVE  /\ Form(rr[q]) /\ Alike(rr[q], t[q])
             /\ rr[q].on \subseteq EnabledOn(e, t[q].agent)
  <2>1. PICK y, S : y = t[q] /\ S = EnabledOn(e, t[q].agent)
    OBVIOUS
  <2>2. rr[q] = [y EXCEPT !.on = @ \cap S]
    BY ONLY <1>3, <2>1, q \in Reqs DEF Watched
  <2>3. Form(y)
    BY <1>2, <2>1 DEF Requests
  <2>4. PICK z : z = [y EXCEPT !.on = @ \cap S]
    OBVIOUS
  <2>5. Form(z) /\ Alike(z, y) /\ z.on \subseteq S
    BY ONLY <2>3, <2>4, Forgets
  <2>6. rr[q] = z
    BY ONLY <2>2, <2>4
  <2> QED
    BY ONLY <2>1, <2>5, <2>6
<1>5. rr = [q \in Reqs |-> rr[q]]
  BY ONLY <1>3 DEF Watched
<1>6. Requests(rr)
  BY <1>4, <1>5 DEF Requests
<1>7. Moves(rq, rr, r, x)
  BY <1>2, <1>4 DEF Moves
<1>8. \A q \in Reqs : rr[q].agent = t[q].agent
  BY <1>4 DEF Alike
<1> QED
  BY ONLY <1>4, <1>6, <1>7, <1>8
-----------------------------------------------------------------------------
(* The parts of the invariant *)

\* What a start knows to be revoked stays revoked.
LEMMA WatchingKept ==
  ASSUME NEW rq, NEW rr, NEW r \in Reqs, NEW x, Moves(rq, rr, r, x), NEW d, NEW e,
         NEW R, NEW RR, Watching(rq, d, R), R \subseteq RR, x.dead \subseteq RR,
         \A q \in Reqs : rr[q].on \subseteq EnabledOn(e, rr[q].agent)
  PROVE  Watching(rr, e, RR)
<1>1. \A q \in Reqs : rr[q].dead \subseteq RR
  BY DEF Watching, Moves, Alike
<1> QED
  BY <1>1 DEF Watching

\* A step that neither brings nor moves a credential.
LEMMA CredentialsKept ==
  ASSUME NEW rq, NEW rr, NEW r \in Reqs, NEW x, Moves(rq, rr, r, x), NEW d, NEW e,
         NEW n \in Nat, NEW m \in Nat, n <= m, NEW R,
         Credentials(d, n, R), Saving(rq, d, n, R), Requests(rq), Store(d),
         e.integration_connections = d.integration_connections, x.pc # "save"
  PROVE  Credentials(e, m, R) /\ Saving(rr, e, m, R)
<1>1. \A s \in Secret : s.n \in Nat /\ (s.n <= n => s.n <= m)
  BY DEF Secret
<1>2. Credentials(e, m, R)
  BY <1>1 DEF Credentials, Fresh, Store, IsConnection
<1>3. ASSUME NEW q \in Reqs, rr[q].pc = "save"
      PROVE  /\ q # r /\ rq[q].pc = "save" /\ rr[q].secret = rq[q].secret
             /\ rq[q].secret \in Secret
  BY <1>3 DEF Moves, Alike, Requests, Form, Typed
<1>4. Saving(rr, e, m, R)
  <2> SUFFICES ASSUME NEW q \in Reqs, rr[q].pc = "save"
               PROVE  /\ Fresh(rr[q].secret, m, R)
                      /\ \A c \in e.integration_connections : c.secret # rr[q].secret
                      /\ \A z \in Reqs \ {q} :
                           rr[z].pc = "save" => rr[z].secret # rr[q].secret
    BY DEF Saving
  <2>1. /\ rq[q].pc = "save" /\ rr[q].secret = rq[q].secret /\ rq[q].secret \in Secret
    BY <1>3
  <2>2. /\ Fresh(rq[q].secret, n, R)
        /\ \A c \in e.integration_connections : c.secret # rq[q].secret
        /\ \A z \in Reqs \ {q} : rq[z].pc = "save" => rq[z].secret # rq[q].secret
    BY <2>1 DEF Saving
  <2>3. Fresh(rr[q].secret, m, R)
    BY <1>1, <2>1, <2>2 DEF Fresh
  <2> QED
    BY ONLY <1>3, <2>1, <2>2, <2>3
<1> QED
  BY <1>2, <1>4

\* A connect makes a credential nobody has had before.
LEMMA CredentialsMade ==
  ASSUME NEW rq, NEW rr, NEW r \in Reqs, NEW x, Moves(rq, rr, r, x), NEW d,
         NEW n \in Nat, NEW R,
         Credentials(d, n, R), Saving(rq, d, n, R), Requests(rq), Store(d),
         x.secret \in Secret, x.secret.n = n + 1
  PROVE  Credentials(d, n + 1, R) /\ Saving(rr, d, n + 1, R)
<1>1. \A s \in Secret : s.n \in Nat /\ (s.n <= n => s.n <= n + 1 /\ s # x.secret)
  BY DEF Secret
<1>2. Credentials(d, n + 1, R)
  BY <1>1 DEF Credentials, Fresh, Store, IsConnection
<1>3. ASSUME NEW q \in Reqs \ {r}, rr[q].pc = "save"
      PROVE  /\ rq[q].pc = "save" /\ rr[q].secret = rq[q].secret
             /\ rq[q].secret \in Secret /\ Fresh(rq[q].secret, n, R)
             /\ rq[q].secret # x.secret
  <2>1. /\ rq[q].pc = "save" /\ rr[q].secret = rq[q].secret /\ rq[q].secret \in Secret
    BY <1>3 DEF Moves, Alike, Requests, Form, Typed
  <2>2. Fresh(rq[q].secret, n, R)
    BY <2>1 DEF Saving
  <2> QED
    BY <1>1, <2>1, <2>2 DEF Fresh
<1>4. rr[r].secret = x.secret
  BY DEF Moves, Alike
<1>5. Fresh(x.secret, n + 1, R) /\ \A c \in d.integration_connections : c.secret # x.secret
  BY <1>1 DEF Credentials, Fresh, Store, IsConnection
<1>6. Saving(rr, d, n + 1, R)
  <2> SUFFICES ASSUME NEW q \in Reqs, rr[q].pc = "save"
               PROVE  /\ Fresh(rr[q].secret, n + 1, R)
                      /\ \A c \in d.integration_connections : c.secret # rr[q].secret
                      /\ \A z \in Reqs \ {q} :
                           rr[z].pc = "save" => rr[z].secret # rr[q].secret
    BY DEF Saving
  <2>1. CASE q = r
    BY <2>1, <1>3, <1>4, <1>5
  <2>2. CASE q # r
    <3>1. /\ rq[q].pc = "save" /\ rr[q].secret = rq[q].secret
          /\ rq[q].secret \in Secret /\ Fresh(rq[q].secret, n, R)
          /\ rq[q].secret # x.secret
      BY <1>3, <2>2
    <3>2. /\ \A c \in d.integration_connections : c.secret # rq[q].secret
          /\ \A z \in Reqs \ {q} : rq[z].pc = "save" => rq[z].secret # rq[q].secret
      BY <3>1 DEF Saving
    <3>3. Fresh(rr[q].secret, n + 1, R)
      BY <1>1, <3>1 DEF Fresh
    <3>4. ASSUME NEW z \in Reqs \ {q}, rr[z].pc = "save"
          PROVE  rr[z].secret # rr[q].secret
      BY ONLY <3>4, <1>3, <1>4, <3>1, <3>2
    <3> QED
      BY ONLY <3>1, <3>2, <3>3, <3>4
  <2> QED
    BY <2>1, <2>2
<1> QED
  BY <1>2, <1>6

\* S is what the tables hold for the pair.
Held(S, d, u, p) ==
  \A s : s \in S <=>
    \E c \in d.integration_connections : c.user = u /\ c.provider = p /\ c.secret = s

\* The credentials of a pair are revoked together with their rows.
LEMMA CredentialsDropped ==
  ASSUME NEW rq, NEW rr, NEW r \in Reqs, NEW x, Moves(rq, rr, r, x), NEW d, NEW e,
         NEW n \in Nat, NEW R, NEW S, NEW u, NEW p,
         Credentials(d, n, R), Saving(rq, d, n, R), Requests(rq), Store(d), Held(S, d, u, p),
         e.integration_connections =
           {c \in d.integration_connections : ~ (c.user = u /\ c.provider = p)},
         x.pc # "save"
  PROVE  Credentials(e, n, R \cup S) /\ Saving(rr, e, n, R \cup S)
<1>1. \A s \in S : s \in Secret /\ s.n <= n
  BY DEF Held, Credentials, Fresh, Store, IsConnection
<1>2. \A c \in e.integration_connections :
        c \in d.integration_connections /\ Fresh(c.secret, n, R \cup S)
  BY DEF Held, Credentials, Fresh
<1>3. Credentials(e, n, R \cup S)
  BY <1>1, <1>2 DEF Credentials
<1>4. ASSUME NEW q \in Reqs, rr[q].pc = "save"
      PROVE  /\ q # r /\ rq[q].pc = "save" /\ rr[q].secret = rq[q].secret
  BY <1>4 DEF Moves, Alike
<1>5. Saving(rr, e, n, R \cup S)
  <2> SUFFICES ASSUME NEW q \in Reqs, rr[q].pc = "save"
               PROVE  /\ Fresh(rr[q].secret, n, R \cup S)
                      /\ \A c \in e.integration_connections : c.secret # rr[q].secret
                      /\ \A z \in Reqs \ {q} :
                           rr[z].pc = "save" => rr[z].secret # rr[q].secret
    BY DEF Saving
  <2>1. /\ Fresh(rq[q].secret, n, R)
        /\ \A c \in d.integration_connections : c.secret # rq[q].secret
        /\ \A z \in Reqs \ {q} : rq[z].pc = "save" => rq[z].secret # rq[q].secret
    BY <1>4 DEF Saving
  <2>2. Fresh(rq[q].secret, n, R \cup S)
    BY <2>1 DEF Held, Fresh
  <2> QED
    BY <1>2, <1>4, <2>1, <2>2
<1> QED
  BY <1>3, <1>5

\* A saved credential takes the place of the ones that are revoked.
LEMMA CredentialsSaved ==
  ASSUME NEW rq, NEW rr, NEW r \in Reqs, NEW x, Moves(rq, rr, r, x), NEW d, NEW e,
         NEW n \in Nat, NEW R, NEW S, NEW u, NEW p, NEW k,
         Credentials(d, n, R), Saving(rq, d, n, R), Requests(rq), Store(d), Held(S, d, u, p),
         rq[r].pc = "save", rq[r].secret = k,
         \A c \in e.integration_connections :
           \/ c \in d.integration_connections /\ ~ (c.user = u /\ c.provider = p)
           \/ c.user = u /\ c.provider = p /\ c.secret = k,
         x.pc # "save"
  PROVE  Credentials(e, n, R \cup S) /\ Saving(rr, e, n, R \cup S)
<1>1. \A s \in S : s \in Secret /\ s.n <= n
  BY DEF Held, Credentials, Fresh, Store, IsConnection
<1>2. Fresh(k, n, R \cup S) /\ \A c \in d.integration_connections : c.secret # k
  BY DEF Saving, Held, Fresh
<1>3. \A c \in e.integration_connections : Fresh(c.secret, n, R \cup S)
  <2> SUFFICES ASSUME NEW c \in e.integration_connections
               PROVE  Fresh(c.secret, n, R \cup S)
    OBVIOUS
  <2>1. CASE c \in d.integration_connections /\ ~ (c.user = u /\ c.provider = p)
    BY <2>1 DEF Credentials, Held, Fresh
  <2>2. CASE c.secret = k
    BY <1>2, <2>2
  <2> QED
    BY <2>1, <2>2
<1>4. \A c, f \in e.integration_connections :
        c.secret = f.secret => c.user = f.user /\ c.provider = f.provider
  BY <1>2 DEF Credentials
<1>5. Credentials(e, n, R \cup S)
  BY <1>1, <1>3, <1>4 DEF Credentials
<1>6. ASSUME NEW q \in Reqs, rr[q].pc = "save"
      PROVE  /\ q # r /\ rq[q].pc = "save" /\ rr[q].secret = rq[q].secret
  BY <1>6 DEF Moves, Alike
<1>7. Saving(rr, e, n, R \cup S)
  <2> SUFFICES ASSUME NEW q \in Reqs, rr[q].pc = "save"
               PROVE  /\ Fresh(rr[q].secret, n, R \cup S)
                      /\ \A c \in e.integration_connections : c.secret # rr[q].secret
                      /\ \A z \in Reqs \ {q} :
                           rr[z].pc = "save" => rr[z].secret # rr[q].secret
    BY DEF Saving
  <2>1. /\ Fresh(rq[q].secret, n, R)
        /\ \A c \in d.integration_connections : c.secret # rq[q].secret
        /\ \A z \in Reqs \ {q} : rq[z].pc = "save" => rq[z].secret # rq[q].secret
    BY <1>6 DEF Saving
  <2>2. Fresh(rq[q].secret, n, R \cup S)
    BY <2>1 DEF Held, Fresh
  <2>3. k # rq[q].secret
    BY <1>6, <2>1
  <2>4. \A c \in e.integration_connections : c.secret # rq[q].secret
    BY <2>1, <2>3
  <2>5. rr[q].secret = rq[q].secret
    BY <1>6
  <2> QED
    BY ONLY <1>6, <2>1, <2>2, <2>4, <2>5
<1> QED
  BY <1>5, <1>7

\* What covers a pair is lost only by the step that deletes its connection or
\* ends its disconnect.
LEMMA CoveredKept ==
  ASSUME NEW rq, NEW rr, NEW r \in Reqs, NEW x, Moves(rq, rr, r, x), NEW d, NEW e,
         NEW D, NEW DD, D \subseteq DD, NEW u, NEW p, Covered(u, p, d, rq, D),
         Connected(d, u, p) => Connected(e, u, p) \/ Covered(u, p, e, rr, DD),
         ~ (rq[r].pc = "switches" /\ rq[r].user = u /\ rq[r].provider = p)
  PROVE  Covered(u, p, e, rr, DD)
<1>1. CASE Connected(d, u, p)
  BY <1>1 DEF Covered
<1>2. CASE <<u, p>> \in D
  BY <1>2 DEF Covered
<1>3. ASSUME NEW q \in Reqs, rq[q].pc = "switches", rq[q].user = u, rq[q].provider = p
      PROVE  Covered(u, p, e, rr, DD)
  <2>1. rr[q].pc = "switches" /\ rr[q].user = u /\ rr[q].provider = p
    BY <1>3 DEF Moves, Alike
  <2> QED
    BY <2>1 DEF Covered
<1> QED
  BY <1>1, <1>2, <1>3 DEF Covered

\* A step that disconnects nobody, brings no switch and no toggle.
LEMMA CoverageKept ==
  ASSUME NEW rq, NEW rr, NEW r \in Reqs, NEW x, Moves(rq, rr, r, x), NEW d, NEW e, NEW D,
         SwitchesCovered(d, rq, D), TogglesCovered(d, rq, D),
         \A u, p : Connected(d, u, p) => Connected(e, u, p),
         e.agent_integrations \subseteq d.agent_integrations,
         x.pc # "toggle", rq[r].pc # "switches"
  PROVE  SwitchesCovered(e, rr, D) /\ TogglesCovered(e, rr, D)
<1>1. \A u, p : Covered(u, p, d, rq, D) => Covered(u, p, e, rr, D)
  BY CoveredKept
<1>2. SwitchesCovered(e, rr, D)
  BY <1>1 DEF SwitchesCovered
<1>3. TogglesCovered(e, rr, D)
  <2> SUFFICES ASSUME NEW q \in Reqs, rr[q].pc = "toggle"
               PROVE  Covered(Owner[rr[q].agent], rr[q].provider, e, rr, D)
    BY DEF TogglesCovered
  <2>1. /\ rq[q].pc = "toggle" /\ rr[q].agent = rq[q].agent
        /\ rr[q].provider = rq[q].provider
    BY DEF Moves, Alike
  <2> QED
    BY <1>1, <2>1 DEF TogglesCovered
<1> QED
  BY <1>2, <1>3

\* A toggle that finds the owner connected, and a toggle that is written.
LEMMA CoverageToggled ==
  ASSUME NEW rq, NEW rr, NEW r \in Reqs, NEW x, Moves(rq, rr, r, x), NEW d, NEW e, NEW D,
         SwitchesCovered(d, rq, D), TogglesCovered(d, rq, D),
         e.integration_connections = d.integration_connections,
         \A s \in e.agent_integrations :
           \/ s \in d.agent_integrations
           \/ rq[r].pc = "toggle" /\ s.agent = rq[r].agent /\ s.provider = rq[r].provider,
         x.pc = "toggle" => Connected(d, Owner[x.agent], x.provider),
         rq[r].pc # "switches"
  PROVE  SwitchesCovered(e, rr, D) /\ TogglesCovered(e, rr, D)
<1>1. \A u, p : Connected(d, u, p) => Connected(e, u, p)
  BY DEF Connected
<1>2. \A u, p : Covered(u, p, d, rq, D) => Covered(u, p, e, rr, D)
  BY <1>1, CoveredKept
<1>3. SwitchesCovered(e, rr, D)
  <2> SUFFICES ASSUME NEW s \in e.agent_integrations
               PROVE  Covered(Owner[s.agent], s.provider, d, rq, D)
    BY <1>2 DEF SwitchesCovered
  <2> QED
    BY DEF SwitchesCovered, TogglesCovered
<1>4. TogglesCovered(e, rr, D)
  <2> SUFFICES ASSUME NEW q \in Reqs, rr[q].pc = "toggle"
               PROVE  Covered(Owner[rr[q].agent], rr[q].provider, e, rr, D)
    BY DEF TogglesCovered
  <2>1. CASE q = r
    <3>1. Connected(d, Owner[rr[q].agent], rr[q].provider)
      BY <2>1 DEF Moves, Alike
    <3> QED
      BY <1>1, <3>1 DEF Covered
  <2>2. CASE q # r
    <3>1. /\ rq[q].pc = "toggle" /\ rr[q].agent = rq[q].agent
          /\ rr[q].provider = rq[q].provider
      BY <2>2 DEF Moves, Alike
    <3> QED
      BY <1>2, <3>1 DEF TogglesCovered
  <2> QED
    BY <2>1, <2>2
<1> QED
  BY <1>3, <1>4

\* A disconnect begins: until it ends it covers the pair it leaves unconnected.
LEMMA CoverageDropped ==
  ASSUME NEW rq, NEW rr, NEW r \in Reqs, NEW x, Moves(rq, rr, r, x), NEW d, NEW e, NEW D,
         NEW u, NEW p, SwitchesCovered(d, rq, D), TogglesCovered(d, rq, D),
         e.agent_integrations = d.agent_integrations,
         e.integration_connections =
           {c \in d.integration_connections : ~ (c.user = u /\ c.provider = p)},
         x.pc = "switches", x.user = u, x.provider = p, rq[r].pc # "switches"
  PROVE  SwitchesCovered(e, rr, D) /\ TogglesCovered(e, rr, D)
<1>1. Covered(u, p, e, rr, D)
  BY DEF Covered, Moves, Alike
<1>2. \A v, q : Connected(d, v, q) => Connected(e, v, q) \/ Covered(v, q, e, rr, D)
  BY <1>1 DEF Connected
<1>3. \A v, q : Covered(v, q, d, rq, D) => Covered(v, q, e, rr, D)
  BY <1>2, CoveredKept
<1>4. SwitchesCovered(e, rr, D)
  BY <1>3 DEF SwitchesCovered
<1>5. ASSUME NEW q \in Reqs, rr[q].pc = "toggle"
      PROVE  Covered(Owner[rr[q].agent], rr[q].provider, e, rr, D)
  <2>1. /\ rq[q].pc = "toggle" /\ rr[q].agent = rq[q].agent
        /\ rr[q].provider = rq[q].provider
    BY <1>5 DEF Moves, Alike
  <2> QED
    BY <1>3, <2>1 DEF TogglesCovered
<1> QED
  BY <1>4, <1>5 DEF TogglesCovered

\* A disconnect ends: its switches are gone and no toggle is about to write
\* one, or the pair is noted.
Ended(u, p, e, rq, DD) ==
  \/ <<u, p>> \in DD
  \/ /\ \A s \in e.agent_integrations : ~ (s.provider = p /\ Owner[s.agent] = u)
     /\ \A q \in Reqs : rq[q].pc = "toggle" =>
          ~ (rq[q].provider = p /\ Owner[rq[q].agent] = u)

\* Then the pair needs the disconnect no longer.
LEMMA CoverageEnded ==
  ASSUME NEW rq, NEW rr, NEW r \in Reqs, NEW x, Moves(rq, rr, r, x), NEW d, NEW e,
         NEW D, NEW DD, D \subseteq DD, NEW u, NEW p,
         SwitchesCovered(d, rq, D), TogglesCovered(d, rq, D),
         e.integration_connections = d.integration_connections,
         e.agent_integrations \subseteq d.agent_integrations,
         rq[r].user = u, rq[r].provider = p, x.pc # "toggle", Ended(u, p, e, rq, DD)
  PROVE  SwitchesCovered(e, rr, DD) /\ TogglesCovered(e, rr, DD)
<1>1. \A v, q : Connected(d, v, q) => Connected(e, v, q)
  BY DEF Connected
<1>2. \A v, q : Covered(v, q, d, rq, D) /\ ~ (v = u /\ q = p) => Covered(v, q, e, rr, DD)
  BY <1>1, CoveredKept
<1>3. <<u, p>> \in DD => Covered(u, p, e, rr, DD)
  BY DEF Covered
<1>4. SwitchesCovered(e, rr, DD)
  BY <1>2, <1>3 DEF SwitchesCovered, Ended
<1>5. ASSUME NEW q \in Reqs, rr[q].pc = "toggle"
      PROVE  Covered(Owner[rr[q].agent], rr[q].provider, e, rr, DD)
  <2>1. /\ rq[q].pc = "toggle" /\ rr[q].agent = rq[q].agent
        /\ rr[q].provider = rq[q].provider
    BY <1>5 DEF Moves, Alike
  <2> QED
    BY <1>2, <1>3, <2>1 DEF TogglesCovered, Ended
<1> QED
  BY <1>4, <1>5 DEF TogglesCovered
-----------------------------------------------------------------------------
(* The invariant holds *)

\* The tables and the requests when the server starts.
LEMMA InitInv == Init => Inv
<1> SUFFICES ASSUME Init PROVE Inv
  OBVIOUS
<1> USE IntegrationsAssumption
<1>1. /\ Tables(db) /\ db.users = {UserOf(u) : u \in Users}
      /\ db.agents = {AgentOf(a) : a \in Agents}
      /\ db.integration_connections = {} /\ db.agent_integrations = {}
  <2>1. PICK U, A : U = {UserOf(u) : u \in Users} /\ A = {AgentOf(a) : a \in Agents}
    OBVIOUS
  <2>2. db = [[Pg!EmptyTables EXCEPT !.users = U] EXCEPT !.agents = A]
    BY <2>1 DEF Init
  <2> QED
    BY ONLY <2>1, <2>2 DEF Tables, Pg!EmptyTables
<1>2. \A u \in Users : UserOf(u).id = u
  BY DEF UserOf, Pg!UserRow
<1>3. \A a \in Agents : IsAgent(AgentOf(a))
  BY DEF AgentOf, IsAgent
<1>4. Store(db)
  <2> HIDE DEF IsAgent
  <2> QED
    BY <1>1, <1>2, <1>3 DEF Store
<1>5. req = [r \in Reqs |-> Idle]
  BY DEF Init
<1>6. Requests(req)
  BY <1>5, IdleForm DEF Requests
<1>7. /\ Watching(req, db, revoked) /\ Saving(req, db, begun, revoked)
      /\ TogglesCovered(db, req, dangling)
  BY <1>5, IdleForm DEF Watching, Saving, TogglesCovered
<1>8. Credentials(db, begun, revoked) /\ SwitchesCovered(db, req, dangling)
  BY <1>1 DEF Init, Credentials, SwitchesCovered
<1>9. Rest
  BY DEF Init, Rest, NoEnv
<1> QED
  BY <1>4, <1>6, <1>7, <1>8, <1>9 DEF Inv

\* A request begins that reads the tables only.
LEMMA BeginInv ==
  ASSUME Inv, NEW r \in Reqs, NEW x, Form(x), Begin(r, x), x.pc # "save",
         x.dead \subseteq revoked, x.on \subseteq EnabledOn(db, x.agent),
         x.pc = "toggle" => Connected(db, Owner[x.agent], x.provider),
         UNCHANGED <<db, registered, servers, key, bound, changes, revoked, dangling>>
  PROVE  Inv'
<1> USE IntegrationsAssumption
<1>1. /\ req' = Put(req, r, x) /\ begun' = begun + 1 /\ begun < MaxRequests
      /\ req[r].pc = "idle"
  BY IdleForm DEF Begin, Put
<1>2. /\ Requests(req') /\ Moves(req, req', r, x)
      /\ req'[r] = x /\ \A q \in Reqs \ {r} : req'[q] = req[q]
  BY <1>1, Moved DEF Inv
<1>3. Rest'
  BY <1>1 DEF Inv, Rest
<1>4. begun \in Nat /\ begun' \in Nat /\ begun <= begun'
  BY <1>1 DEF Inv, Rest
<1>5. \A q \in Reqs : req'[q].on \subseteq EnabledOn(db, req'[q].agent)
  BY <1>2 DEF Inv, Watching
<1>6. Watching(req', db, revoked)
  BY <1>2, <1>5, WatchingKept DEF Inv
<1>7. Credentials(db, begun', revoked) /\ Saving(req', db, begun', revoked)
  BY <1>2, <1>4, CredentialsKept DEF Inv
<1>8. SwitchesCovered(db, req', dangling) /\ TogglesCovered(db, req', dangling)
  BY <1>1, <1>2, CoverageToggled DEF Inv
<1> QED
  BY <1>2, <1>3, <1>6, <1>7, <1>8 DEF Inv

\* A request that is under way reads the tables only.
LEMMA ReadInv ==
  ASSUME Inv, NEW r \in Reqs, NEW x, Form(x), req' = Put(req, r, x), Rest',
         x.pc \notin {"save", "toggle"}, req[r].pc # "switches",
         x.dead \subseteq revoked, x.on \subseteq EnabledOn(db, x.agent),
         UNCHANGED <<db, begun, revoked, dangling>>
  PROVE  Inv'
<1>1. /\ Requests(req') /\ Moves(req, req', r, x)
      /\ req'[r] = x /\ \A q \in Reqs \ {r} : req'[q] = req[q]
  BY Moved DEF Inv
<1>2. begun \in Nat
  BY IntegrationsAssumption DEF Inv, Rest
<1>3. \A q \in Reqs : req'[q].on \subseteq EnabledOn(db, req'[q].agent)
  BY <1>1 DEF Inv, Watching
<1>4. Watching(req', db, revoked)
  BY <1>1, <1>3, WatchingKept DEF Inv
<1>5. Credentials(db, begun, revoked) /\ Saving(req', db, begun, revoked)
  BY <1>1, <1>2, CredentialsKept DEF Inv
<1>6. SwitchesCovered(db, req', dangling) /\ TogglesCovered(db, req', dangling)
  BY <1>1, CoverageToggled DEF Inv
<1> QED
  BY <1>1, <1>4, <1>5, <1>6 DEF Inv

\* A request writes tables in which no connection and no new switch is.
LEMMA WriteInv ==
  ASSUME Inv, NEW r \in Reqs, NEW x, Form(x), Write(r, x, db'), Store(db'),
         db'.integration_connections = db.integration_connections,
         db'.agent_integrations \subseteq db.agent_integrations,
         x.pc \notin {"save", "toggle"}, req[r].pc # "switches", x.dead \subseteq revoked,
         UNCHANGED <<registered, servers, key, bound, begun, changes, revoked, dangling>>
  PROVE  Inv'
<1>1. req' = Watched(Put(req, r, x), db')
  BY DEF Write, Put
<1>2. /\ Requests(req') /\ Moves(req, req', r, x)
      /\ \A q \in Reqs : req'[q].on \subseteq EnabledOn(db', req'[q].agent)
  BY <1>1, WatchedMoved DEF Inv
<1>3. begun \in Nat
  BY IntegrationsAssumption DEF Inv, Rest
<1>4. Watching(req', db', revoked)
  BY <1>2, WatchingKept DEF Inv
<1>5. Credentials(db', begun, revoked) /\ Saving(req', db', begun, revoked)
  BY <1>2, <1>3, CredentialsKept DEF Inv
<1>6. \A u, p : Connected(db, u, p) => Connected(db', u, p)
  BY DEF Connected
<1>7. SwitchesCovered(db', req', dangling) /\ TogglesCovered(db', req', dangling)
  BY <1>2, <1>6, CoverageKept DEF Inv
<1>8. Rest'
  BY DEF Inv, Rest
<1> QED
  BY <1>2, <1>4, <1>5, <1>7, <1>8 DEF Inv

\* A connect: the credential is new.
LEMMA ConnectInv ==
  ASSUME Inv, NEW r \in Reqs, NEW u \in Users, NEW p \in Providers, NEW a,
         HandleConnectIntegration(r, u, p, a)
  PROVE  Inv'
<1> USE IntegrationsAssumption
<1>1. PICK s : s = [by |-> u, n |-> begun + 1, key |-> key]
  OBVIOUS
<1>2. PICK x : x = ToSave(u, p, s) /\ x = Request9("save", u, None, p, s, {}, NoEnv, {}, {})
  BY Begun
<1>3. /\ req[r] = Idle /\ begun < MaxRequests /\ begun' = begun + 1
      /\ req' = Put(req, r, x)
      /\ UNCHANGED <<db, registered, servers, key, bound, changes, revoked, dangling>>
  BY <1>1, <1>2 DEF HandleConnectIntegration, Begin, Put, ToSave
<1>4. s \in Secret /\ s.by = u /\ s.n = begun + 1
  BY <1>1, <1>3 DEF Secret, Inv, Rest
<1>5. Form(x)
  BY <1>2, <1>4, BegunForm DEF PCs
<1>6. x.pc = "save" /\ x.secret = s /\ x.dead = {} /\ x.on = {}
  BY <1>2, FormOf
<1>7. /\ Requests(req') /\ Moves(req, req', r, x)
      /\ req'[r] = x /\ \A q \in Reqs \ {r} : req'[q] = req[q]
  BY <1>3, <1>5, Moved DEF Inv
<1>8. begun \in Nat
  BY DEF Inv, Rest
<1>9. \A q \in Reqs : req'[q].on \subseteq EnabledOn(db, req'[q].agent)
  BY <1>6, <1>7 DEF Inv, Watching
<1>10. Watching(req', db, revoked)
  BY <1>6, <1>7, <1>9, WatchingKept DEF Inv
<1>11. Credentials(db, begun', revoked) /\ Saving(req', db, begun', revoked)
  BY <1>3, <1>4, <1>6, <1>7, <1>8, CredentialsMade DEF Inv
<1>12. req[r].pc # "switches"
  BY <1>3, IdleForm
<1>13. SwitchesCovered(db, req', dangling) /\ TogglesCovered(db, req', dangling)
  BY <1>6, <1>7, <1>12, CoverageToggled DEF Inv
<1>14. Rest'
  BY <1>3 DEF Inv, Rest
<1> QED
  BY <1>3, <1>7, <1>10, <1>11, <1>13, <1>14 DEF Inv

\* The connection is saved: the credentials it replaces are revoked.
LEMMA SaveInv ==
  ASSUME Inv, NEW r \in Reqs, SaveConnection(r)
  PROVE  Inv'
<1>1. PICK u, p, s : u = req[r].user /\ p = req[r].provider /\ s = req[r].secret
  OBVIOUS
<1>2. /\ req[r].pc = "save"
      /\ db' = Pg!UpsertIntegrationConnection(db, u, p, s, 0).db
      /\ req' = Watched(Put(req, r, Idle), db')
      /\ revoked' = revoked \cup Stored(u, p)
      /\ UNCHANGED <<registered, servers, key, bound, begun, changes, dangling>>
  BY <1>1 DEF SaveConnection, At, Write, Put
<1>3. u \in Users /\ p \in Providers /\ s \in Secret /\ s.by = u
  BY <1>1, <1>2 DEF Inv, Requests, Form, Typed
<1>4. /\ Store(db')
      /\ db'.agent_integrations = db.agent_integrations
      /\ \A c \in db'.integration_connections :
           \/ c \in db.integration_connections /\ ~ (c.user = u /\ c.provider = p)
           \/ c.user = u /\ c.provider = p /\ c.secret = s
      /\ \A v, q : Connected(db, v, q) => Connected(db', v, q)
  BY <1>2, <1>3, SaveTables DEF Inv
<1>5. /\ Requests(req') /\ Moves(req, req', r, Idle)
      /\ \A q \in Reqs : req'[q].on \subseteq EnabledOn(db', req'[q].agent)
  BY <1>2, IdleForm, WatchedMoved DEF Inv
<1>6. Held(Stored(u, p), db, u, p)
  BY StoredIs DEF Held
<1>7. Watching(req', db', revoked')
  BY <1>2, <1>5, IdleForm, WatchingKept DEF Inv
<1>8. begun \in Nat
  BY IntegrationsAssumption DEF Inv, Rest
<1>9. Credentials(db', begun, revoked') /\ Saving(req', db', begun, revoked')
  <2>1. PICK S : S = Stored(u, p)
    OBVIOUS
  <2>2. /\ Credentials(db, begun, revoked) /\ Saving(req, db, begun, revoked)
        /\ Requests(req) /\ Store(db)
    BY DEF Inv
  <2>3. PICK d, e, rq, rr : d = db /\ e = db' /\ rq = req /\ rr = req'
    OBVIOUS
  <2>4. Idle.pc # "save" /\ rq[r].pc = "save" /\ rq[r].secret = s /\ Held(S, d, u, p)
    BY <1>1, <1>2, <1>6, <2>1, <2>3, IdleForm
  <2>5. Credentials(e, begun, revoked \cup S) /\ Saving(rr, e, begun, revoked \cup S)
    BY ONLY <1>4, <1>5, <1>8, <2>2, <2>3, <2>4, r \in Reqs, CredentialsSaved
  <2> QED
    BY <1>2, <2>1, <2>3, <2>5
<1>10. SwitchesCovered(db', req', dangling) /\ TogglesCovered(db', req', dangling)
  BY <1>2, <1>4, <1>5, IdleForm, CoverageKept DEF Inv
<1>11. Rest'
  BY <1>2 DEF Inv, Rest
<1> QED
  BY <1>2, <1>4, <1>5, <1>7, <1>9, <1>10, <1>11 DEF Inv

\* A disconnect deletes the connection and goes on to the switches.
LEMMA DisconnectInv ==
  ASSUME Inv, NEW r \in Reqs, NEW u \in Users, NEW p \in Providers,
         HandleDisconnectIntegration(r, u, p)
  PROVE  Inv'
<1>1. PICK x : /\ x = ToSwitches(u, p)
               /\ x = Request9("switches", u, None, p, None, {}, NoEnv, {}, {})
  BY Begun
<1>2. /\ req[r] = Idle /\ begun < MaxRequests /\ begun' = begun + 1
      /\ db' = Pg!DeleteConnectionRow(db, u, p).db
      /\ req' = Watched(Put(req, r, x), db')
      /\ revoked' = revoked \cup Stored(u, p)
      /\ UNCHANGED <<registered, servers, key, bound, changes, dangling>>
  BY <1>1 DEF HandleDisconnectIntegration, Write, Put, ToSwitches
<1>3. Form(x)
  BY <1>1, BegunForm DEF PCs
<1>4. x.pc = "switches" /\ x.user = u /\ x.provider = p /\ x.dead = {} /\ x.on = {}
  BY <1>1, FormOf
<1>5. /\ Store(db')
      /\ db'.agent_integrations = db.agent_integrations
      /\ db'.integration_connections =
           {c \in db.integration_connections : ~ (c.user = u /\ c.provider = p)}
  BY <1>2, DropTables DEF Inv
<1>6. /\ Requests(req') /\ Moves(req, req', r, x)
      /\ \A q \in Reqs : req'[q].on \subseteq EnabledOn(db', req'[q].agent)
  BY <1>2, <1>3, WatchedMoved DEF Inv
<1>7. Held(Stored(u, p), db, u, p)
  BY StoredIs DEF Held
<1>8. Watching(req', db', revoked')
  BY <1>2, <1>4, <1>6, WatchingKept DEF Inv
<1>9. begun \in Nat /\ begun' \in Nat /\ begun <= begun'
  BY <1>2, IntegrationsAssumption DEF Inv, Rest
<1>10. Credentials(db', begun, revoked') /\ Saving(req', db', begun, revoked')
  BY <1>2, <1>4, <1>5, <1>6, <1>7, <1>9, CredentialsDropped DEF Inv
<1>11. Moves(req', req', r, x)
  BY <1>6 DEF Moves, Alike
<1>12. Credentials(db', begun', revoked') /\ Saving(req', db', begun', revoked')
  BY <1>4, <1>5, <1>6, <1>9, <1>10, <1>11, CredentialsKept
<1>13. req[r].pc # "switches"
  BY <1>2, IdleForm
<1>14. SwitchesCovered(db', req', dangling) /\ TogglesCovered(db', req', dangling)
  BY <1>4, <1>5, <1>6, <1>13, CoverageDropped DEF Inv
<1>15. Rest'
  BY <1>2, IntegrationsAssumption DEF Inv, Rest
<1> QED
  BY <1>2, <1>5, <1>6, <1>8, <1>12, <1>14, <1>15 DEF Inv

\* A disconnect ends, with or without its second statement.
LEMMA DisconnectSwitchesInv ==
  ASSUME Inv, NEW r \in Reqs, DisconnectSwitches(r)
  PROVE  Inv'
<1>1. PICK u, p : u = req[r].user /\ p = req[r].provider
  OBVIOUS
<1>2. /\ req[r].pc = "switches"
      /\ UNCHANGED <<registered, servers, key, bound, begun, revoked>>
      /\ \/ /\ db' = Pg!DeleteOwnersSwitches(db, u, p).db
            /\ req' = Watched(Put(req, r, Idle), db')
            /\ dangling' = IF TogglePending(u, p) THEN dangling \cup {<<u, p>>} ELSE dangling
            /\ UNCHANGED changes
         \/ /\ changes < MaxChanges /\ changes' = changes + 1
            /\ req' = Put(req, r, Idle)
            /\ dangling' = dangling \cup {<<u, p>>}
            /\ UNCHANGED db
  BY <1>1 DEF DisconnectSwitches, At, Write, End, Put
<1>3. u \in Users /\ p \in Providers
  BY <1>1, <1>2 DEF Inv, Requests, Form, Typed
<1>4. dangling \subseteq dangling' /\ Rest'
  BY <1>2, <1>3, IntegrationsAssumption DEF Inv, Rest
<1>5. /\ Store(db') /\ Requests(req') /\ Moves(req, req', r, Idle)
      /\ db'.integration_connections = db.integration_connections
      /\ db'.agent_integrations \subseteq db.agent_integrations
      /\ \A q \in Reqs : req'[q].on \subseteq EnabledOn(db', req'[q].agent)
      /\ \/ <<u, p>> \in dangling'
         \/ /\ \A s \in db'.agent_integrations : ~ (s.provider = p /\ Owner[s.agent] = u)
            /\ \A q \in Reqs : req[q].pc = "toggle" =>
                 ~ (req[q].provider = p /\ Owner[req[q].agent] = u)
  <2>1. CASE /\ db' = Pg!DeleteOwnersSwitches(db, u, p).db
             /\ req' = Watched(Put(req, r, Idle), db')
             /\ dangling' = IF TogglePending(u, p) THEN dangling \cup {<<u, p>>} ELSE dangling
    <3>1. /\ Store(db') /\ db'.integration_connections = db.integration_connections
          /\ db'.agent_integrations =
               {s \in db.agent_integrations : ~ (s.provider = p /\ Owner[s.agent] = u)}
      BY <2>1, OwnersTables DEF Inv
    <3>2. /\ Requests(req') /\ Moves(req, req', r, Idle)
          /\ \A q \in Reqs : req'[q].on \subseteq EnabledOn(db', req'[q].agent)
      BY <2>1, IdleForm, WatchedMoved DEF Inv
    <3>3. \/ <<u, p>> \in dangling'
          \/ \A q \in Reqs : req[q].pc = "toggle" =>
               ~ (req[q].provider = p /\ Owner[req[q].agent] = u)
      BY <2>1 DEF TogglePending, At
    <3> QED
      BY <3>1, <3>2, <3>3
  <2>2. CASE /\ req' = Put(req, r, Idle) /\ UNCHANGED db
             /\ dangling' = dangling \cup {<<u, p>>}
    <3>1. /\ Requests(req') /\ Moves(req, req', r, Idle)
          /\ req'[r] = Idle /\ \A q \in Reqs \ {r} : req'[q] = req[q]
      BY <2>2, IdleForm, Moved DEF Inv
    <3>2. \A q \in Reqs : req'[q].on \subseteq EnabledOn(db, req'[q].agent)
      BY <3>1, IdleForm DEF Inv, Watching
    <3> QED
      BY <2>2, <3>1, <3>2 DEF Inv
  <2> QED
    BY <1>2, <2>1, <2>2
<1>6. Watching(req', db', revoked)
  BY <1>5, IdleForm, WatchingKept DEF Inv
<1>7. begun \in Nat
  BY IntegrationsAssumption DEF Inv, Rest
<1>8. Credentials(db', begun, revoked) /\ Saving(req', db', begun, revoked)
  BY <1>5, <1>7, IdleForm, CredentialsKept DEF Inv
<1>9. SwitchesCovered(db', req', dangling') /\ TogglesCovered(db', req', dangling')
  <2>1. SwitchesCovered(db, req, dangling) /\ TogglesCovered(db, req, dangling)
    BY DEF Inv
  <2>2. Idle.pc # "toggle"
    BY IdleForm
  <2> QED
    <3>1. PICK d, e, rq, rr, D, DD : /\ d = db /\ e = db' /\ rq = req /\ rr = req'
                                     /\ D = dangling /\ DD = dangling'
      OBVIOUS
    <3>2. /\ Moves(rq, rr, r, Idle) /\ D \subseteq DD
          /\ SwitchesCovered(d, rq, D) /\ TogglesCovered(d, rq, D)
          /\ e.integration_connections = d.integration_connections
          /\ e.agent_integrations \subseteq d.agent_integrations
          /\ rq[r].user = u /\ rq[r].provider = p
      BY <1>1, <1>4, <1>5, <2>1, <3>1
    <3>3. Ended(u, p, e, rq, DD)
      BY <1>5, <3>1 DEF Ended
    <3>4. SwitchesCovered(e, rr, DD) /\ TogglesCovered(e, rr, DD)
      BY ONLY <2>2, <3>2, <3>3, r \in Reqs, CoverageEnded
    <3> QED
      BY ONLY <3>1, <3>4
<1> QED
  BY <1>2, <1>4, <1>5, <1>6, <1>8, <1>9 DEF Inv

\* A toggle has found the owner connected.
LEMMA HandleToggleInv ==
  ASSUME Inv, NEW r \in Reqs, NEW u \in Users, NEW a \in Agents, NEW p \in Providers,
         HandleAgentIntegration(r, u, a, p)
  PROVE  Inv'
<1>1. PICK x : /\ x = ToToggle(u, a, p)
               /\ x = Request9("toggle", u, a, p, None, {}, NoEnv, {}, {})
  BY Begun
<1>2. /\ Begin(r, x)
      /\ UNCHANGED <<db, registered, servers, key, bound, changes, revoked, dangling>>
  BY <1>1 DEF HandleAgentIntegration, ToToggle
<1>3. Connected(db, Owner[a], p)
  BY DEF HandleAgentIntegration, OwnerConnected, Connected, Pg!GetIntegrationConnection,
         Pg!SelectRow, Pg!Where, Pg!Fail, Pg!Ok
<1>4. Form(x)
  BY <1>1, BegunForm DEF PCs
<1>5. x.pc = "toggle" /\ x.agent = a /\ x.provider = p /\ x.dead = {} /\ x.on = {}
  BY <1>1, FormOf
<1> QED
  BY <1>2, <1>3, <1>4, <1>5, BeginInv

\* A toggle writes its switch.
LEMMA ToggleInv ==
  ASSUME Inv, NEW r \in Reqs, NEW b \in BOOLEAN, ToggleAgentIntegration(r, b)
  PROVE  Inv'
<1>1. PICK a, p : a = req[r].agent /\ p = req[r].provider
  OBVIOUS
<1>2. /\ req[r].pc = "toggle"
      /\ db' = Pg!UpsertAgentIntegration(db, a, p, b, 0).db
      /\ req' = Watched(Put(req, r, Idle), db')
      /\ UNCHANGED <<registered, servers, key, bound, begun, changes, revoked, dangling>>
  BY <1>1 DEF ToggleAgentIntegration, At, Write, Put
<1>3. a \in Agents /\ p \in Providers
  BY <1>1, <1>2 DEF Inv, Requests, Form, Typed
<1>4. /\ Store(db')
      /\ db'.integration_connections = db.integration_connections
      /\ \A s \in db'.agent_integrations :
           s \in db.agent_integrations \/ (s.agent = a /\ s.provider = p)
  BY <1>2, <1>3, ToggleTables DEF Inv
<1>5. /\ Requests(req') /\ Moves(req, req', r, Idle)
      /\ \A q \in Reqs : req'[q].on \subseteq EnabledOn(db', req'[q].agent)
  BY <1>2, IdleForm, WatchedMoved DEF Inv
<1>6. Watching(req', db', revoked)
  BY <1>5, IdleForm, WatchingKept DEF Inv
<1>7. begun \in Nat
  BY IntegrationsAssumption DEF Inv, Rest
<1>8. Credentials(db', begun, revoked) /\ Saving(req', db', begun, revoked)
  BY <1>4, <1>5, <1>7, IdleForm, CredentialsKept DEF Inv
<1>9. SwitchesCovered(db', req', dangling) /\ TogglesCovered(db', req', dangling)
  <2>1. SwitchesCovered(db, req, dangling) /\ TogglesCovered(db, req, dangling)
    BY DEF Inv
  <2>2. Idle.pc # "toggle"
    BY IdleForm
  <2> QED
    <3>1. PICK d, e, rq, rr : d = db /\ e = db' /\ rq = req /\ rr = req'
      OBVIOUS
    <3>2. /\ Moves(rq, rr, r, Idle)
          /\ SwitchesCovered(d, rq, dangling) /\ TogglesCovered(d, rq, dangling)
          /\ e.integration_connections = d.integration_connections
          /\ rq[r].pc # "switches"
      BY <1>2, <1>4, <1>5, <2>1, <3>1
    <3>3. \A s \in e.agent_integrations :
            \/ s \in d.agent_integrations
            \/ rq[r].pc = "toggle" /\ s.agent = rq[r].agent /\ s.provider = rq[r].provider
      BY <1>1, <1>2, <1>4, <3>1
    <3>4. SwitchesCovered(e, rr, dangling) /\ TogglesCovered(e, rr, dangling)
      BY ONLY <2>2, <3>2, <3>3, r \in Reqs, CoverageToggled
    <3> QED
      BY ONLY <3>1, <3>4
<1>10. Rest'
  BY <1>2 DEF Inv, Rest
<1> QED
  BY <1>2, <1>4, <1>5, <1>6, <1>8, <1>9, <1>10 DEF Inv

\* A start begins: it watches what is on and what is revoked.
LEMMA HandleStartInv ==
  ASSUME Inv, NEW r \in Reqs, NEW u \in Users, NEW a \in Agents, HandleStartAgent(r, u, a)
  PROVE  Inv'
<1>1. PICK on : on = EnabledOn(db, a)
  OBVIOUS
<1>2. PICK x : /\ x = ToList(u, a, revoked, on)
               /\ x = Request9("list", u, a, None, None, {}, NoEnv, revoked, on)
  BY Begun
<1>3. /\ Begin(r, x)
      /\ UNCHANGED <<db, registered, servers, key, bound, changes, revoked, dangling>>
  BY <1>1, <1>2 DEF HandleStartAgent, ToList
<1>4. on \subseteq Providers /\ revoked \subseteq Secret
  BY <1>1 DEF EnabledOn, Inv, Store, IsSwitch, Credentials
<1>5. Form(x)
  BY <1>2, <1>4, BegunForm DEF PCs
<1>6. x.pc = "list" /\ x.agent = a /\ x.dead = revoked /\ x.on = on
  BY <1>2, FormOf
<1> QED
  BY <1>1, <1>3, <1>5, <1>6, BeginInv

\* The delete of an agent begins.
LEMMA HandleDeleteInv ==
  ASSUME Inv, NEW r \in Reqs, NEW u \in Users, NEW a \in Agents, HandleDeleteAgent(r, u, a)
  PROVE  Inv'
<1>1. PICK x : /\ x = ToDelete(u, a)
               /\ x = Request9("agent", u, a, None, None, {}, NoEnv, {}, {})
  BY Begun
<1>2. /\ Begin(r, x)
      /\ UNCHANGED <<db, registered, servers, key, bound, changes, revoked, dangling>>
  BY <1>1 DEF HandleDeleteAgent, ToDelete
<1>3. Form(x)
  BY <1>1, BegunForm DEF PCs
<1>4. x.pc = "agent" /\ x.dead = {} /\ x.on = {}
  BY <1>1, FormOf
<1> QED
  BY <1>2, <1>3, <1>4, BeginInv

\* A start lists the switches that are on.
LEMMA ListInv ==
  ASSUME Inv, NEW r \in Reqs, ListSwitches(r)
  PROVE  Inv'
<1>1. PICK x, S : x = req[r] /\ S = EnabledOn(db, req[r].agent)
  OBVIOUS
<1>2. /\ x.pc = "list"
      /\ req' = Put(req, r, SetTodo(SetPc(x, "resolve"), S))
      /\ UNCHANGED <<db, registered, servers, key, bound, begun, changes, revoked, dangling>>
  <2>1. {s.provider : s \in {t \in Pg!ListAgentIntegrations(db, req[r].agent).rows : t.enabled}}
          = S
    BY <1>1 DEF EnabledOn, Pg!ListAgentIntegrations, Pg!Where, Pg!Ok
  <2> QED
    BY <1>1, <2>1 DEF ListSwitches, At, Put, SetTodo, SetPc
<1>3. Form(x) /\ x.on \subseteq S /\ x.dead \subseteq revoked
  BY <1>1 DEF Inv, Requests, Watching
<1>4. S \subseteq Providers
  BY <1>1 DEF EnabledOn, Inv, Store, IsSwitch
<1>5. PICK pc, u, a, p, s, todo, env, dead, on :
        x = Request9(pc, u, a, p, s, todo, env, dead, on)
  BY <1>3 DEF Form, Typed, IsRequest, Request9
<1>6. /\ x.pc = pc /\ x.user = u /\ x.agent = a /\ x.provider = p /\ x.secret = s
      /\ x.todo = todo /\ x.env = env /\ x.dead = dead /\ x.on = on
  BY <1>5, FormOf
<1>7. SetTodo(SetPc(x, "resolve"), S) = Request9("resolve", u, a, p, s, S, env, dead, on)
  BY <1>5, FieldSet
<1>8. PICK y : y = Request9("resolve", u, a, p, s, S, env, dead, on)
  OBVIOUS
<1>9. /\ IsRequest(y)
      /\ y.pc = "resolve" /\ y.user = u /\ y.agent = a /\ y.provider = p /\ y.secret = s
      /\ y.todo = S /\ y.env = env /\ y.dead = dead /\ y.on = on
  BY <1>8, FormOf
<1>10. Form(y)
  BY ONLY <1>2, <1>3, <1>4, <1>6, <1>9 DEF Form, Typed, Usable, Kept, PCs
<1>11. y.on \subseteq EnabledOn(db, y.agent)
  BY <1>1, <1>3, <1>6, <1>9
<1>12. Rest'
  BY <1>2 DEF Inv, Rest
<1> QED
  BY <1>1, <1>2, <1>3, <1>6, <1>7, <1>8, <1>9, <1>10, <1>11, <1>12, ReadInv

\* A start binds one provider to a credential that is stored.
LEMMA ResolveInv ==
  ASSUME Inv, NEW r \in Reqs, Resolve(r)
  PROVE  Inv'
<1>a. PICK q \in Providers, o \in Answers : ResolveProvider(r, q, o)
  BY DEF Resolve
<1>b. PICK k \in Stored(req[r].user, q) :
        req' = [req EXCEPT ![r].todo = @ \ {q}, ![r].env[q] = k]
  BY <1>a DEF ResolveProvider, Credential
<1>1. PICK x : /\ x = req[r] /\ q \in x.todo /\ x.pc = "resolve"
               /\ k \in Stored(x.user, q)
               /\ req' = [req EXCEPT ![r].todo = @ \ {q}, ![r].env[q] = k]
  BY <1>a, <1>b DEF Resolve, ResolveProvider, At
<1>2. UNCHANGED <<db, registered, servers, key, bound, begun, changes, revoked, dangling>>
  BY DEF Resolve
<1>3. /\ Form(x) /\ x.on \subseteq EnabledOn(db, x.agent) /\ x.dead \subseteq revoked
      /\ req = [z \in Reqs |-> req[z]]
  BY <1>1 DEF Inv, Requests, Watching
<1>4. k \in Secret /\ k.by = x.user /\ k \notin revoked /\ k # None
  <2>1. PICK c \in db.integration_connections : c.user = x.user /\ c.secret = k
    BY <1>1, StoredIs
  <2> QED
    BY <2>1, IntegrationsAssumption DEF Inv, Store, IsConnection, Credentials, Fresh
<1>5. PICK pc, u, a, p, s, todo, env, dead, on :
        x = Request9(pc, u, a, p, s, todo, env, dead, on)
  BY <1>3 DEF Form, Typed, IsRequest, Request9
<1>6. /\ x.pc = pc /\ x.user = u /\ x.agent = a /\ x.provider = p /\ x.secret = s
      /\ x.todo = todo /\ x.env = env /\ x.dead = dead /\ x.on = on
  BY <1>5, FormOf
<1>7. req' = Put(req, r, SetEnv(SetTodo(x, todo \ {q}), [env EXCEPT ![q] = k]))
  <2>1. SetTodo(x, todo \ {q}).env = env
    BY <1>5, FieldSet, FormOf
  <2>2. [req EXCEPT ![r].todo = @ \ {q}, ![r].env[q] = k] =
          [req EXCEPT ![r] = [[x EXCEPT !.todo = todo \ {q}] EXCEPT !.env[q] = k]]
    BY <1>1, <1>3, <1>6
  <2>3. [[x EXCEPT !.todo = todo \ {q}] EXCEPT !.env[q] = k] =
          SetEnv(SetTodo(x, todo \ {q}), [SetTodo(x, todo \ {q}).env EXCEPT ![q] = k])
    BY DEF SetEnv, SetTodo
  <2> QED
    BY <1>1, <2>1, <2>2, <2>3 DEF Put
<1>8. PICK y, env2 : /\ y = Request9(pc, u, a, p, s, todo \ {q}, env2, dead, on)
                     /\ env2 = [env EXCEPT ![q] = k]
  OBVIOUS
<1>9. /\ IsRequest(y)
      /\ y.pc = pc /\ y.user = u /\ y.agent = a /\ y.provider = p /\ y.secret = s
      /\ y.todo = todo \ {q} /\ y.env = env2 /\ y.dead = dead /\ y.on = on
  BY <1>8, FormOf
<1>10. req' = Put(req, r, y)
  BY <1>5, <1>7, <1>8, FieldSet
<1>11. Form(y)
  <2>1. Typed(x) /\ Usable(x) /\ Kept(x)
    BY <1>3 DEF Form
  <2>2. env \in [Providers -> Secret \cup {None}]
    BY <1>6, <2>1 DEF Typed
  <2>3. /\ env2 \in [Providers -> Secret \cup {None}] /\ env2[q] = k
        /\ \A z \in Providers \ {q} : env2[z] = env[z]
    BY <1>1, <1>4, <1>8, <2>2
  <2>4. Typed(y)
    BY ONLY <1>6, <1>9, <2>1, <2>3 DEF Typed
  <2>5. Usable(y)
    BY ONLY <1>3, <1>4, <1>6, <1>9, <2>1, <2>3 DEF Usable
  <2>6. on \subseteq Providers
    BY <1>6, <2>1 DEF Typed
  <2>7. Kept(y)
    BY ONLY <1>1, <1>4, <1>6, <1>9, <2>1, <2>3, <2>6 DEF Kept
  <2> QED
    BY <2>4, <2>5, <2>7 DEF Form
<1>12. Rest'
  BY <1>2 DEF Inv, Rest
<1> QED
  BY <1>1, <1>2, <1>3, <1>6, <1>9, <1>10, <1>11, <1>12, ReadInv

\* A start fails.
LEMMA ResolveFailsInv ==
  ASSUME Inv, NEW r \in Reqs, NEW p, NEW a, ResolveFails(r, p, a)
  PROVE  Inv'
<1>1. PICK b : b = req[r].agent
  OBVIOUS
<1>2. /\ req[r].pc = "resolve"
      /\ db' = Pg!UpdateAgentState(Pg!UpdateAgentError(db, b, "resolution").db, b, "idle").db
      /\ Write(r, Idle, db')
      /\ UNCHANGED <<registered, servers, key, bound, begun, changes, revoked, dangling>>
  BY <1>1 DEF ResolveFails, At, Write
<1>3. /\ Store(db') /\ db'.agent_integrations = db.agent_integrations
      /\ db'.integration_connections = db.integration_connections
  BY <1>2, NotedTables DEF Inv
<1> QED
  BY <1>2, <1>3, IdleForm, WriteInv

\* A start reaches the sandbox.
LEMMA StartInv ==
  ASSUME Inv, NEW r \in Reqs, StartSandbox(r)
  PROVE  Inv'
<1>1. /\ req[r].pc = "resolve" /\ req' = Put(req, r, Idle)
      /\ bound' = [bound EXCEPT ![req[r].agent] = req[r].env]
      /\ UNCHANGED <<db, registered, servers, key, begun, changes, revoked, dangling>>
  BY DEF StartSandbox, At, End, Put
<1>2. req[r].agent \in Agents /\ req[r].env \in [Providers -> Secret \cup {None}]
  BY <1>1 DEF Inv, Requests, Form, Typed
<1>3. Rest'
  BY <1>1, <1>2 DEF Inv, Rest
<1> QED
  BY <1>1, <1>3, IdleForm, ReadInv

\* The switches of an agent are deleted.
LEMMA DeleteSwitchesInv ==
  ASSUME Inv, NEW r \in Reqs, DeleteAgentSwitches(r)
  PROVE  Inv'
<1>1. PICK x, b : x = req[r] /\ b = req[r].agent
  OBVIOUS
<1>2. /\ x.pc = "agent" /\ Write(r, SetPc(x, "row"), db')
      /\ db' = Pg!DeleteAgentSwitches(db, b).db
      /\ UNCHANGED <<registered, servers, key, bound, begun, changes, revoked, dangling>>
  BY <1>1 DEF DeleteAgentSwitches, At, Write, SetPc
<1>3. /\ Store(db') /\ db'.agent_integrations \subseteq db.agent_integrations
      /\ db'.integration_connections = db.integration_connections
  BY <1>2, AgentSwitchesTables DEF Inv, Without
<1>4. Form(x) /\ x.dead \subseteq revoked
  BY <1>1 DEF Inv, Requests, Watching
<1>5. PICK pc, u, a, p, s, todo, env, dead, on :
        x = Request9(pc, u, a, p, s, todo, env, dead, on)
  BY <1>4 DEF Form, Typed, IsRequest, Request9
<1>6. /\ x.pc = pc /\ x.user = u /\ x.agent = a /\ x.provider = p /\ x.secret = s
      /\ x.todo = todo /\ x.env = env /\ x.dead = dead /\ x.on = on
  BY <1>5, FormOf
<1>7. PICK y : y = SetPc(x, "row") /\ y = Request9("row", u, a, p, s, todo, env, dead, on)
  BY <1>5, FieldSet
<1>8. /\ IsRequest(y)
      /\ y.pc = "row" /\ y.user = u /\ y.agent = a /\ y.provider = p /\ y.secret = s
      /\ y.todo = todo /\ y.env = env /\ y.dead = dead /\ y.on = on
  BY <1>7, FormOf
<1>9. Form(y)
  BY ONLY <1>2, <1>4, <1>6, <1>8 DEF Form, Typed, Usable, Kept, PCs
<1> QED
  BY <1>1, <1>2, <1>3, <1>4, <1>6, <1>7, <1>8, <1>9, WriteInv

\* The row of an agent is deleted.
LEMMA DeleteRowInv ==
  ASSUME Inv, NEW r \in Reqs, DeleteAgentRow(r)
  PROVE  Inv'
<1>1. PICK b : b = req[r].agent
  OBVIOUS
<1>2. /\ req[r].pc = "row" /\ Write(r, Idle, db') /\ db' = Pg!DeleteAgentRow(db, b).db
      /\ UNCHANGED <<registered, servers, key, bound, begun, changes, revoked, dangling>>
  BY <1>1 DEF DeleteAgentRow, At, Write
<1>3. /\ Store(db') /\ db'.agent_integrations \subseteq db.agent_integrations
      /\ db'.integration_connections = db.integration_connections
  BY <1>2, AgentRowTables DEF Inv, Without
<1> QED
  BY <1>2, <1>3, IdleForm, WriteInv

\* The registry or the informer's cache changes.
LEMMA RegistryInv ==
  ASSUME Inv, RegistryChanges
  PROVE  Inv'
<1>1. Rest'
  BY IntegrationsAssumption DEF Inv, Rest, RegistryChanges
<1> QED
  BY <1>1 DEF Inv, RegistryChanges

\* A restart notes the disconnects it interrupts.
LEMMA RestartInv ==
  ASSUME Inv, NEW k \in Keys, Restart(k)
  PROVE  Inv'
<1>1. /\ req' = [r \in Reqs |-> Idle] /\ dangling \subseteq dangling'
      /\ \A q \in Reqs : req[q].pc = "switches" =>
           <<req[q].user, req[q].provider>> \in dangling'
      /\ UNCHANGED <<db, registered, servers, bound, begun, revoked>>
  BY DEF Restart, At
<1>2. Requests(req')
  BY <1>1, IdleForm DEF Requests
<1>3. /\ Watching(req', db, revoked) /\ Saving(req', db, begun, revoked)
      /\ TogglesCovered(db, req', dangling')
  BY <1>1, IdleForm DEF Watching, Saving, TogglesCovered
<1>4. \A u, p : Covered(u, p, db, req, dangling) => Covered(u, p, db, req', dangling')
  BY <1>1 DEF Covered
<1>5. SwitchesCovered(db, req', dangling')
  BY <1>4 DEF Inv, SwitchesCovered
<1>6. Rest'
  <2>1. dangling' \subseteq Users \X Providers
    <3>1. \A r \in Reqs : req[r].pc = "switches" =>
            req[r].user \in Users /\ req[r].provider \in Providers
      BY DEF Inv, Requests, Form, Typed
    <3> QED
      BY <3>1 DEF Restart, At, Inv, Rest
  <2> QED
    BY <2>1, IntegrationsAssumption DEF Inv, Rest, Restart
<1> QED
  BY <1>1, <1>2, <1>3, <1>5, <1>6 DEF Inv

\* A list of integrations begins or goes on: the rest only counts it.
LEMMA SummarizeInv ==
  ASSUME Inv, Summarize
  PROVE  Inv'
<1>1. /\ UNCHANGED <<db, registered, key, req, bound, revoked, dangling>>
      /\ begun' \in 0 .. MaxRequests /\ begun <= begun' /\ changes' \in 0 .. MaxChanges
  <2> USE IntegrationsAssumption DEF Inv, Rest
  <2>1. CASE \E u \in Users : HandleListIntegrations(u)
    BY <2>1 DEF HandleListIntegrations, ReadOnly
  <2>2. CASE (\E p \in Providers : SummarizeProvider(p)) \/ ListOrphans
    <3>1. /\ UNCHANGED <<db, registered, key, req, bound, revoked, dangling>>
          /\ begun' = begun
          /\ changes' = changes \/ (changes < MaxChanges /\ changes' = changes + 1)
      <4>1. CASE \E p \in Providers : SummarizeProvider(p)
        BY <4>1 DEF SummarizeProvider, ReadOnly, Fails
      <4>2. CASE ListOrphans
        BY <4>2 DEF ListOrphans, ReadOnly, Fails
      <4> QED
        BY <2>2, <4>1, <4>2
    <3> QED
      BY <3>1
  <2>3. CASE (\E p \in Providers : ShowOrphan(p)) \/ EndSummary
    <3>1. UNCHANGED <<db, registered, key, req, bound, revoked, dangling, begun, changes>>
      BY <2>3 DEF ShowOrphan, EndSummary, ReadOnly
    <3> QED
      BY <3>1
  <2> QED
    BY <2>1, <2>2, <2>3 DEF Summarize
<1>2. Rest'
  BY <1>1 DEF Inv, Rest
<1>3. \A s \in Secret : s.n <= begun => s.n <= begun'
  BY <1>1, IntegrationsAssumption DEF Inv, Rest, Secret
<1>4. Credentials(db, begun', revoked)
  BY <1>3 DEF Inv, Credentials, Fresh, Store, IsConnection
<1>5. \A r \in Reqs : req[r].pc = "save" => req[r].secret \in Secret
  BY DEF Inv, Requests, Form, Typed
<1>6. Saving(req, db, begun', revoked)
  BY <1>3, <1>5 DEF Inv, Saving, Fresh
<1> QED
  BY <1>1, <1>2, <1>4, <1>6 DEF Inv

\* Every step keeps the invariant.
LEMMA NextInv == Inv /\ [Next]_vars => Inv'
<1> SUFFICES ASSUME Inv, [Next]_vars PROVE Inv'
  OBVIOUS
<1>1. CASE UNCHANGED vars
  BY <1>1 DEF vars, Inv, Rest
<1>2. ASSUME NEW r \in Reqs, Request(r) PROVE Inv'
  BY <1>2, ConnectInv, SaveInv, DisconnectInv, DisconnectSwitchesInv, HandleToggleInv,
     ToggleInv, HandleStartInv, HandleDeleteInv, ListInv, ResolveInv, ResolveFailsInv,
     StartInv, DeleteSwitchesInv, DeleteRowInv DEF Request
<1> QED
  BY <1>1, <1>2, RegistryInv, RestartInv, SummarizeInv DEF Next

\* The invariant is an invariant of the specification.
LEMMA Invariance == Spec => []Inv
<1> QED
  BY InitInv, NextInv, PTL DEF Spec
-----------------------------------------------------------------------------
(* The list of integrations *)

\* The list, from its fields.
List(pc, u, todo, due) == [pc |-> pc, user |-> u, todo |-> todo, due |-> due]
IsList(x) ==
  /\ x = List(x.pc, x.user, x.todo, x.due)
  /\ x.pc \in {"idle", "list", "orphans"} /\ x.user \in Users \cup {None}
  /\ x.todo \in SUBSET Providers /\ x.due \in SUBSET Providers

\* What the list owes is connected, and is still to be looked up or was not
\* registered at the first read and is not by now; after the second read it
\* is among the ids that read returned.
Owes(x, d, R) ==
  /\ x.due \subseteq ConnectedTo(d, x.user)
  /\ x.pc = "list" => \A p \in x.due : p \in x.todo \/ p \notin R
  /\ x.pc = "orphans" => \A p \in x.due : p \in x.todo /\ p \notin R

SummaryInv == IsList(summary) /\ Owes(summary, db, registered)

\* The fields of a list.
LEMMA ListOf ==
  ASSUME NEW pc, NEW u, NEW todo, NEW due
  PROVE  LET x == List(pc, u, todo, due)
         IN  x.pc = pc /\ x.user = u /\ x.todo = todo /\ x.due = due
  BY DEF List

\* A list that has not begun.
LEMMA NoList == IsList(NoSummary) /\ NoSummary.due = {} /\ NoSummary.pc = "idle"
  BY DEF NoSummary, IsList, List

\* A step of anything else makes the list forget what it no longer owes.
LEMMA RememberKept ==
  ASSUME SummaryInv, Remember
  PROVE  SummaryInv'
<1>1. PICK pc, u, todo, due, C, N :
        /\ summary = List(pc, u, todo, due)
        /\ C = ConnectedTo(db', u) /\ N = registered' \ registered
  BY DEF SummaryInv, IsList
<1>2. /\ summary.pc = pc /\ summary.user = u /\ summary.todo = todo
      /\ summary.due = due
  BY <1>1, ListOf
<1>3. summary' = [summary EXCEPT !.due = (due \cap C) \ N]
  BY <1>1, <1>2 DEF Remember
<1>4. PICK y : y = List(pc, u, todo, (due \cap C) \ N)
  OBVIOUS
<1>5. summary' = y
  BY ONLY <1>1, <1>3, <1>4 DEF List
<1>6. y.pc = pc /\ y.user = u /\ y.todo = todo /\ y.due = (due \cap C) \ N
  BY <1>4, ListOf
<1>7. IsList(y)
  BY <1>2, <1>4, <1>6 DEF SummaryInv, IsList
<1>8. Owes(y, db', registered')
  BY <1>1, <1>2, <1>6 DEF SummaryInv, Owes
<1> QED
  BY <1>5, <1>7, <1>8 DEF SummaryInv

\* A list begins: what the registry has is looked up, the rest is not there.
LEMMA HandleListKept ==
  ASSUME SummaryInv, Inv, NEW v \in Users, HandleListIntegrations(v)
  PROVE  SummaryInv'
<1>1. PICK C : C = ConnectedTo(db, v)
  OBVIOUS
<1>2. C \subseteq Providers /\ registered \subseteq Providers
  BY <1>1 DEF Inv, Rest, Store, IsConnection, ConnectedTo
<1>3. PICK y : y = List("list", v, registered, C)
  OBVIOUS
<1>4. summary' = y /\ UNCHANGED <<db, registered>>
  <2>1. PICK R : R = registered
    OBVIOUS
  <2>2. summary' = [NoSummary EXCEPT !.pc = "list", !.user = v, !.todo = R, !.due = C]
    BY <1>1, <2>1 DEF HandleListIntegrations
  <2>3. summary' = List("list", v, R, C)
    BY ONLY <2>2 DEF NoSummary, List
  <2> QED
    BY <1>3, <2>1, <2>3 DEF HandleListIntegrations, ReadOnly
<1>5. y.pc = "list" /\ y.user = v /\ y.todo = registered /\ y.due = C
  BY <1>3, ListOf
<1>6. IsList(y)
  BY <1>2, <1>3, <1>5 DEF IsList
<1>7. Owes(y, db, registered)
  BY <1>1, <1>5 DEF Owes
<1> QED
  BY <1>4, <1>6, <1>7 DEF SummaryInv

\* A provider of the registry is looked up: it is shown, or its user is not
\* connected to it, or the store failed.
LEMMA ProviderKept ==
  ASSUME SummaryInv, NEW p, SummarizeProvider(p)
  PROVE  SummaryInv'
<1>1. PICK u, todo, due : summary = List("list", u, todo, due)
  BY DEF SummaryInv, IsList, SummarizeProvider
<1>2. /\ summary.pc = "list" /\ summary.user = u /\ summary.todo = todo
      /\ summary.due = due
  BY <1>1, ListOf
<1>3. PICK rest : /\ summary' = [summary EXCEPT !.todo = todo \ {p}, !.due = rest]
                  /\ rest = due \ {p} \/ (rest = due /\ Stored(u, p) = {})
  BY <1>2 DEF SummarizeProvider
<1>4. UNCHANGED <<db, registered>>
  BY DEF SummarizeProvider, ReadOnly
<1>5. PICK y : y = List("list", u, todo \ {p}, rest)
  OBVIOUS
<1>6. summary' = y
  <2>1. PICK t, x : t = todo \ {p} /\ x = summary
    OBVIOUS
  <2>2. x = [pc |-> "list", user |-> u, todo |-> todo, due |-> due]
    BY <1>1, <2>1 DEF List
  <2>3. /\ [x EXCEPT !.todo = t] = [pc |-> "list", user |-> u, todo |-> t, due |-> due]
        /\ [[pc |-> "list", user |-> u, todo |-> t, due |-> due] EXCEPT !.due = rest] =
             [pc |-> "list", user |-> u, todo |-> t, due |-> rest]
    BY ONLY <2>2
  <2>4. [x EXCEPT !.todo = t, !.due = rest] = [[x EXCEPT !.todo = t] EXCEPT !.due = rest]
    OBVIOUS
  <2> QED
    BY <1>3, <1>5, <2>1, <2>3, <2>4 DEF List
<1>7. y.pc = "list" /\ y.user = u /\ y.todo = todo \ {p} /\ y.due = rest
  BY <1>5, ListOf
<1>8. rest \subseteq due \ {p}
  <2>1. Stored(u, p) = {} => p \notin ConnectedTo(db, u)
    <3> SUFFICES ASSUME p \in ConnectedTo(db, u) PROVE Stored(u, p) # {}
      OBVIOUS
    <3>1. PICK c \in db.integration_connections : c.user = u /\ c.provider = p
      BY DEF ConnectedTo
    <3>2. c.secret \in Stored(u, p)
      BY <3>1, StoredIs
    <3> QED
      BY <3>2
  <2> QED
    BY <1>2, <1>3, <2>1 DEF SummaryInv, Owes
<1>9. IsList(y)
  BY <1>2, <1>5, <1>7, <1>8 DEF SummaryInv, IsList
<1>10. Owes(y, db, registered)
  BY <1>2, <1>7, <1>8 DEF SummaryInv, Owes
<1> QED
  BY <1>4, <1>6, <1>9, <1>10 DEF SummaryInv

\* Everything the registry had is looked up: what is due is not registered,
\* and the ids of the user's rows have it.
LEMMA OrphansKept ==
  ASSUME SummaryInv, Inv, ListOrphans
  PROVE  SummaryInv'
<1>1. PICK u, due : summary = List("list", u, {}, due)
  BY DEF SummaryInv, IsList, ListOrphans
<1>2. summary.pc = "list" /\ summary.user = u /\ summary.todo = {} /\ summary.due = due
  BY <1>1, ListOf
<1>3. PICK C : C = ConnectedTo(db, u)
  OBVIOUS
<1>4. {c.provider : c \in Pg!ListUserIntegrationProviderIDs(db, u).rows} = C
  <2>1. Pg!ListUserIntegrationProviderIDs(db, u).rows =
          {[provider |-> c.provider] : c \in {d \in db.integration_connections : d.user = u}}
    BY DEF Pg!ListUserIntegrationProviderIDs, Pg!Where, Pg!Ok
  <2>2. ASSUME NEW S
        PROVE  {c.provider : c \in {[provider |-> d.provider] : d \in S}}
                 = {d.provider : d \in S}
    <3>1. \A p : [provider |-> p].provider = p
      OBVIOUS
    <3>2. ASSUME NEW d \in S
          PROVE  d.provider \in {c.provider : c \in {[provider |-> e.provider] : e \in S}}
      <4>1. [provider |-> d.provider].provider = d.provider
        BY <3>1
      <4>2. [provider |-> d.provider] \in {[provider |-> e.provider] : e \in S}
        BY <4>1
      <4> QED
        BY ONLY <4>1, <4>2
    <3>3. ASSUME NEW c \in {[provider |-> d.provider] : d \in S}
          PROVE  c.provider \in {d.provider : d \in S}
      <4>1. PICK d \in S : c = [provider |-> d.provider]
        OBVIOUS
      <4> QED
        BY ONLY <4>1, <3>1
    <3> QED
      BY ONLY <3>2, <3>3
  <2> QED
    BY <1>3, <2>1, <2>2 DEF ConnectedTo
<1>5. \/ summary' = [summary EXCEPT !.pc = "orphans", !.todo = C]
      \/ summary' = [summary EXCEPT !.pc = "orphans", !.due = {}]
  BY <1>2, <1>4 DEF ListOrphans
<1>6. UNCHANGED <<db, registered>>
  BY DEF ListOrphans, ReadOnly
<1>7. PICK y, z : y = List("orphans", u, C, due) /\ z = List("orphans", u, {}, {})
  OBVIOUS
<1>8. summary' = y \/ summary' = z
  BY ONLY <1>1, <1>5, <1>7 DEF List
<1>9. /\ y.pc = "orphans" /\ y.user = u /\ y.todo = C /\ y.due = due
      /\ z.pc = "orphans" /\ z.user = u /\ z.todo = {} /\ z.due = {}
  BY <1>7, ListOf
<1>10. C \subseteq Providers
  BY <1>3 DEF Inv, Store, IsConnection, ConnectedTo
<1>11. IsList(y) /\ IsList(z)
  BY <1>2, <1>7, <1>9, <1>10 DEF SummaryInv, IsList
<1>12. Owes(y, db, registered) /\ Owes(z, db, registered)
  BY <1>2, <1>3, <1>9 DEF SummaryInv, Owes
<1> QED
  BY <1>6, <1>8, <1>11, <1>12 DEF SummaryInv

\* An id is shown, for what is due is not registered.
LEMMA ShowKept ==
  ASSUME SummaryInv, NEW p, ShowOrphan(p)
  PROVE  SummaryInv'
<1>1. PICK u, todo, due : summary = List("orphans", u, todo, due)
  BY DEF SummaryInv, IsList, ShowOrphan
<1>2. /\ summary.pc = "orphans" /\ summary.user = u /\ summary.todo = todo
      /\ summary.due = due
  BY <1>1, ListOf
<1>3. PICK rest : rest = due \ ({p} \ registered)
  OBVIOUS
<1>4. /\ summary' = [summary EXCEPT !.todo = todo \ {p}, !.due = rest]
      /\ UNCHANGED <<db, registered>>
  BY <1>2, <1>3 DEF ShowOrphan, ReadOnly
<1>5. PICK y : y = List("orphans", u, todo \ {p}, rest)
  OBVIOUS
<1>6. summary' = y
  <2>1. PICK t, x : t = todo \ {p} /\ x = summary
    OBVIOUS
  <2>2. x = [pc |-> "orphans", user |-> u, todo |-> todo, due |-> due]
    BY <1>1, <2>1 DEF List
  <2>3. /\ [x EXCEPT !.todo = t] = [pc |-> "orphans", user |-> u, todo |-> t, due |-> due]
        /\ [[pc |-> "orphans", user |-> u, todo |-> t, due |-> due] EXCEPT !.due = rest] =
             [pc |-> "orphans", user |-> u, todo |-> t, due |-> rest]
    BY ONLY <2>2
  <2>4. [x EXCEPT !.todo = t, !.due = rest] = [[x EXCEPT !.todo = t] EXCEPT !.due = rest]
    OBVIOUS
  <2> QED
    BY <1>4, <1>5, <2>1, <2>3, <2>4 DEF List
<1>7. y.pc = "orphans" /\ y.user = u /\ y.todo = todo \ {p} /\ y.due = rest
  BY <1>5, ListOf
<1>8. IsList(y)
  BY <1>2, <1>3, <1>5, <1>7 DEF SummaryInv, IsList
<1>9. Owes(y, db, registered)
  BY <1>2, <1>3, <1>7 DEF SummaryInv, Owes
<1> QED
  BY <1>4, <1>6, <1>8, <1>9 DEF SummaryInv

\* Both invariants hold together.
LEMMA SummaryInvariance == Spec => [](Inv /\ SummaryInv)
<1>1. Init => Inv /\ SummaryInv
  <2>1. Init => SummaryInv
    BY NoList DEF Init, SummaryInv, Owes
  <2> QED
    BY <2>1, InitInv
<1>2. Inv /\ SummaryInv /\ [Next]_vars => (Inv /\ SummaryInv)'
  <2> SUFFICES ASSUME Inv, SummaryInv, [Next]_vars PROVE SummaryInv'
    BY NextInv
  <2>1. CASE UNCHANGED vars
    BY <2>1 DEF vars, SummaryInv
  <2>2. CASE Summarize
    <3>1. EndSummary => SummaryInv'
      BY NoList DEF EndSummary, SummaryInv, Owes
    <3> QED
      BY <2>2, <3>1, HandleListKept, ProviderKept, OrphansKept, ShowKept DEF Summarize
  <2>3. CASE summary' = NoSummary
    BY <2>3, NoList DEF SummaryInv, Owes
  <2> QED
    BY <2>1, <2>2, <2>3, RememberKept DEF Next
<1> QED
  BY <1>1, <1>2, PTL DEF Spec
-----------------------------------------------------------------------------
(* What follows from the invariants *)

(***************************************************************************)
(* Every request and every row keeps its type; in particular no row of     *)
(* integration_connections is without a credential.                        *)
(***************************************************************************)
THEOREM TypeCorrect == Spec => []TypeOK
<1>1. Inv /\ SummaryInv => TypeOK
  <2> SUFFICES ASSUME Inv, SummaryInv PROVE TypeOK
    OBVIOUS
  <2>1. /\ \A c \in db.integration_connections :
             c.user \in Users /\ c.provider \in Providers /\ c.secret \in Secret
        /\ \A s \in db.agent_integrations :
             s.agent \in Agents /\ s.provider \in Providers /\ s.enabled \in BOOLEAN
    BY DEF Inv, Store, IsConnection, IsSwitch
  <2> DEFINE T == [pc : PCs, user : Users \cup {None}, agent : Agents \cup {None},
                   provider : Providers \cup {None}, secret : Secret \cup {None},
                   todo : SUBSET Providers, env : [Providers -> Secret \cup {None}],
                   dead : SUBSET Secret, on : SUBSET Providers]
  <2>2. ASSUME NEW x, Typed(x) PROVE x \in T
    BY <2>2 DEF Typed, IsRequest
  <2>3. req = [r \in Reqs |-> req[r]] /\ \A r \in Reqs : Typed(req[r])
    BY DEF Inv, Requests, Form
  <2>4. req \in [Reqs -> T]
    <3>1. \A r \in Reqs : req[r] \in T
      BY <2>2, <2>3
    <3> HIDE DEF T
    <3> QED
      BY <2>3, <3>1
  <2>5. revoked \subseteq Secret
    BY DEF Inv, Credentials
  <2>6. summary \in [pc : {"idle", "list", "orphans"}, user : Users \cup {None},
                     todo : SUBSET Providers, due : SUBSET Providers]
    BY DEF SummaryInv, IsList, List
  <2> QED
    BY <2>1, <2>4, <2>5, <2>6 DEF Inv, Rest, TypeOK
<1> QED
  BY <1>1, SummaryInvariance, PTL

(***************************************************************************)
(* ResolveAgentRuntime never hands out a credential that was replaced or   *)
(* disconnected before the start began, nor that of another user than the  *)
(* one who asked for it.  The invariant that makes it inductive is that    *)
(* every credential is in one place: a row, a request about to save it, or *)
(* revoked.                                                                *)
(***************************************************************************)
THEOREM LiveCredentials == Spec => []StartUsesLiveCredentials
<1>1. Inv => StartUsesLiveCredentials
  BY DEF Inv, Requests, Form, Usable, StartUsesLiveCredentials
<1> QED
  BY <1>1, Invariance, PTL

(***************************************************************************)
(* A start that reaches the sandbox has bound every provider that has been *)
(* on since it began.                                                      *)
(***************************************************************************)
THEOREM CompleteStarts == Spec => []StartIsComplete
<1>1. Inv => StartIsComplete
  BY DEF Inv, Requests, Form, Kept, StartIsComplete, At
<1> QED
  BY <1>1, Invariance, PTL

(***************************************************************************)
(* A switch exists only while the agent's owner is connected, but for the  *)
(* cases named in dangling and a disconnect under way.  Toggles that have  *)
(* passed the check of handleAgentIntegration are part of the invariant.   *)
(***************************************************************************)
THEOREM ConnectedSwitches == Spec => []SwitchesHaveConnections
<1>1. Inv => SwitchesHaveConnections
  <2> SUFFICES ASSUME Inv, NEW s \in db.agent_integrations
               PROVE  \/ Stored(Owner[s.agent], s.provider) # {}
                      \/ <<Owner[s.agent], s.provider>> \in dangling
                      \/ \E r \in Reqs : /\ At(r, "switches")
                                         /\ req[r].user = Owner[s.agent]
                                         /\ req[r].provider = s.provider
    BY DEF SwitchesHaveConnections
  <2>1. PICK o, p : o = Owner[s.agent] /\ p = s.provider
    OBVIOUS
  <2>2. Covered(o, p, db, req, dangling)
    BY <2>1 DEF Inv, SwitchesCovered
  <2>3. ASSUME Connected(db, o, p) PROVE Stored(o, p) # {}
    <3>1. PICK c \in db.integration_connections : c.user = o /\ c.provider = p
      BY <2>3 DEF Connected
    <3>2. c.secret \in Stored(o, p)
      BY <3>1, StoredIs
    <3> QED
      BY <3>2
  <2> QED
    BY <2>1, <2>2, <2>3 DEF Covered, At
<1> QED
  BY <1>1, Invariance, PTL

(***************************************************************************)
(* A list that BuildSummary completes has shown every provider its user    *)
(* was connected to all the time, registered or not, but for a store call  *)
(* that failed and a plugin registered between the two reads.  The         *)
(* invariant: what is still due stays connected and is either to be looked *)
(* up or unregistered since the first read of the registry.                *)
(***************************************************************************)
THEOREM CompleteSummary == Spec => []SummaryShowsEveryConnection
<1>1. SummaryInv => SummaryShowsEveryConnection
  BY DEF SummaryInv, IsList, Owes, SummaryShowsEveryConnection
<1> QED
  BY <1>1, SummaryInvariance, PTL

\* The switch of agent a for provider p is in d and no longer in e.
Gone(d, e, a, p) ==
  /\ \E s \in d.agent_integrations : s.agent = a /\ s.provider = p
  /\ \A s \in e.agent_integrations : ~ (s.agent = a /\ s.provider = p)

\* A step that takes a switch away is one of a disconnect of its owner or of
\* the delete of its agent.
LEMMA GoneForAReason ==
  ASSUME Inv, [Next]_vars, NEW a, NEW p, Gone(db, db', a, p)
  PROVE  \E r \in Reqs :
           \/ req[r].pc = "switches" /\ req[r].user = Owner[a] /\ req[r].provider = p
           \/ req[r].pc \in {"agent", "row"} /\ req[r].agent = a
<1> DEFINE Writes(r) ==
             \/ \E u \in Users, q \in Providers : HandleDisconnectIntegration(r, u, q)
             \/ SaveConnection(r) \/ DisconnectSwitches(r)
             \/ \E b \in BOOLEAN : ToggleAgentIntegration(r, b)
             \/ \E q \in Providers, o \in Answers : ResolveFails(r, q, o)
             \/ DeleteAgentSwitches(r) \/ DeleteAgentRow(r)
<1>1. UNCHANGED db \/ \E r \in Reqs : Writes(r)
  <2>1. ASSUME NEW r \in Reqs, Request(r) PROVE UNCHANGED db \/ Writes(r)
    <3>1. ASSUME NEW u \in Users, NEW q, NEW b, NEW o,
                 \/ HandleConnectIntegration(r, u, q, o) \/ HandleAgentIntegration(r, u, b, q)
                 \/ HandleStartAgent(r, u, b) \/ HandleDeleteAgent(r, u, b)
          PROVE  UNCHANGED db
      BY <3>1 DEF HandleConnectIntegration, HandleAgentIntegration, HandleStartAgent,
                  HandleDeleteAgent
    <3>2. ListSwitches(r) \/ Resolve(r) \/ StartSandbox(r) => UNCHANGED db
      BY DEF ListSwitches, Resolve, StartSandbox
    <3> QED
      BY <2>1, <3>1, <3>2 DEF Request
  <2>2. \/ UNCHANGED vars \/ RegistryChanges \/ Summarize
        \/ \E k \in Keys : Restart(k)
        => UNCHANGED db
    BY DEF vars, RegistryChanges, Restart, Summarize, HandleListIntegrations,
           SummarizeProvider, ListOrphans, ShowOrphan, EndSummary, ReadOnly
  <2> HIDE DEF Writes
  <2> QED
    BY <2>1, <2>2 DEF Next
<1>2. CASE UNCHANGED db
  BY <1>2 DEF Gone
<1>3. Store(db)
  BY DEF Inv
<1>4. ASSUME NEW r \in Reqs, NEW u \in Users, NEW q \in Providers,
             HandleDisconnectIntegration(r, u, q)
      PROVE  FALSE
  <2>1. db'.agent_integrations = db.agent_integrations
    BY <1>3, <1>4, DropTables DEF HandleDisconnectIntegration, Write
  <2> QED
    BY <2>1 DEF Gone
<1>5. ASSUME NEW r \in Reqs, SaveConnection(r) PROVE FALSE
  <2>1. req[r].user \in Users /\ req[r].provider \in Providers /\ req[r].secret \in Secret
        /\ req[r].secret.by = req[r].user
    BY <1>5 DEF SaveConnection, At, Inv, Requests, Form, Typed
  <2>2. db'.agent_integrations = db.agent_integrations
    BY <1>3, <1>5, <2>1, SaveTables DEF SaveConnection, Write
  <2> QED
    BY <2>2 DEF Gone
<1>6. ASSUME NEW r \in Reqs, DisconnectSwitches(r)
      PROVE  req[r].pc = "switches" /\ req[r].user = Owner[a] /\ req[r].provider = p
  <2>1. PICK u, q : u = req[r].user /\ q = req[r].provider
    OBVIOUS
  <2>2. \/ UNCHANGED db
        \/ db' = Pg!DeleteOwnersSwitches(db, u, q).db
    BY <1>6, <2>1 DEF DisconnectSwitches, Write
  <2>3. db' = Pg!DeleteOwnersSwitches(db, u, q).db =>
          db'.agent_integrations =
            {s \in db.agent_integrations : ~ (s.provider = q /\ Owner[s.agent] = u)}
    BY <1>3, OwnersTables
  <2>4. u = Owner[a] /\ q = p
    BY <2>2, <2>3 DEF Gone
  <2> QED
    BY <1>6, <2>1, <2>4 DEF DisconnectSwitches, At
<1>7. ASSUME NEW r \in Reqs, NEW b \in BOOLEAN, ToggleAgentIntegration(r, b) PROVE FALSE
  <2>1. req[r].agent \in Agents /\ req[r].provider \in Providers
    BY <1>7 DEF ToggleAgentIntegration, At, Inv, Requests, Form, Typed
  <2>2. \A s \in db.agent_integrations : \E t \in db'.agent_integrations :
          t.agent = s.agent /\ t.provider = s.provider
    BY <1>3, <1>7, <2>1, ToggleTables DEF ToggleAgentIntegration, Write
  <2> QED
    BY <2>2 DEF Gone
<1>8. ASSUME NEW r \in Reqs, NEW q, NEW o, ResolveFails(r, q, o) PROVE FALSE
  <2>1. db'.agent_integrations = db.agent_integrations
    BY <1>3, <1>8, NotedTables DEF ResolveFails, Write
  <2> QED
    BY <2>1 DEF Gone
<1>9. ASSUME NEW r \in Reqs, DeleteAgentSwitches(r) \/ DeleteAgentRow(r)
      PROVE  req[r].pc \in {"agent", "row"} /\ req[r].agent = a
  <2>1. PICK b : b = req[r].agent
    OBVIOUS
  <2>2. \/ db' = Pg!DeleteAgentSwitches(db, b).db
        \/ db' = Pg!DeleteAgentRow(db, b).db
    BY <1>9, <2>1 DEF DeleteAgentSwitches, DeleteAgentRow, Write
  <2>3. Without(db, db', b)
    BY <1>3, <2>2, AgentSwitchesTables, AgentRowTables
  <2>4. b = a
    BY <2>3 DEF Without, Gone
  <2> QED
    BY <1>9, <2>1, <2>4 DEF DeleteAgentSwitches, DeleteAgentRow, At
<1> QED
  BY <1>1, <1>2, <1>4, <1>5, <1>6, <1>7, <1>8, <1>9

(***************************************************************************)
(* A disconnect reaches the switches of the user's own agents and no       *)
(* other: a switch goes only with a disconnect of its owner or with the    *)
(* agent (DeleteIntegrationConnection, DeleteAgent).                       *)
(***************************************************************************)
THEOREM VanishForAReason == Spec => SwitchesVanishForAReason
<1>1. Inv /\ [Next]_vars =>
        [\A s \in Switches \ Switches' : \E r \in Reqs :
            \/ /\ At(r, "switches")
               /\ req[r].user = Owner[s[1]] /\ req[r].provider = s[2]
            \/ req[r].pc \in {"agent", "row"} /\ req[r].agent = s[1]]_vars
  <2> SUFFICES ASSUME Inv, [Next]_vars, NEW s \in Switches \ Switches'
               PROVE  \E r \in Reqs :
                        \/ /\ At(r, "switches")
                           /\ req[r].user = Owner[s[1]] /\ req[r].provider = s[2]
                        \/ req[r].pc \in {"agent", "row"} /\ req[r].agent = s[1]
    OBVIOUS
  <2>1. PICK t \in db.agent_integrations : s = <<t.agent, t.provider>>
    BY DEF Switches
  <2>2. PICK a, p : a = t.agent /\ p = t.provider
    OBVIOUS
  <2>3. s[1] = a /\ s[2] = p
    BY <2>1, <2>2
  <2>4. Gone(db, db', a, p)
    BY <2>1, <2>2 DEF Gone, Switches
  <2>5. \E r \in Reqs :
          \/ req[r].pc = "switches" /\ req[r].user = Owner[a] /\ req[r].provider = p
          \/ req[r].pc \in {"agent", "row"} /\ req[r].agent = a
    BY <2>4, GoneForAReason
  <2> QED
    BY <2>3, <2>5 DEF At
<1> QED
  BY <1>1, Invariance, PTL DEF Spec, SwitchesVanishForAReason
=============================================================================
