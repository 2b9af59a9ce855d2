------------------------------ MODULE StoreProofs ------------------------------
(***************************************************************************)
(* Proofs about the store: the inductive invariant, the steps of the calls *)
(* from the lemmas of StoreCallProofs, and the theorems.  The refinement   *)
(* takes three facts: the SQL methods that the mapping instantiates are    *)
(* the SQL methods (As...), a call steps as the SQL call over the view     *)
(* does or is a named difference (<Method>Step), and the groups of calls   *)
(* make up Next.                                                           *)
(***************************************************************************)
EXTENDS StoreCallProofs

-----------------------------------------------------------------------------
(* The inductive invariant *)

\* The keys of the tables hold, of the backend's own data or of their image, and
\* the slices and maps of the in-memory store are the ones a view can be taken of.
StoreInv ==
  /\ backend \in {"memory", "postgres"} /\ fresh \in Nat
  /\ TablesInv(PgView, fresh)
  /\ backend = "memory" => MemoryInv(db)

\* The call has been answered with q, and q's data are the data now.
Answered(q) ==
  PgView' = q.db /\ ans' = [err |-> q.err, rows |-> q.rows] /\ focus' = focus

\* The data d of the backend, their view t and the next identifier f.
Held(t, d, f) ==
  /\ t = PgView /\ d = db /\ f = fresh /\ f \in Nat /\ TablesInv(t, f)
  /\ \/ backend = "postgres" /\ d = t
     \/ backend = "memory" /\ MemoryInv(d) /\ View(d) = t

\* What the invariant says of the data.
LEMMA Now ==
  ASSUME StoreInv
  PROVE  \E t, d, f : Held(t, d, f)
<1>1. PICK t, d, f : t = PgView /\ d = db /\ f = fresh
  OBVIOUS
<1>2. Held(t, d, f)
  BY <1>1 DEF StoreInv, PgView, Held
<1> QED
  BY ONLY <1>2

\* A call whose replies agree is answered as the SQL store does.
LEMMA ReturnAnswers ==
  ASSUME StoreInv, NEW m, NEW p, NEW q, Return(m, p), backend = "postgres" => p = q,
         backend = "memory" => Agree(m, q)
  PROVE  Answered(q) /\ backend' = backend /\ (backend = "memory" => MemoryInv(db'))
<1>1. CASE backend = "postgres"
  <2>1. /\ db' = q.db /\ ans' = [err |-> q.err, rows |-> q.rows]
        /\ backend' = "postgres" /\ focus' = focus
    BY <1>1 DEF Return
  <2> QED
    BY <1>1, <2>1 DEF Answered, PgView
<1>2. CASE backend = "memory"
  <2>1. /\ db' = m.db /\ ans' = [err |-> m.err, rows |-> m.rows]
        /\ backend' = "memory" /\ focus' = focus
    BY <1>2 DEF Return
  <2>2. MemoryInv(m.db) /\ m.err = q.err /\ m.rows = q.rows /\ View(m.db) = q.db
    BY ONLY <1>2, backend = "memory" => Agree(m, q) DEF Agree, SameReply
  <2>3. PgView' = View(db')
    BY <2>1 DEF PgView
  <2> QED
    BY ONLY <1>2, <2>1, <2>2, <2>3 DEF Answered
<1> QED
  BY <1>1, <1>2 DEF StoreInv

\* The data an answer leaves.
LEMMA AnswerStep ==
  ASSUME StoreInv, NEW u, PgView' = u, backend' = backend,
         backend = "memory" => MemoryInv(db'), NEW g \in Nat, fresh' = g, Step(PgView, u, g)
  PROVE  StoreInv' /\ StayPut(PgView, PgView')
<1>1. TablesInv(u, g) /\ StayPut(PgView, u)
  BY DEF Step
<1>2. backend \in {"memory", "postgres"}
  BY DEF StoreInv
<1> QED
  BY <1>1, <1>2 DEF StoreInv

\* A call that creates nothing.
LEMMA SameStep ==
  ASSUME StoreInv, NEW m, NEW p, NEW q, fresh' = fresh, Return(m, p),
         backend = "postgres" => p = q, backend = "memory" => Agree(m, q),
         Step(PgView, q.db, fresh)
  PROVE  StoreInv' /\ StayPut(PgView, PgView') /\ Answered(q)
<1>1. Answered(q) /\ backend' = backend /\ (backend = "memory" => MemoryInv(db'))
  BY ONLY StoreInv, Return(m, p), backend = "postgres" => p = q,
          backend = "memory" => Agree(m, q), ReturnAnswers
<1>2. PICK u, f : u = q.db /\ f = fresh
  OBVIOUS
<1>3. PgView' = u /\ fresh' = f /\ f \in Nat /\ Step(PgView, u, f)
  BY <1>1, <1>2 DEF Answered, StoreInv
<1> QED
  BY ONLY <1>1, <1>3, StoreInv, AnswerStep

\* A call that creates something, and takes an identifier if it succeeds.
LEMMA NewStep ==
  ASSUME StoreInv, NEW m, NEW p, NEW q, NewID(m, p),
         backend = "postgres" => p = q, backend = "memory" => Agree(m, q),
         Step(PgView, q.db, IF q.err = "" THEN fresh + 1 ELSE fresh)
  PROVE  StoreInv' /\ StayPut(PgView, PgView') /\ Answered(q)
<1>1. Return(m, p) /\ fresh' = IF ans'.err = "" THEN fresh + 1 ELSE fresh
  BY DEF NewID
<1>2. Answered(q) /\ backend' = backend /\ (backend = "memory" => MemoryInv(db'))
  BY ONLY <1>1, StoreInv, backend = "postgres" => p = q,
          backend = "memory" => Agree(m, q), ReturnAnswers
<1>3. PICK u, f, e, g : u = q.db /\ f = fresh /\ e = q.err /\ g = IF e = "" THEN f + 1 ELSE f
  OBVIOUS
<1>4. ans'.err = e /\ PgView' = u
  BY ONLY <1>2, <1>3 DEF Answered
<1>5. f \in Nat /\ g \in Nat
  <2>1. f \in Nat
    BY <1>3 DEF StoreInv
  <2>2. g \in Nat
    <3>1. f + 1 \in Nat
      BY ONLY <2>1
    <3>2. g = f + 1 \/ g = f
      BY ONLY <1>3
    <3> QED
      BY ONLY <2>1, <3>1, <3>2
  <2> QED
    BY ONLY <2>1, <2>2
<1>6. fresh' = g /\ Step(PgView, u, g)
  BY ONLY <1>1, <1>3, <1>4, Step(PgView, q.db, IF q.err = "" THEN fresh + 1 ELSE fresh)
<1> QED
  BY ONLY <1>2, <1>4, <1>5, <1>6, StoreInv, AnswerStep

\* A call of the in-memory store that differs.
LEMMA DifferentStep ==
  ASSUME StoreInv, backend = "memory", NEW m, NEW p, fresh' = fresh, Return(m, p),
         MemoryInv(m.db), Step(PgView, View(m.db), fresh)
  PROVE  StoreInv' /\ StayPut(PgView, PgView')
<1>1. db' = m.db /\ backend' = backend
  BY DEF Return
<1>2. PICK e, u, f : e = m.db /\ u = View(e) /\ f = fresh
  OBVIOUS
<1>3. PgView' = u
  BY <1>1, <1>2 DEF PgView
<1>4. MemoryInv(db') /\ fresh' = f /\ Step(PgView, u, f)
  BY ONLY <1>1, <1>2, fresh' = fresh, MemoryInv(m.db), Step(PgView, View(m.db), fresh)
<1>5. f \in Nat
  BY <1>2 DEF StoreInv
<1> QED
  BY ONLY <1>1, <1>3, <1>4, <1>5, StoreInv, AnswerStep

\* The answer is one of the SQL store over the view.
LEMMA AsReturn ==
  ASSUME NEW m, NEW p, Answered(p)
  PROVE  AsPostgres!Return(m, p)
  BY DEF Answered, AsPostgres!Return

\* With an identifier taken.
LEMMA AsNewID ==
  ASSUME NEW m, NEW p, Answered(p), NEW k, NEW l, NewID(k, l)
  PROVE  AsPostgres!NewID(m, p)
<1>1. AsPostgres!Return(m, p)
  BY AsReturn
<1>2. fresh \in Ids /\ fresh' = IF ans'.err = "" THEN fresh + 1 ELSE fresh
  BY DEF NewID
<1>3. Ids = AsPostgres!Ids
  BY DEF Ids, AsPostgres!Ids
<1> QED
  BY ONLY <1>1, <1>2, <1>3 DEF AsPostgres!NewID
-----------------------------------------------------------------------------
(* The refinement's SQL store is the SQL store *)

\* The methods on users.
LEMMA AsAccounts ==
  /\ \A t, id, name, hash, role :
       AsPostgres!Pg!CreateUser(t, id, name, hash, role) = Pg!CreateUser(t, id, name, hash, role)
  /\ \A t, id :
       AsPostgres!Pg!GetUser(t, id) = Pg!GetUser(t, id)
  /\ \A t, name :
       AsPostgres!Pg!GetUserByUsername(t, name) = Pg!GetUserByUsername(t, name)
  /\ \A t :
       AsPostgres!Pg!ListUsers(t) = Pg!ListUsers(t)
  /\ \A t, id, disabled, role :
       AsPostgres!Pg!UpdateUser(t, id, disabled, role) = Pg!UpdateUser(t, id, disabled, role)
  /\ \A t, name :
       AsPostgres!Pg!GetPasswordHash(t, name) = Pg!GetPasswordHash(t, name)
  /\ \A t, name, hash :
       AsPostgres!Pg!SetPasswordHash(t, name, hash) = Pg!SetPasswordHash(t, name, hash)
  /\ \A t, id, name, hash :
       AsPostgres!Pg!BootstrapAdmin(t, id, name, hash) = Pg!BootstrapAdmin(t, id, name, hash)
<1>1. \A t, id, name, hash, role :
        AsPostgres!Pg!CreateUser(t, id, name, hash, role) = Pg!CreateUser(t, id, name, hash, role)
  BY DEF Pg!CreateUser, AsPostgres!Pg!CreateUser, Pg!Fail, AsPostgres!Pg!Fail, Pg!PublicReply,
         AsPostgres!Pg!PublicReply, Pg!Public, AsPostgres!Pg!Public, Pg!InsertRow,
         AsPostgres!Pg!InsertRow, Pg!Ok, AsPostgres!Pg!Ok, Pg!UserRow, AsPostgres!Pg!UserRow
<1>2. \A t, id :
        AsPostgres!Pg!GetUser(t, id) = Pg!GetUser(t, id)
  BY DEF Pg!GetUser, AsPostgres!Pg!GetUser, Pg!PublicReply, AsPostgres!Pg!PublicReply,
     Pg!Public,
         AsPostgres!Pg!Public, Pg!SelectRow, AsPostgres!Pg!SelectRow, Pg!Where,
         AsPostgres!Pg!Where, Pg!Fail, AsPostgres!Pg!Fail, Pg!Ok, AsPostgres!Pg!Ok
<1>3. \A t, name :
        AsPostgres!Pg!GetUserByUsername(t, name) = Pg!GetUserByUsername(t, name)
  BY DEF Pg!GetUserByUsername, AsPostgres!Pg!GetUserByUsername, Pg!PublicReply,
         AsPostgres!Pg!PublicReply, Pg!Public, AsPostgres!Pg!Public, Pg!SelectRow,
         AsPostgres!Pg!SelectRow, Pg!Where, AsPostgres!Pg!Where, Pg!Fail, AsPostgres!Pg!Fail,
         Pg!Ok, AsPostgres!Pg!Ok
<1>4. \A t :
        AsPostgres!Pg!ListUsers(t) = Pg!ListUsers(t)
  BY DEF Pg!ListUsers, AsPostgres!Pg!ListUsers, Pg!PublicReply, AsPostgres!Pg!PublicReply,
         Pg!Public, AsPostgres!Pg!Public, Pg!Ok, AsPostgres!Pg!Ok
<1>5. \A t, id, disabled, role :
        AsPostgres!Pg!UpdateUser(t, id, disabled, role) = Pg!UpdateUser(t, id, disabled, role)
  BY DEF Pg!UpdateUser, AsPostgres!Pg!UpdateUser, Pg!PublicReply, AsPostgres!Pg!PublicReply,
         Pg!Public, AsPostgres!Pg!Public, Pg!UpdateWhere, AsPostgres!Pg!UpdateWhere, Pg!Where,
         AsPostgres!Pg!Where, Pg!Fail, AsPostgres!Pg!Fail, Pg!Ok, AsPostgres!Pg!Ok, Pg!Given,
         AsPostgres!Pg!Given
<1>6. \A t, name :
        AsPostgres!Pg!GetPasswordHash(t, name) = Pg!GetPasswordHash(t, name)
  BY DEF Pg!GetPasswordHash, AsPostgres!Pg!GetPasswordHash, Pg!SelectRow,
     AsPostgres!Pg!SelectRow,
         Pg!Where, AsPostgres!Pg!Where, Pg!Fail, AsPostgres!Pg!Fail, Pg!Ok, AsPostgres!Pg!Ok
<1>7. \A t, name, hash :
        AsPostgres!Pg!SetPasswordHash(t, name, hash) = Pg!SetPasswordHash(t, name, hash)
  BY DEF Pg!SetPasswordHash, AsPostgres!Pg!SetPasswordHash, Pg!Ok, AsPostgres!Pg!Ok,
         Pg!UpdateWhere, AsPostgres!Pg!UpdateWhere, Pg!Where, AsPostgres!Pg!Where, Pg!Fail,
         AsPostgres!Pg!Fail
<1>8. \A t, id, name, hash :
        AsPostgres!Pg!BootstrapAdmin(t, id, name, hash) = Pg!BootstrapAdmin(t, id, name, hash)
  BY DEF Pg!BootstrapAdmin, AsPostgres!Pg!BootstrapAdmin, Pg!Ok, AsPostgres!Pg!Ok,
     Pg!OnConflict,
         AsPostgres!Pg!OnConflict, Pg!Where, AsPostgres!Pg!Where, Pg!InsertRow,
         AsPostgres!Pg!InsertRow, Pg!UpdateWhere, AsPostgres!Pg!UpdateWhere, Pg!Fail,
         AsPostgres!Pg!Fail, Pg!UserRow, AsPostgres!Pg!UserRow, Pg!Given, AsPostgres!Pg!Given
<1> QED
  BY ONLY <1>1, <1>2, <1>3, <1>4, <1>5, <1>6, <1>7, <1>8

\* The methods on agents.
LEMMA AsAgents ==
  /\ \A t, id, owner :
       AsPostgres!Pg!CreateAgent(t, id, owner) = Pg!CreateAgent(t, id, owner)
  /\ \A t, id :
       AsPostgres!Pg!GetAgent(t, id) = Pg!GetAgent(t, id)
  /\ \A t, owner :
       AsPostgres!Pg!ListAgents(t, owner) = Pg!ListAgents(t, owner)
  /\ \A t, id, state :
       AsPostgres!Pg!UpdateAgentState(t, id, state) = Pg!UpdateAgentState(t, id, state)
  /\ \A t, id, lastError :
       AsPostgres!Pg!UpdateAgentError(t, id, lastError) = Pg!UpdateAgentError(t, id, lastError)
  /\ \A t, id :
       AsPostgres!Pg!DeleteAgent(t, id) = Pg!DeleteAgent(t, id)
<1>1. \A t, id, owner :
        AsPostgres!Pg!CreateAgent(t, id, owner) = Pg!CreateAgent(t, id, owner)
  BY DEF Pg!CreateAgent, AsPostgres!Pg!CreateAgent, Pg!Fail, AsPostgres!Pg!Fail, Pg!InsertRow,
         AsPostgres!Pg!InsertRow, Pg!Ok, AsPostgres!Pg!Ok
<1>2. \A t, id :
        AsPostgres!Pg!GetAgent(t, id) = Pg!GetAgent(t, id)
  BY DEF Pg!GetAgent, AsPostgres!Pg!GetAgent, Pg!SelectRow, AsPostgres!Pg!SelectRow, Pg!Where,
         AsPostgres!Pg!Where, Pg!Fail, AsPostgres!Pg!Fail, Pg!Ok, AsPostgres!Pg!Ok
<1>3. \A t, owner :
        AsPostgres!Pg!ListAgents(t, owner) = Pg!ListAgents(t, owner)
  BY DEF Pg!ListAgents, AsPostgres!Pg!ListAgents, Pg!Ok, AsPostgres!Pg!Ok, Pg!Where,
         AsPostgres!Pg!Where
<1>4. \A t, id, state :
        AsPostgres!Pg!UpdateAgentState(t, id, state) = Pg!UpdateAgentState(t, id, state)
  BY DEF Pg!UpdateAgentState, AsPostgres!Pg!UpdateAgentState, Pg!UpdateWhere,
         AsPostgres!Pg!UpdateWhere, Pg!Where, AsPostgres!Pg!Where, Pg!Fail, AsPostgres!Pg!Fail,
         Pg!Ok, AsPostgres!Pg!Ok
<1>5. \A t, id, lastError :
        AsPostgres!Pg!UpdateAgentError(t, id, lastError) = Pg!UpdateAgentError(t, id, lastError)
  BY DEF Pg!UpdateAgentError, AsPostgres!Pg!UpdateAgentError, Pg!UpdateWhere,
         AsPostgres!Pg!UpdateWhere, Pg!Where, AsPostgres!Pg!Where, Pg!Fail, AsPostgres!Pg!Fail,
         Pg!Ok, AsPostgres!Pg!Ok
<1>6. \A t, id :
        AsPostgres!Pg!DeleteAgent(t, id) = Pg!DeleteAgent(t, id)
  <2>1. \A t, id : AsPostgres!Pg!DeleteAgentSwitches(t, id) = Pg!DeleteAgentSwitches(t, id)
    BY DEF Pg!DeleteAgentSwitches, AsPostgres!Pg!DeleteAgentSwitches, Pg!DeleteWhere,
           AsPostgres!Pg!DeleteWhere, Pg!Where, AsPostgres!Pg!Where, Pg!Fail,
           AsPostgres!Pg!Fail, Pg!Ok, AsPostgres!Pg!Ok
  <2>2. \A t, id : AsPostgres!Pg!DeleteAgentRow(t, id) = Pg!DeleteAgentRow(t, id)
    <3> SUFFICES ASSUME NEW t, NEW id
                 PROVE  AsPostgres!Pg!DeleteAgentRow(t, id) = Pg!DeleteAgentRow(t, id)
      OBVIOUS
    <3>1. PICK K, d, e : /\ K = {r \in t["agents"] : r.id = id}
                         /\ d = [t EXCEPT !["agents"] = @ \ K]
                         /\ e = [err |-> "notfound", rows |-> {}, db |-> t]
      OBVIOUS
    <3>2. Pg!DeleteAgentRow(t, id) =
            IF K = {} THEN e
            ELSE [err |-> "", rows |-> {}, db |-> Pg!DeleteAgentSwitches(d, id).db]
      BY ONLY <3>1 DEF Pg!DeleteAgentRow, Pg!DeleteWhere, Pg!Where, Pg!Fail, Pg!Ok
    <3>3. AsPostgres!Pg!DeleteAgentRow(t, id) =
            IF K = {} THEN e
            ELSE [err |-> "", rows |-> {}, db |-> AsPostgres!Pg!DeleteAgentSwitches(d, id).db]
      BY ONLY <3>1 DEF AsPostgres!Pg!DeleteAgentRow, AsPostgres!Pg!DeleteWhere,
             AsPostgres!Pg!Where, AsPostgres!Pg!Fail, AsPostgres!Pg!Ok
    <3> QED
      BY ONLY <2>1, <3>2, <3>3
  <2> QED
    BY ONLY <2>1, <2>2 DEF Pg!DeleteAgent, AsPostgres!Pg!DeleteAgent
<1> QED
  BY ONLY <1>1, <1>2, <1>3, <1>4, <1>5, <1>6

\* The methods on connections and switches.
LEMMA AsIntegrations ==
  /\ \A t, user, provider, secret, revision :
       AsPostgres!Pg!UpsertIntegrationConnection(t, user, provider, secret, revision) =
                 Pg!UpsertIntegrationConnection(t, user, provider, secret, revision)
  /\ \A t, user, provider :
       AsPostgres!Pg!GetIntegrationConnection(t, user, provider) =
                 Pg!GetIntegrationConnection(t, user, provider)
  /\ \A t, user :
       AsPostgres!Pg!ListUserIntegrationProviderIDs(t, user) =
                 Pg!ListUserIntegrationProviderIDs(t, user)
  /\ \A t, user, provider :
       AsPostgres!Pg!DeleteIntegrationConnection(t, user, provider) =
                 Pg!DeleteIntegrationConnection(t, user, provider)
  /\ \A t, agent, provider, enabled, revision :
       AsPostgres!Pg!UpsertAgentIntegration(t, agent, provider, enabled, revision) =
                 Pg!UpsertAgentIntegration(t, agent, provider, enabled, revision)
  /\ \A t, agent :
       AsPostgres!Pg!ListAgentIntegrations(t, agent) = Pg!ListAgentIntegrations(t, agent)
  /\ \A t, agent, provider :
       AsPostgres!Pg!GetAgentIntegration(t, agent, provider) =
                 Pg!GetAgentIntegration(t, agent, provider)
<1>1. \A t, user, provider, secret, revision :
        AsPostgres!Pg!UpsertIntegrationConnection(t, user, provider, secret, revision) =
                  Pg!UpsertIntegrationConnection(t, user, provider, secret, revision)
  BY DEF Pg!UpsertIntegrationConnection, AsPostgres!Pg!UpsertIntegrationConnection, Pg!Fail,
         AsPostgres!Pg!Fail, Pg!OnConflict, AsPostgres!Pg!OnConflict, Pg!Where,
         AsPostgres!Pg!Where, Pg!InsertRow, AsPostgres!Pg!InsertRow, Pg!Ok, AsPostgres!Pg!Ok,
         Pg!UpdateWhere, AsPostgres!Pg!UpdateWhere, Pg!FirstRevision, AsPostgres!Pg!FirstRevision
<1>2. \A t, user, provider :
        AsPostgres!Pg!GetIntegrationConnection(t, user, provider) =
                  Pg!GetIntegrationConnection(t, user, provider)
  BY DEF Pg!GetIntegrationConnection, AsPostgres!Pg!GetIntegrationConnection, Pg!SelectRow,
         AsPostgres!Pg!SelectRow, Pg!Where, AsPostgres!Pg!Where, Pg!Fail, AsPostgres!Pg!Fail,
         Pg!Ok, AsPostgres!Pg!Ok
<1>3. \A t, user :
        AsPostgres!Pg!ListUserIntegrationProviderIDs(t, user) =
                  Pg!ListUserIntegrationProviderIDs(t, user)
  BY DEF Pg!ListUserIntegrationProviderIDs, AsPostgres!Pg!ListUserIntegrationProviderIDs,
     Pg!Ok,
         AsPostgres!Pg!Ok, Pg!Where, AsPostgres!Pg!Where
<1>4. \A t, user, provider :
        AsPostgres!Pg!DeleteIntegrationConnection(t, user, provider) =
                  Pg!DeleteIntegrationConnection(t, user, provider)
  BY DEF Pg!DeleteIntegrationConnection, AsPostgres!Pg!DeleteIntegrationConnection,
         Pg!DeleteOwnersSwitches, AsPostgres!Pg!DeleteOwnersSwitches, Pg!Ok, AsPostgres!Pg!Ok,
         Pg!DeleteWhere, AsPostgres!Pg!DeleteWhere, Pg!Where, AsPostgres!Pg!Where, Pg!Fail,
         AsPostgres!Pg!Fail, Pg!DeleteConnectionRow, AsPostgres!Pg!DeleteConnectionRow
<1>5. \A t, agent, provider, enabled, revision :
        AsPostgres!Pg!UpsertAgentIntegration(t, agent, provider, enabled, revision) =
                  Pg!UpsertAgentIntegration(t, agent, provider, enabled, revision)
  BY DEF Pg!UpsertAgentIntegration, AsPostgres!Pg!UpsertAgentIntegration, Pg!Fail,
         AsPostgres!Pg!Fail, Pg!OnConflict, AsPostgres!Pg!OnConflict, Pg!Where,
         AsPostgres!Pg!Where, Pg!InsertRow, AsPostgres!Pg!InsertRow, Pg!Ok, AsPostgres!Pg!Ok,
         Pg!UpdateWhere, AsPostgres!Pg!UpdateWhere, Pg!FirstRevision, AsPostgres!Pg!FirstRevision
<1>6. \A t, agent :
        AsPostgres!Pg!ListAgentIntegrations(t, agent) = Pg!ListAgentIntegrations(t, agent)
  BY DEF Pg!ListAgentIntegrations, AsPostgres!Pg!ListAgentIntegrations, Pg!Ok,
     AsPostgres!Pg!Ok,
         Pg!Where, AsPostgres!Pg!Where
<1>7. \A t, agent, provider :
        AsPostgres!Pg!GetAgentIntegration(t, agent, provider) =
                  Pg!GetAgentIntegration(t, agent, provider)
  BY DEF Pg!GetAgentIntegration, AsPostgres!Pg!GetAgentIntegration, Pg!SelectRow,
         AsPostgres!Pg!SelectRow, Pg!Where, AsPostgres!Pg!Where, Pg!Fail, AsPostgres!Pg!Fail,
         Pg!Ok, AsPostgres!Pg!Ok
<1> QED
  BY ONLY <1>1, <1>2, <1>3, <1>4, <1>5, <1>6, <1>7

\* The methods on models and the gateway.
LEMMA AsModels ==
  /\ \A t, id, display, provider, enabled :
       AsPostgres!Pg!CreateLLMModel(t, id, display, provider, enabled) =
                 Pg!CreateLLMModel(t, id, display, provider, enabled)
  /\ \A t, id :
       AsPostgres!Pg!GetLLMModel(t, id) = Pg!GetLLMModel(t, id)
  /\ \A t :
       AsPostgres!Pg!ListLLMModels(t) = Pg!ListLLMModels(t)
  /\ \A t, id, display, provider, enabled :
       AsPostgres!Pg!UpdateLLMModel(t, id, display, provider, enabled) =
                 Pg!UpdateLLMModel(t, id, display, provider, enabled)
  /\ \A t :
       AsPostgres!Pg!GetLLMGatewaySettings(t) = Pg!GetLLMGatewaySettings(t)
  /\ \A t, enabled, secret :
       AsPostgres!Pg!UpsertLLMGatewaySettings(t, enabled, secret) =
                 Pg!UpsertLLMGatewaySettings(t, enabled, secret)
<1>1. \A t, id, display, provider, enabled :
        AsPostgres!Pg!CreateLLMModel(t, id, display, provider, enabled) =
                  Pg!CreateLLMModel(t, id, display, provider, enabled)
  BY DEF Pg!CreateLLMModel, AsPostgres!Pg!CreateLLMModel, Pg!InsertRow,
     AsPostgres!Pg!InsertRow,
         Pg!Ok, AsPostgres!Pg!Ok
<1>2. \A t, id :
        AsPostgres!Pg!GetLLMModel(t, id) = Pg!GetLLMModel(t, id)
  BY DEF Pg!GetLLMModel, AsPostgres!Pg!GetLLMModel, Pg!SelectRow, AsPostgres!Pg!SelectRow,
         Pg!Where, AsPostgres!Pg!Where, Pg!Fail, AsPostgres!Pg!Fail, Pg!Ok, AsPostgres!Pg!Ok
<1>3. \A t :
        AsPostgres!Pg!ListLLMModels(t) = Pg!ListLLMModels(t)
  BY DEF Pg!ListLLMModels, AsPostgres!Pg!ListLLMModels, Pg!Ok, AsPostgres!Pg!Ok
<1>4. \A t, id, display, provider, enabled :
        AsPostgres!Pg!UpdateLLMModel(t, id, display, provider, enabled) =
                  Pg!UpdateLLMModel(t, id, display, provider, enabled)
  BY DEF Pg!UpdateLLMModel, AsPostgres!Pg!UpdateLLMModel, Pg!UpdateWhere,
         AsPostgres!Pg!UpdateWhere, Pg!Where, AsPostgres!Pg!Where, Pg!Fail, AsPostgres!Pg!Fail,
         Pg!Ok, AsPostgres!Pg!Ok, Pg!Given, AsPostgres!Pg!Given
<1>5. \A t :
        AsPostgres!Pg!GetLLMGatewaySettings(t) = Pg!GetLLMGatewaySettings(t)
  BY DEF Pg!GetLLMGatewaySettings, AsPostgres!Pg!GetLLMGatewaySettings, Pg!Ok, AsPostgres!Pg!Ok
<1>6. \A t, enabled, secret :
        AsPostgres!Pg!UpsertLLMGatewaySettings(t, enabled, secret) =
                  Pg!UpsertLLMGatewaySettings(t, enabled, secret)
  BY DEF Pg!UpsertLLMGatewaySettings, AsPostgres!Pg!UpsertLLMGatewaySettings, Pg!OnConflict,
         AsPostgres!Pg!OnConflict, Pg!Where, AsPostgres!Pg!Where, Pg!InsertRow,
         AsPostgres!Pg!InsertRow, Pg!Ok, AsPostgres!Pg!Ok, Pg!UpdateWhere,
         AsPostgres!Pg!UpdateWhere, Pg!Fail, AsPostgres!Pg!Fail
<1> QED
  BY ONLY <1>1, <1>2, <1>3, <1>4, <1>5, <1>6

\* The methods on manifests.
LEMMA AsManifests ==
  /\ \A t, enabledOnly :
       AsPostgres!Pg!ListPluginManifests(t, enabledOnly) = Pg!ListPluginManifests(t, enabledOnly)
  /\ \A t, id :
       AsPostgres!Pg!GetPluginManifest(t, id) = Pg!GetPluginManifest(t, id)
  /\ \A t, id, yaml, enabled :
       AsPostgres!Pg!UpsertPluginManifest(t, id, yaml, enabled) =
                 Pg!UpsertPluginManifest(t, id, yaml, enabled)
  /\ \A t, id :
       AsPostgres!Pg!DeletePluginManifest(t, id) = Pg!DeletePluginManifest(t, id)
<1>1. \A t, enabledOnly :
        AsPostgres!Pg!ListPluginManifests(t, enabledOnly) = Pg!ListPluginManifests(t, enabledOnly)
  BY DEF Pg!ListPluginManifests, AsPostgres!Pg!ListPluginManifests, Pg!Ok, AsPostgres!Pg!Ok,
         Pg!Where, AsPostgres!Pg!Where
<1>2. \A t, id :
        AsPostgres!Pg!GetPluginManifest(t, id) = Pg!GetPluginManifest(t, id)
  BY DEF Pg!GetPluginManifest, AsPostgres!Pg!GetPluginManifest, Pg!SelectRow,
         AsPostgres!Pg!SelectRow, Pg!Where, AsPostgres!Pg!Where, Pg!Fail, AsPostgres!Pg!Fail,
         Pg!Ok, AsPostgres!Pg!Ok
<1>3. \A t, id, yaml, enabled :
        AsPostgres!Pg!UpsertPluginManifest(t, id, yaml, enabled) =
                  Pg!UpsertPluginManifest(t, id, yaml, enabled)
  BY DEF Pg!UpsertPluginManifest, AsPostgres!Pg!UpsertPluginManifest, Pg!OnConflict,
         AsPostgres!Pg!OnConflict, Pg!Where, AsPostgres!Pg!Where, Pg!InsertRow,
         AsPostgres!Pg!InsertRow, Pg!Ok, AsPostgres!Pg!Ok, Pg!UpdateWhere,
         AsPostgres!Pg!UpdateWhere, Pg!Fail, AsPostgres!Pg!Fail
<1>4. \A t, id :
        AsPostgres!Pg!DeletePluginManifest(t, id) = Pg!DeletePluginManifest(t, id)
  BY DEF Pg!DeletePluginManifest, AsPostgres!Pg!DeletePluginManifest, Pg!DeleteWhere,
         AsPostgres!Pg!DeleteWhere, Pg!Where, AsPostgres!Pg!Where, Pg!Fail, AsPostgres!Pg!Fail,
         Pg!Ok, AsPostgres!Pg!Ok
<1> QED
  BY ONLY <1>1, <1>2, <1>3, <1>4

\* The methods on identities and settings.
LEMMA AsIdentities ==
  /\ \A t, provider, subject :
       AsPostgres!Pg!GetUserIDByIdentity(t, provider, subject) =
                 Pg!GetUserIDByIdentity(t, provider, subject)
  /\ \A t, provider, subject :
       AsPostgres!Pg!TouchIdentityLogin(t, provider, subject) =
                 Pg!TouchIdentityLogin(t, provider, subject)
  /\ \A t, id, name, role, provider, subject :
       AsPostgres!Pg!CreateUserAndIdentity(t, id, name, role, provider, subject) =
                 Pg!CreateUserAndIdentity(t, id, name, role, provider, subject)
  /\ \A t, user, provider, subject :
       AsPostgres!Pg!LinkIdentityToUser(t, user, provider, subject) =
                 Pg!LinkIdentityToUser(t, user, provider, subject)
  /\ \A t, user :
       AsPostgres!Pg!ListUserIdentities(t, user) = Pg!ListUserIdentities(t, user)
  /\ \A t, user, provider, subject :
       AsPostgres!Pg!UnlinkIdentity(t, user, provider, subject) =
                 Pg!UnlinkIdentity(t, user, provider, subject)
  /\ \A t, key :
       AsPostgres!Pg!GetAppSetting(t, key) = Pg!GetAppSetting(t, key)
  /\ \A t, key, value :
       AsPostgres!Pg!SetAppSetting(t, key, value) = Pg!SetAppSetting(t, key, value)
  /\ \A t, keys :
       AsPostgres!Pg!ListAppSettings(t, keys) = Pg!ListAppSettings(t, keys)
<1>1. \A t, provider, subject :
        AsPostgres!Pg!GetUserIDByIdentity(t, provider, subject) =
                  Pg!GetUserIDByIdentity(t, provider, subject)
  BY DEF Pg!GetUserIDByIdentity, AsPostgres!Pg!GetUserIDByIdentity, Pg!Ok, AsPostgres!Pg!Ok,
         Pg!Where, AsPostgres!Pg!Where
<1>2. \A t, provider, subject :
        AsPostgres!Pg!TouchIdentityLogin(t, provider, subject) =
                  Pg!TouchIdentityLogin(t, provider, subject)
  BY DEF Pg!TouchIdentityLogin, AsPostgres!Pg!TouchIdentityLogin, Pg!UpdateWhere,
         AsPostgres!Pg!UpdateWhere, Pg!Where, AsPostgres!Pg!Where, Pg!Fail, AsPostgres!Pg!Fail,
         Pg!Ok, AsPostgres!Pg!Ok
<1>3. \A t, id, name, role, provider, subject :
        AsPostgres!Pg!CreateUserAndIdentity(t, id, name, role, provider, subject) =
                  Pg!CreateUserAndIdentity(t, id, name, role, provider, subject)
  BY DEF Pg!CreateUserAndIdentity, AsPostgres!Pg!CreateUserAndIdentity, Pg!CreateUser,
         AsPostgres!Pg!CreateUser, Pg!Fail, AsPostgres!Pg!Fail, Pg!PublicReply,
         AsPostgres!Pg!PublicReply, Pg!Public, AsPostgres!Pg!Public, Pg!InsertRow,
         AsPostgres!Pg!InsertRow, Pg!Ok, AsPostgres!Pg!Ok, Pg!UserRow, AsPostgres!Pg!UserRow,
         Pg!InsertIdentity, AsPostgres!Pg!InsertIdentity, Pg!IdentityRow,
         AsPostgres!Pg!IdentityRow
<1>4. \A t, user, provider, subject :
        AsPostgres!Pg!LinkIdentityToUser(t, user, provider, subject) =
                  Pg!LinkIdentityToUser(t, user, provider, subject)
  BY DEF Pg!LinkIdentityToUser, AsPostgres!Pg!LinkIdentityToUser, Pg!Fail, AsPostgres!Pg!Fail,
         Pg!InsertIdentity, AsPostgres!Pg!InsertIdentity, Pg!Ok, AsPostgres!Pg!Ok, Pg!InsertRow,
         AsPostgres!Pg!InsertRow, Pg!IdentityRow, AsPostgres!Pg!IdentityRow
<1>5. \A t, user :
        AsPostgres!Pg!ListUserIdentities(t, user) = Pg!ListUserIdentities(t, user)
  BY DEF Pg!ListUserIdentities, AsPostgres!Pg!ListUserIdentities, Pg!Ok, AsPostgres!Pg!Ok,
         Pg!Where, AsPostgres!Pg!Where
<1>6. \A t, user, provider, subject :
        AsPostgres!Pg!UnlinkIdentity(t, user, provider, subject) =
                  Pg!UnlinkIdentity(t, user, provider, subject)
  BY DEF Pg!UnlinkIdentity, AsPostgres!Pg!UnlinkIdentity, Pg!DeleteWhere,
         AsPostgres!Pg!DeleteWhere, Pg!Where, AsPostgres!Pg!Where, Pg!Fail, AsPostgres!Pg!Fail,
         Pg!Ok, AsPostgres!Pg!Ok
<1>7. \A t, key :
        AsPostgres!Pg!GetAppSetting(t, key) = Pg!GetAppSetting(t, key)
  BY DEF Pg!GetAppSetting, AsPostgres!Pg!GetAppSetting, Pg!Where, AsPostgres!Pg!Where, Pg!Ok,
         AsPostgres!Pg!Ok
<1>8. \A t, key, value :
        AsPostgres!Pg!SetAppSetting(t, key, value) = Pg!SetAppSetting(t, key, value)
  BY DEF Pg!SetAppSetting, AsPostgres!Pg!SetAppSetting, Pg!Ok, AsPostgres!Pg!Ok, Pg!OnConflict,
         AsPostgres!Pg!OnConflict, Pg!Where, AsPostgres!Pg!Where, Pg!InsertRow,
         AsPostgres!Pg!InsertRow, Pg!UpdateWhere, AsPostgres!Pg!UpdateWhere, Pg!Fail,
         AsPostgres!Pg!Fail
<1>9. \A t, keys :
        AsPostgres!Pg!ListAppSettings(t, keys) = Pg!ListAppSettings(t, keys)
  BY DEF Pg!ListAppSettings, AsPostgres!Pg!ListAppSettings, Pg!Ok, AsPostgres!Pg!Ok, Pg!Where,
         AsPostgres!Pg!Where
<1> QED
  BY ONLY <1>1, <1>2, <1>3, <1>4, <1>5, <1>6, <1>7, <1>8, <1>9
-----------------------------------------------------------------------------
(* The steps: calls that always agree *)

\* GetUser.
LEMMA GetUserStep ==
  ASSUME StoreInv, NEW id, GetUser(id)
  PROVE  StoreInv' /\ StayPut(PgView, PgView') /\ AsPostgres!GetUser(id)
<1>1. PICK t, d, f : Held(t, d, f)
  BY ONLY StoreInv, Now
<1>2. PICK m, o, q : /\ m = Mem!GetUser(d, id) /\ o = Pg!GetUser(d, id)
                     /\ q = Pg!GetUser(t, id)
  OBVIOUS
<1>3. Return(m, o) /\ fresh' = fresh
  BY ONLY <1>1, <1>2, GetUser(id) DEF GetUser, Same, Held
<1>4. Step(t, q.db, f) /\ (backend = "memory" => Agree(m, q)) /\ (backend = "postgres" => o = q)
  BY ONLY <1>1, <1>2, GetUserCall DEF Held
<1>5. StoreInv' /\ StayPut(PgView, PgView') /\ Answered(q)
  <2>1. Step(PgView, q.db, fresh)
    BY ONLY <1>1, <1>4 DEF Held
  <2> QED
    BY ONLY <1>3, <1>4, <2>1, StoreInv, SameStep
<1>6. AsPostgres!GetUser(id)
  <2>1. PICK w : w = AsPostgres!Mem!GetUser(t, id)
    OBVIOUS
  <2>2. AsPostgres!Pg!GetUser(t, id) = q
    BY ONLY <1>2, AsAccounts
  <2>3. AsPostgres!Return(w, q)
    BY ONLY <1>5, AsReturn
  <2> QED
    BY ONLY <1>1, <1>3, <2>1, <2>2, <2>3 DEF AsPostgres!GetUser, AsPostgres!Same, Held
<1> QED
  BY ONLY <1>5, <1>6

\* GetUserByUsername.
LEMMA GetUserByUsernameStep ==
  ASSUME StoreInv, NEW n, GetUserByUsername(n)
  PROVE  StoreInv' /\ StayPut(PgView, PgView') /\ AsPostgres!GetUserByUsername(n)
<1>1. PICK t, d, f : Held(t, d, f)
  BY ONLY StoreInv, Now
<1>2. PICK m, o, q : /\ m = Mem!GetUserByUsername(d, n) /\ o = Pg!GetUserByUsername(d, n)
                     /\ q = Pg!GetUserByUsername(t, n)
  OBVIOUS
<1>3. Return(m, o) /\ fresh' = fresh
  BY ONLY <1>1, <1>2, GetUserByUsername(n) DEF GetUserByUsername, Same, Held
<1>4. Step(t, q.db, f) /\ (backend = "memory" => Agree(m, q)) /\ (backend = "postgres" => o = q)
  BY ONLY <1>1, <1>2, GetUserByUsernameCall DEF Held
<1>5. StoreInv' /\ StayPut(PgView, PgView') /\ Answered(q)
  <2>1. Step(PgView, q.db, fresh)
    BY ONLY <1>1, <1>4 DEF Held
  <2> QED
    BY ONLY <1>3, <1>4, <2>1, StoreInv, SameStep
<1>6. AsPostgres!GetUserByUsername(n)
  <2>1. PICK w : w = AsPostgres!Mem!GetUserByUsername(t, n)
    OBVIOUS
  <2>2. AsPostgres!Pg!GetUserByUsername(t, n) = q
    BY ONLY <1>2, AsAccounts
  <2>3. AsPostgres!Return(w, q)
    BY ONLY <1>5, AsReturn
  <2> QED
    BY ONLY <1>1, <1>3, <2>1, <2>2, <2>3 DEF AsPostgres!GetUserByUsername, AsPostgres!Same,
       Held
<1> QED
  BY ONLY <1>5, <1>6

\* ListUsers.
LEMMA ListUsersStep ==
  ASSUME StoreInv, ListUsers
  PROVE  StoreInv' /\ StayPut(PgView, PgView') /\ AsPostgres!ListUsers
<1>1. PICK t, d, f : Held(t, d, f)
  BY ONLY StoreInv, Now
<1>2. PICK m, o, q : /\ m = Mem!ListUsers(d) /\ o = Pg!ListUsers(d)
                     /\ q = Pg!ListUsers(t)
  OBVIOUS
<1>3. Return(m, o) /\ fresh' = fresh
  BY ONLY <1>1, <1>2, ListUsers DEF ListUsers, Same, Held
<1>4. Step(t, q.db, f) /\ (backend = "memory" => Agree(m, q)) /\ (backend = "postgres" => o = q)
  BY ONLY <1>1, <1>2, ListUsersCall DEF Held
<1>5. StoreInv' /\ StayPut(PgView, PgView') /\ Answered(q)
  <2>1. Step(PgView, q.db, fresh)
    BY ONLY <1>1, <1>4 DEF Held
  <2> QED
    BY ONLY <1>3, <1>4, <2>1, StoreInv, SameStep
<1>6. AsPostgres!ListUsers
  <2>1. PICK w : w = AsPostgres!Mem!ListUsers(t)
    OBVIOUS
  <2>2. AsPostgres!Pg!ListUsers(t) = q
    BY ONLY <1>2, AsAccounts
  <2>3. AsPostgres!Return(w, q)
    BY ONLY <1>5, AsReturn
  <2> QED
    BY ONLY <1>1, <1>3, <2>1, <2>2, <2>3 DEF AsPostgres!ListUsers, AsPostgres!Same, Held
<1> QED
  BY ONLY <1>5, <1>6

\* UpdateUser.
LEMMA UpdateUserStep ==
  ASSUME StoreInv, NEW id, NEW disabled, NEW role, UpdateUser(id, disabled, role)
  PROVE  StoreInv' /\ StayPut(PgView, PgView') /\ AsPostgres!UpdateUser(id, disabled, role)
<1>1. PICK t, d, f : Held(t, d, f)
  BY ONLY StoreInv, Now
<1>2. PICK m, o, q : /\ m = Mem!UpdateUser(d, id, disabled, role)
                     /\ o = Pg!UpdateUser(d, id, disabled, role)
                     /\ q = Pg!UpdateUser(t, id, disabled, role)
  OBVIOUS
<1>3. Return(m, o) /\ fresh' = fresh
  BY ONLY <1>1, <1>2, UpdateUser(id, disabled, role) DEF UpdateUser, Same, Held
<1>4. Step(t, q.db, f) /\ (backend = "memory" => Agree(m, q)) /\ (backend = "postgres" => o = q)
  BY ONLY <1>1, <1>2, UpdateUserCall DEF Held
<1>5. StoreInv' /\ StayPut(PgView, PgView') /\ Answered(q)
  <2>1. Step(PgView, q.db, fresh)
    BY ONLY <1>1, <1>4 DEF Held
  <2> QED
    BY ONLY <1>3, <1>4, <2>1, StoreInv, SameStep
<1>6. AsPostgres!UpdateUser(id, disabled, role)
  <2>1. PICK w : w = AsPostgres!Mem!UpdateUser(t, id, disabled, role)
    OBVIOUS
  <2>2. AsPostgres!Pg!UpdateUser(t, id, disabled, role) = q
    BY ONLY <1>2, AsAccounts
  <2>3. AsPostgres!Return(w, q)
    BY ONLY <1>5, AsReturn
  <2> QED
    BY ONLY <1>1, <1>3, <2>1, <2>2, <2>3 DEF AsPostgres!UpdateUser, AsPostgres!Same, Held
<1> QED
  BY ONLY <1>5, <1>6

\* GetAgent.
LEMMA GetAgentStep ==
  ASSUME StoreInv, NEW id, GetAgent(id)
  PROVE  StoreInv' /\ StayPut(PgView, PgView') /\ AsPostgres!GetAgent(id)
<1>1. PICK t, d, f : Held(t, d, f)
  BY ONLY StoreInv, Now
<1>2. PICK m, o, q : /\ m = Mem!GetAgent(d, id) /\ o = Pg!GetAgent(d, id)
                     /\ q = Pg!GetAgent(t, id)
  OBVIOUS
<1>3. Return(m, o) /\ fresh' = fresh
  BY ONLY <1>1, <1>2, GetAgent(id) DEF GetAgent, Same, Held
<1>4. Step(t, q.db, f) /\ (backend = "memory" => Agree(m, q)) /\ (backend = "postgres" => o = q)
  BY ONLY <1>1, <1>2, GetAgentCall DEF Held
<1>5. StoreInv' /\ StayPut(PgView, PgView') /\ Answered(q)
  <2>1. Step(PgView, q.db, fresh)
    BY ONLY <1>1, <1>4 DEF Held
  <2> QED
    BY ONLY <1>3, <1>4, <2>1, StoreInv, SameStep
<1>6. AsPostgres!GetAgent(id)
  <2>1. PICK w : w = AsPostgres!Mem!GetAgent(t, id)
    OBVIOUS
  <2>2. AsPostgres!Pg!GetAgent(t, id) = q
    BY ONLY <1>2, AsAgents
  <2>3. AsPostgres!Return(w, q)
    BY ONLY <1>5, AsReturn
  <2> QED
    BY ONLY <1>1, <1>3, <2>1, <2>2, <2>3 DEF AsPostgres!GetAgent, AsPostgres!Same, Held
<1> QED
  BY ONLY <1>5, <1>6

\* ListAgents.
LEMMA ListAgentsStep ==
  ASSUME StoreInv, NEW u, ListAgents(u)
  PROVE  StoreInv' /\ StayPut(PgView, PgView') /\ AsPostgres!ListAgents(u)
<1>1. PICK t, d, f : Held(t, d, f)
  BY ONLY StoreInv, Now
<1>2. PICK m, o, q : /\ m = Mem!ListAgents(d, u) /\ o = Pg!ListAgents(d, u)
                     /\ q = Pg!ListAgents(t, u)
  OBVIOUS
<1>3. Return(m, o) /\ fresh' = fresh
  BY ONLY <1>1, <1>2, ListAgents(u) DEF ListAgents, Same, Held
<1>4. Step(t, q.db, f) /\ (backend = "memory" => Agree(m, q)) /\ (backend = "postgres" => o = q)
  BY ONLY <1>1, <1>2, ListAgentsCall DEF Held
<1>5. StoreInv' /\ StayPut(PgView, PgView') /\ Answered(q)
  <2>1. Step(PgView, q.db, fresh)
    BY ONLY <1>1, <1>4 DEF Held
  <2> QED
    BY ONLY <1>3, <1>4, <2>1, StoreInv, SameStep
<1>6. AsPostgres!ListAgents(u)
  <2>1. PICK w : w = AsPostgres!Mem!ListAgents(t, u)
    OBVIOUS
  <2>2. AsPostgres!Pg!ListAgents(t, u) = q
    BY ONLY <1>2, AsAgents
  <2>3. AsPostgres!Return(w, q)
    BY ONLY <1>5, AsReturn
  <2> QED
    BY ONLY <1>1, <1>3, <2>1, <2>2, <2>3 DEF AsPostgres!ListAgents, AsPostgres!Same, Held
<1> QED
  BY ONLY <1>5, <1>6

\* UpdateAgentState.
LEMMA UpdateAgentStateStep ==
  ASSUME StoreInv, NEW id, NEW s, UpdateAgentState(id, s)
  PROVE  StoreInv' /\ StayPut(PgView, PgView') /\ AsPostgres!UpdateAgentState(id, s)
<1>1. PICK t, d, f : Held(t, d, f)
  BY ONLY StoreInv, Now
<1>2. PICK m, o, q : /\ m = Mem!UpdateAgentState(d, id, s) /\ o = Pg!UpdateAgentState(d, id, s)
                     /\ q = Pg!UpdateAgentState(t, id, s)
  OBVIOUS
<1>3. Return(m, o) /\ fresh' = fresh
  BY ONLY <1>1, <1>2, UpdateAgentState(id, s) DEF UpdateAgentState, Same, Held
<1>4. Step(t, q.db, f) /\ (backend = "memory" => Agree(m, q)) /\ (backend = "postgres" => o = q)
  BY ONLY <1>1, <1>2, UpdateAgentStateCall DEF Held
<1>5. StoreInv' /\ StayPut(PgView, PgView') /\ Answered(q)
  <2>1. Step(PgView, q.db, fresh)
    BY ONLY <1>1, <1>4 DEF Held
  <2> QED
    BY ONLY <1>3, <1>4, <2>1, StoreInv, SameStep
<1>6. AsPostgres!UpdateAgentState(id, s)
  <2>1. PICK w : w = AsPostgres!Mem!UpdateAgentState(t, id, s)
    OBVIOUS
  <2>2. AsPostgres!Pg!UpdateAgentState(t, id, s) = q
    BY ONLY <1>2, AsAgents
  <2>3. AsPostgres!Return(w, q)
    BY ONLY <1>5, AsReturn
  <2> QED
    BY ONLY <1>1, <1>3, <2>1, <2>2, <2>3 DEF AsPostgres!UpdateAgentState, AsPostgres!Same, Held
<1> QED
  BY ONLY <1>5, <1>6

\* UpdateAgentError.
LEMMA UpdateAgentErrorStep ==
  ASSUME StoreInv, NEW id, NEW e, UpdateAgentError(id, e)
  PROVE  StoreInv' /\ StayPut(PgView, PgView') /\ AsPostgres!UpdateAgentError(id, e)
<1>1. PICK t, d, f : Held(t, d, f)
  BY ONLY StoreInv, Now
<1>2. PICK m, o, q : /\ m = Mem!UpdateAgentError(d, id, e) /\ o = Pg!UpdateAgentError(d, id, e)
                     /\ q = Pg!UpdateAgentError(t, id, e)
  OBVIOUS
<1>3. Return(m, o) /\ fresh' = fresh
  BY ONLY <1>1, <1>2, UpdateAgentError(id, e) DEF UpdateAgentError, Same, Held
<1>4. Step(t, q.db, f) /\ (backend = "memory" => Agree(m, q)) /\ (backend = "postgres" => o = q)
  BY ONLY <1>1, <1>2, UpdateAgentErrorCall DEF Held
<1>5. StoreInv' /\ StayPut(PgView, PgView') /\ Answered(q)
  <2>1. Step(PgView, q.db, fresh)
    BY ONLY <1>1, <1>4 DEF Held
  <2> QED
    BY ONLY <1>3, <1>4, <2>1, StoreInv, SameStep
<1>6. AsPostgres!UpdateAgentError(id, e)
  <2>1. PICK w : w = AsPostgres!Mem!UpdateAgentError(t, id, e)
    OBVIOUS
  <2>2. AsPostgres!Pg!UpdateAgentError(t, id, e) = q
    BY ONLY <1>2, AsAgents
  <2>3. AsPostgres!Return(w, q)
    BY ONLY <1>5, AsReturn
  <2> QED
    BY ONLY <1>1, <1>3, <2>1, <2>2, <2>3 DEF AsPostgres!UpdateAgentError, AsPostgres!Same, Held
<1> QED
  BY ONLY <1>5, <1>6

\* GetIntegrationConnection.
LEMMA GetIntegrationConnectionStep ==
  ASSUME StoreInv, NEW u, NEW p, GetIntegrationConnection(u, p)
  PROVE  StoreInv' /\ StayPut(PgView, PgView') /\ AsPostgres!GetIntegrationConnection(u, p)
<1>1. PICK t, d, f : Held(t, d, f)
  BY ONLY StoreInv, Now
<1>2. PICK m, o, q : /\ m = Mem!GetIntegrationConnection(d, u, p)
                     /\ o = Pg!GetIntegrationConnection(d, u, p)
                     /\ q = Pg!GetIntegrationConnection(t, u, p)
  OBVIOUS
<1>3. Return(m, o) /\ fresh' = fresh
  BY ONLY <1>1, <1>2, GetIntegrationConnection(u, p) DEF GetIntegrationConnection, Same, Held
<1>4. Step(t, q.db, f) /\ (backend = "memory" => Agree(m, q)) /\ (backend = "postgres" => o = q)
  BY ONLY <1>1, <1>2, GetIntegrationConnectionCall DEF Held
<1>5. StoreInv' /\ StayPut(PgView, PgView') /\ Answered(q)
  <2>1. Step(PgView, q.db, fresh)
    BY ONLY <1>1, <1>4 DEF Held
  <2> QED
    BY ONLY <1>3, <1>4, <2>1, StoreInv, SameStep
<1>6. AsPostgres!GetIntegrationConnection(u, p)
  <2>1. PICK w : w = AsPostgres!Mem!GetIntegrationConnection(t, u, p)
    OBVIOUS
  <2>2. AsPostgres!Pg!GetIntegrationConnection(t, u, p) = q
    BY ONLY <1>2, AsIntegrations
  <2>3. AsPostgres!Return(w, q)
    BY ONLY <1>5, AsReturn
  <2> QED
    BY ONLY <1>1, <1>3, <2>1, <2>2, <2>3 DEF AsPostgres!GetIntegrationConnection,
       AsPostgres!Same, Held
<1> QED
  BY ONLY <1>5, <1>6

\* ListUserIntegrationProviderIDs.
LEMMA ListUserIntegrationProviderIDsStep ==
  ASSUME StoreInv, NEW u, ListUserIntegrationProviderIDs(u)
  PROVE  StoreInv' /\ StayPut(PgView, PgView') /\ AsPostgres!ListUserIntegrationProviderIDs(u)
<1>1. PICK t, d, f : Held(t, d, f)
  BY ONLY StoreInv, Now
<1>2. PICK m, o, q : /\ m = Mem!ListUserIntegrationProviderIDs(d, u)
                     /\ o = Pg!ListUserIntegrationProviderIDs(d, u)
                     /\ q = Pg!ListUserIntegrationProviderIDs(t, u)
  OBVIOUS
<1>3. Return(m, o) /\ fresh' = fresh
  BY ONLY <1>1, <1>2, ListUserIntegrationProviderIDs(u) DEF ListUserIntegrationProviderIDs,
     Same, Held
<1>4. Step(t, q.db, f) /\ (backend = "memory" => Agree(m, q)) /\ (backend = "postgres" => o = q)
  BY ONLY <1>1, <1>2, ListUserIntegrationProviderIDsCall DEF Held
<1>5. StoreInv' /\ StayPut(PgView, PgView') /\ Answered(q)
  <2>1. Step(PgView, q.db, fresh)
    BY ONLY <1>1, <1>4 DEF Held
  <2> QED
    BY ONLY <1>3, <1>4, <2>1, StoreInv, SameStep
<1>6. AsPostgres!ListUserIntegrationProviderIDs(u)
  <2>1. PICK w : w = AsPostgres!Mem!ListUserIntegrationProviderIDs(t, u)
    OBVIOUS
  <2>2. AsPostgres!Pg!ListUserIntegrationProviderIDs(t, u) = q
    BY ONLY <1>2, AsIntegrations
  <2>3. AsPostgres!Return(w, q)
    BY ONLY <1>5, AsReturn
  <2> QED
    BY ONLY <1>1, <1>3, <2>1, <2>2, <2>3 DEF AsPostgres!ListUserIntegrationProviderIDs,
       AsPostgres!Same, Held
<1> QED
  BY ONLY <1>5, <1>6

\* ListAgentIntegrations.
LEMMA ListAgentIntegrationsStep ==
  ASSUME StoreInv, NEW a, ListAgentIntegrations(a)
  PROVE  StoreInv' /\ StayPut(PgView, PgView') /\ AsPostgres!ListAgentIntegrations(a)
<1>1. PICK t, d, f : Held(t, d, f)
  BY ONLY StoreInv, Now
<1>2. PICK m, o, q : /\ m = Mem!ListAgentIntegrations(d, a) /\ o = Pg!ListAgentIntegrations(d, a)
                     /\ q = Pg!ListAgentIntegrations(t, a)
  OBVIOUS
<1>3. Return(m, o) /\ fresh' = fresh
  BY ONLY <1>1, <1>2, ListAgentIntegrations(a) DEF ListAgentIntegrations, Same, Held
<1>4. Step(t, q.db, f) /\ (backend = "memory" => Agree(m, q)) /\ (backend = "postgres" => o = q)
  BY ONLY <1>1, <1>2, ListAgentIntegrationsCall DEF Held
<1>5. StoreInv' /\ StayPut(PgView, PgView') /\ Answered(q)
  <2>1. Step(PgView, q.db, fresh)
    BY ONLY <1>1, <1>4 DEF Held
  <2> QED
    BY ONLY <1>3, <1>4, <2>1, StoreInv, SameStep
<1>6. AsPostgres!ListAgentIntegrations(a)
  <2>1. PICK w : w = AsPostgres!Mem!ListAgentIntegrations(t, a)
    OBVIOUS
  <2>2. AsPostgres!Pg!ListAgentIntegrations(t, a) = q
    BY ONLY <1>2, AsIntegrations
  <2>3. AsPostgres!Return(w, q)
    BY ONLY <1>5, AsReturn
  <2> QED
    BY ONLY <1>1, <1>3, <2>1, <2>2, <2>3 DEF AsPostgres!ListAgentIntegrations, AsPostgres!Same,
       Held
<1> QED
  BY ONLY <1>5, <1>6

\* GetAgentIntegration.
LEMMA GetAgentIntegrationStep ==
  ASSUME StoreInv, NEW a, NEW p, GetAgentIntegration(a, p)
  PROVE  StoreInv' /\ StayPut(PgView, PgView') /\ AsPostgres!GetAgentIntegration(a, p)
<1>1. PICK t, d, f : Held(t, d, f)
  BY ONLY StoreInv, Now
<1>2. PICK m, o, q : /\ m = Mem!GetAgentIntegration(d, a, p)
                     /\ o = Pg!GetAgentIntegration(d, a, p)
                     /\ q = Pg!GetAgentIntegration(t, a, p)
  OBVIOUS
<1>3. Return(m, o) /\ fresh' = fresh
  BY ONLY <1>1, <1>2, GetAgentIntegration(a, p) DEF GetAgentIntegration, Same, Held
<1>4. Step(t, q.db, f) /\ (backend = "memory" => Agree(m, q)) /\ (backend = "postgres" => o = q)
  BY ONLY <1>1, <1>2, GetAgentIntegrationCall DEF Held
<1>5. StoreInv' /\ StayPut(PgView, PgView') /\ Answered(q)
  <2>1. Step(PgView, q.db, fresh)
    BY ONLY <1>1, <1>4 DEF Held
  <2> QED
    BY ONLY <1>3, <1>4, <2>1, StoreInv, SameStep
<1>6. AsPostgres!GetAgentIntegration(a, p)
  <2>1. PICK w : w = AsPostgres!Mem!GetAgentIntegration(t, a, p)
    OBVIOUS
  <2>2. AsPostgres!Pg!GetAgentIntegration(t, a, p) = q
    BY ONLY <1>2, AsIntegrations
  <2>3. AsPostgres!Return(w, q)
    BY ONLY <1>5, AsReturn
  <2> QED
    BY ONLY <1>1, <1>3, <2>1, <2>2, <2>3 DEF AsPostgres!GetAgentIntegration, AsPostgres!Same,
       Held
<1> QED
  BY ONLY <1>5, <1>6

\* GetLLMModel.
LEMMA GetLLMModelStep ==
  ASSUME StoreInv, NEW id, GetLLMModel(id)
  PROVE  StoreInv' /\ StayPut(PgView, PgView') /\ AsPostgres!GetLLMModel(id)
<1>1. PICK t, d, f : Held(t, d, f)
  BY ONLY StoreInv, Now
<1>2. PICK m, o, q : /\ m = Mem!GetLLMModel(d, id) /\ o = Pg!GetLLMModel(d, id)
                     /\ q = Pg!GetLLMModel(t, id)
  OBVIOUS
<1>3. Return(m, o) /\ fresh' = fresh
  BY ONLY <1>1, <1>2, GetLLMModel(id) DEF GetLLMModel, Same, Held
<1>4. Step(t, q.db, f) /\ (backend = "memory" => Agree(m, q)) /\ (backend = "postgres" => o = q)
  BY ONLY <1>1, <1>2, GetLLMModelCall DEF Held
<1>5. StoreInv' /\ StayPut(PgView, PgView') /\ Answered(q)
  <2>1. Step(PgView, q.db, fresh)
    BY ONLY <1>1, <1>4 DEF Held
  <2> QED
    BY ONLY <1>3, <1>4, <2>1, StoreInv, SameStep
<1>6. AsPostgres!GetLLMModel(id)
  <2>1. PICK w : w = AsPostgres!Mem!GetLLMModel(t, id)
    OBVIOUS
  <2>2. AsPostgres!Pg!GetLLMModel(t, id) = q
    BY ONLY <1>2, AsModels
  <2>3. AsPostgres!Return(w, q)
    BY ONLY <1>5, AsReturn
  <2> QED
    BY ONLY <1>1, <1>3, <2>1, <2>2, <2>3 DEF AsPostgres!GetLLMModel, AsPostgres!Same, Held
<1> QED
  BY ONLY <1>5, <1>6

\* ListLLMModels.
LEMMA ListLLMModelsStep ==
  ASSUME StoreInv, ListLLMModels
  PROVE  StoreInv' /\ StayPut(PgView, PgView') /\ AsPostgres!ListLLMModels
<1>1. PICK t, d, f : Held(t, d, f)
  BY ONLY StoreInv, Now
<1>2. PICK m, o, q : /\ m = Mem!ListLLMModels(d) /\ o = Pg!ListLLMModels(d)
                     /\ q = Pg!ListLLMModels(t)
  OBVIOUS
<1>3. Return(m, o) /\ fresh' = fresh
  BY ONLY <1>1, <1>2, ListLLMModels DEF ListLLMModels, Same, Held
<1>4. Step(t, q.db, f) /\ (backend = "memory" => Agree(m, q)) /\ (backend = "postgres" => o = q)
  BY ONLY <1>1, <1>2, ListLLMModelsCall DEF Held
<1>5. StoreInv' /\ StayPut(PgView, PgView') /\ Answered(q)
  <2>1. Step(PgView, q.db, fresh)
    BY ONLY <1>1, <1>4 DEF Held
  <2> QED
    BY ONLY <1>3, <1>4, <2>1, StoreInv, SameStep
<1>6. AsPostgres!ListLLMModels
  <2>1. PICK w : w = AsPostgres!Mem!ListLLMModels(t)
    OBVIOUS
  <2>2. AsPostgres!Pg!ListLLMModels(t) = q
    BY ONLY <1>2, AsModels
  <2>3. AsPostgres!Return(w, q)
    BY ONLY <1>5, AsReturn
  <2> QED
    BY ONLY <1>1, <1>3, <2>1, <2>2, <2>3 DEF AsPostgres!ListLLMModels, AsPostgres!Same, Held
<1> QED
  BY ONLY <1>5, <1>6

\* UpdateLLMModel.
LEMMA UpdateLLMModelStep ==
  ASSUME StoreInv, NEW id, NEW display, NEW p, NEW e, UpdateLLMModel(id, display, p, e)
  PROVE  StoreInv' /\ StayPut(PgView, PgView') /\ AsPostgres!UpdateLLMModel(id, display, p, e)
<1>1. PICK t, d, f : Held(t, d, f)
  BY ONLY StoreInv, Now
<1>2. PICK m, o, q : /\ m = Mem!UpdateLLMModel(d, id, display, p, e)
                     /\ o = Pg!UpdateLLMModel(d, id, display, p, e)
                     /\ q = Pg!UpdateLLMModel(t, id, display, p, e)
  OBVIOUS
<1>3. Return(m, o) /\ fresh' = fresh
  BY ONLY <1>1, <1>2, UpdateLLMModel(id, display, p, e) DEF UpdateLLMModel, Same, Held
<1>4. Step(t, q.db, f) /\ (backend = "memory" => Agree(m, q)) /\ (backend = "postgres" => o = q)
  BY ONLY <1>1, <1>2, UpdateLLMModelCall DEF Held
<1>5. StoreInv' /\ StayPut(PgView, PgView') /\ Answered(q)
  <2>1. Step(PgView, q.db, fresh)
    BY ONLY <1>1, <1>4 DEF Held
  <2> QED
    BY ONLY <1>3, <1>4, <2>1, StoreInv, SameStep
<1>6. AsPostgres!UpdateLLMModel(id, display, p, e)
  <2>1. PICK w : w = AsPostgres!Mem!UpdateLLMModel(t, id, display, p, e)
    OBVIOUS
  <2>2. AsPostgres!Pg!UpdateLLMModel(t, id, display, p, e) = q
    BY ONLY <1>2, AsModels
  <2>3. AsPostgres!Return(w, q)
    BY ONLY <1>5, AsReturn
  <2> QED
    BY ONLY <1>1, <1>3, <2>1, <2>2, <2>3 DEF AsPostgres!UpdateLLMModel, AsPostgres!Same, Held
<1> QED
  BY ONLY <1>5, <1>6

\* GetLLMGatewaySettings.
LEMMA GetLLMGatewaySettingsStep ==
  ASSUME StoreInv, GetLLMGatewaySettings
  PROVE  StoreInv' /\ StayPut(PgView, PgView') /\ AsPostgres!GetLLMGatewaySettings
<1>1. PICK t, d, f : Held(t, d, f)
  BY ONLY StoreInv, Now
<1>2. PICK m, o, q : /\ m = Mem!GetLLMGatewaySettings(d) /\ o = Pg!GetLLMGatewaySettings(d)
                     /\ q = Pg!GetLLMGatewaySettings(t)
  OBVIOUS
<1>3. Return(m, o) /\ fresh' = fresh
  BY ONLY <1>1, <1>2, GetLLMGatewaySettings DEF GetLLMGatewaySettings, Same, Held
<1>4. Step(t, q.db, f) /\ (backend = "memory" => Agree(m, q)) /\ (backend = "postgres" => o = q)
  BY ONLY <1>1, <1>2, GetLLMGatewaySettingsCall DEF Held
<1>5. StoreInv' /\ StayPut(PgView, PgView') /\ Answered(q)
  <2>1. Step(PgView, q.db, fresh)
    BY ONLY <1>1, <1>4 DEF Held
  <2> QED
    BY ONLY <1>3, <1>4, <2>1, StoreInv, SameStep
<1>6. AsPostgres!GetLLMGatewaySettings
  <2>1. PICK w : w = AsPostgres!Mem!GetLLMGatewaySettings(t)
    OBVIOUS
  <2>2. AsPostgres!Pg!GetLLMGatewaySettings(t) = q
    BY ONLY <1>2, AsModels
  <2>3. AsPostgres!Return(w, q)
    BY ONLY <1>5, AsReturn
  <2> QED
    BY ONLY <1>1, <1>3, <2>1, <2>2, <2>3 DEF AsPostgres!GetLLMGatewaySettings, AsPostgres!Same,
       Held
<1> QED
  BY ONLY <1>5, <1>6

\* ListPluginManifests.
LEMMA ListPluginManifestsStep ==
  ASSUME StoreInv, NEW b, ListPluginManifests(b)
  PROVE  StoreInv' /\ StayPut(PgView, PgView') /\ AsPostgres!ListPluginManifests(b)
<1>1. PICK t, d, f : Held(t, d, f)
  BY ONLY StoreInv, Now
<1>2. PICK m, o, q : /\ m = Mem!ListPluginManifests(d, b) /\ o = Pg!ListPluginManifests(d, b)
                     /\ q = Pg!ListPluginManifests(t, b)
  OBVIOUS
<1>3. Return(m, o) /\ fresh' = fresh
  BY ONLY <1>1, <1>2, ListPluginManifests(b) DEF ListPluginManifests, Same, Held
<1>4. Step(t, q.db, f) /\ (backend = "memory" => Agree(m, q)) /\ (backend = "postgres" => o = q)
  BY ONLY <1>1, <1>2, ListPluginManifestsCall DEF Held
<1>5. StoreInv' /\ StayPut(PgView, PgView') /\ Answered(q)
  <2>1. Step(PgView, q.db, fresh)
    BY ONLY <1>1, <1>4 DEF Held
  <2> QED
    BY ONLY <1>3, <1>4, <2>1, StoreInv, SameStep
<1>6. AsPostgres!ListPluginManifests(b)
  <2>1. PICK w : w = AsPostgres!Mem!ListPluginManifests(t, b)
    OBVIOUS
  <2>2. AsPostgres!Pg!ListPluginManifests(t, b) = q
    BY ONLY <1>2, AsManifests
  <2>3. AsPostgres!Return(w, q)
    BY ONLY <1>5, AsReturn
  <2> QED
    BY ONLY <1>1, <1>3, <2>1, <2>2, <2>3 DEF AsPostgres!ListPluginManifests, AsPostgres!Same,
       Held
<1> QED
  BY ONLY <1>5, <1>6

\* GetPluginManifest.
LEMMA GetPluginManifestStep ==
  ASSUME StoreInv, NEW id, id \in PluginIds, GetPluginManifest(id)
  PROVE  StoreInv' /\ StayPut(PgView, PgView') /\ AsPostgres!GetPluginManifest(id)
<1>1. PICK t, d, f : Held(t, d, f)
  BY ONLY StoreInv, Now
<1>2. PICK m, o, q : /\ m = Mem!GetPluginManifest(d, id) /\ o = Pg!GetPluginManifest(d, id)
                     /\ q = Pg!GetPluginManifest(t, id)
  OBVIOUS
<1>3. Return(m, o) /\ fresh' = fresh
  BY ONLY <1>1, <1>2, GetPluginManifest(id) DEF GetPluginManifest, Same, Held
<1>4. Step(t, q.db, f) /\ (backend = "memory" => Agree(m, q)) /\ (backend = "postgres" => o = q)
  BY ONLY <1>1, <1>2, id \in PluginIds, GetPluginManifestCall DEF Held
<1>5. StoreInv' /\ StayPut(PgView, PgView') /\ Answered(q)
  <2>1. Step(PgView, q.db, fresh)
    BY ONLY <1>1, <1>4 DEF Held
  <2> QED
    BY ONLY <1>3, <1>4, <2>1, StoreInv, SameStep
<1>6. AsPostgres!GetPluginManifest(id)
  <2>1. PICK w : w = AsPostgres!Mem!GetPluginManifest(t, id)
    OBVIOUS
  <2>2. AsPostgres!Pg!GetPluginManifest(t, id) = q
    BY ONLY <1>2, AsManifests
  <2>3. AsPostgres!Return(w, q)
    BY ONLY <1>5, AsReturn
  <2> QED
    BY ONLY <1>1, <1>3, <2>1, <2>2, <2>3 DEF AsPostgres!GetPluginManifest, AsPostgres!Same,
       Held
<1> QED
  BY ONLY <1>5, <1>6

\* UpsertPluginManifest.
LEMMA UpsertPluginManifestStep ==
  ASSUME StoreInv, NEW id, NEW y, NEW e, id \in PluginIds, y \in Yamls, e \in BOOLEAN, UpsertPluginManifest(id, y, e)
  PROVE  StoreInv' /\ StayPut(PgView, PgView') /\ AsPostgres!UpsertPluginManifest(id, y, e)
<1>1. PICK t, d, f : Held(t, d, f)
  BY ONLY StoreInv, Now
<1>2. PICK m, o, q : /\ m = Mem!UpsertPluginManifest(d, id, y, e)
                     /\ o = Pg!UpsertPluginManifest(d, id, y, e)
                     /\ q = Pg!UpsertPluginManifest(t, id, y, e)
  OBVIOUS
<1>3. Return(m, o) /\ fresh' = fresh
  BY ONLY <1>1, <1>2, UpsertPluginManifest(id, y, e) DEF UpsertPluginManifest, Same, Held
<1>4. Step(t, q.db, f) /\ (backend = "memory" => Agree(m, q)) /\ (backend = "postgres" => o = q)
  BY ONLY <1>1, <1>2, id \in PluginIds, y \in Yamls, e \in BOOLEAN, UpsertPluginManifestCall
     DEF Held
<1>5. StoreInv' /\ StayPut(PgView, PgView') /\ Answered(q)
  <2>1. Step(PgView, q.db, fresh)
    BY ONLY <1>1, <1>4 DEF Held
  <2> QED
    BY ONLY <1>3, <1>4, <2>1, StoreInv, SameStep
<1>6. AsPostgres!UpsertPluginManifest(id, y, e)
  <2>1. PICK w : w = AsPostgres!Mem!UpsertPluginManifest(t, id, y, e)
    OBVIOUS
  <2>2. AsPostgres!Pg!UpsertPluginManifest(t, id, y, e) = q
    BY ONLY <1>2, AsManifests
  <2>3. AsPostgres!Return(w, q)
    BY ONLY <1>5, AsReturn
  <2> QED
    BY ONLY <1>1, <1>3, <2>1, <2>2, <2>3 DEF AsPostgres!UpsertPluginManifest, AsPostgres!Same,
       Held
<1> QED
  BY ONLY <1>5, <1>6

\* DeletePluginManifest.
LEMMA DeletePluginManifestStep ==
  ASSUME StoreInv, NEW id, id \in PluginIds, DeletePluginManifest(id)
  PROVE  StoreInv' /\ StayPut(PgView, PgView') /\ AsPostgres!DeletePluginManifest(id)
<1>1. PICK t, d, f : Held(t, d, f)
  BY ONLY StoreInv, Now
<1>2. PICK m, o, q : /\ m = Mem!DeletePluginManifest(d, id) /\ o = Pg!DeletePluginManifest(d, id)
                     /\ q = Pg!DeletePluginManifest(t, id)
  OBVIOUS
<1>3. Return(m, o) /\ fresh' = fresh
  BY ONLY <1>1, <1>2, DeletePluginManifest(id) DEF DeletePluginManifest, Same, Held
<1>4. Step(t, q.db, f) /\ (backend = "memory" => Agree(m, q)) /\ (backend = "postgres" => o = q)
  BY ONLY <1>1, <1>2, id \in PluginIds, DeletePluginManifestCall DEF Held
<1>5. StoreInv' /\ StayPut(PgView, PgView') /\ Answered(q)
  <2>1. Step(PgView, q.db, fresh)
    BY ONLY <1>1, <1>4 DEF Held
  <2> QED
    BY ONLY <1>3, <1>4, <2>1, StoreInv, SameStep
<1>6. AsPostgres!DeletePluginManifest(id)
  <2>1. PICK w : w = AsPostgres!Mem!DeletePluginManifest(t, id)
    OBVIOUS
  <2>2. AsPostgres!Pg!DeletePluginManifest(t, id) = q
    BY ONLY <1>2, AsManifests
  <2>3. AsPostgres!Return(w, q)
    BY ONLY <1>5, AsReturn
  <2> QED
    BY ONLY <1>1, <1>3, <2>1, <2>2, <2>3 DEF AsPostgres!DeletePluginManifest, AsPostgres!Same,
       Held
<1> QED
  BY ONLY <1>5, <1>6

\* GetUserIDByIdentity.
LEMMA GetUserIDByIdentityStep ==
  ASSUME StoreInv, NEW p, NEW s, GetUserIDByIdentity(p, s)
  PROVE  StoreInv' /\ StayPut(PgView, PgView') /\ AsPostgres!GetUserIDByIdentity(p, s)
<1>1. PICK t, d, f : Held(t, d, f)
  BY ONLY StoreInv, Now
<1>2. PICK m, o, q : /\ m = Mem!GetUserIDByIdentity(d, p, s)
                     /\ o = Pg!GetUserIDByIdentity(d, p, s)
                     /\ q = Pg!GetUserIDByIdentity(t, p, s)
  OBVIOUS
<1>3. Return(m, o) /\ fresh' = fresh
  BY ONLY <1>1, <1>2, GetUserIDByIdentity(p, s) DEF GetUserIDByIdentity, Same, Held
<1>4. Step(t, q.db, f) /\ (backend = "memory" => Agree(m, q)) /\ (backend = "postgres" => o = q)
  BY ONLY <1>1, <1>2, GetUserIDByIdentityCall DEF Held
<1>5. StoreInv' /\ StayPut(PgView, PgView') /\ Answered(q)
  <2>1. Step(PgView, q.db, fresh)
    BY ONLY <1>1, <1>4 DEF Held
  <2> QED
    BY ONLY <1>3, <1>4, <2>1, StoreInv, SameStep
<1>6. AsPostgres!GetUserIDByIdentity(p, s)
  <2>1. PICK w : w = AsPostgres!Mem!GetUserIDByIdentity(t, p, s)
    OBVIOUS
  <2>2. AsPostgres!Pg!GetUserIDByIdentity(t, p, s) = q
    BY ONLY <1>2, AsIdentities
  <2>3. AsPostgres!Return(w, q)
    BY ONLY <1>5, AsReturn
  <2> QED
    BY ONLY <1>1, <1>3, <2>1, <2>2, <2>3 DEF AsPostgres!GetUserIDByIdentity, AsPostgres!Same,
       Held
<1> QED
  BY ONLY <1>5, <1>6

\* TouchIdentityLogin.
LEMMA TouchIdentityLoginStep ==
  ASSUME StoreInv, NEW p, NEW s, TouchIdentityLogin(p, s)
  PROVE  StoreInv' /\ StayPut(PgView, PgView') /\ AsPostgres!TouchIdentityLogin(p, s)
<1>1. PICK t, d, f : Held(t, d, f)
  BY ONLY StoreInv, Now
<1>2. PICK m, o, q : /\ m = Mem!TouchIdentityLogin(d, p, s) /\ o = Pg!TouchIdentityLogin(d, p, s)
                     /\ q = Pg!TouchIdentityLogin(t, p, s)
  OBVIOUS
<1>3. Return(m, o) /\ fresh' = fresh
  BY ONLY <1>1, <1>2, TouchIdentityLogin(p, s) DEF TouchIdentityLogin, Same, Held
<1>4. Step(t, q.db, f) /\ (backend = "memory" => Agree(m, q)) /\ (backend = "postgres" => o = q)
  BY ONLY <1>1, <1>2, TouchIdentityLoginCall DEF Held
<1>5. StoreInv' /\ StayPut(PgView, PgView') /\ Answered(q)
  <2>1. Step(PgView, q.db, fresh)
    BY ONLY <1>1, <1>4 DEF Held
  <2> QED
    BY ONLY <1>3, <1>4, <2>1, StoreInv, SameStep
<1>6. AsPostgres!TouchIdentityLogin(p, s)
  <2>1. PICK w : w = AsPostgres!Mem!TouchIdentityLogin(t, p, s)
    OBVIOUS
  <2>2. AsPostgres!Pg!TouchIdentityLogin(t, p, s) = q
    BY ONLY <1>2, AsIdentities
  <2>3. AsPostgres!Return(w, q)
    BY ONLY <1>5, AsReturn
  <2> QED
    BY ONLY <1>1, <1>3, <2>1, <2>2, <2>3 DEF AsPostgres!TouchIdentityLogin, AsPostgres!Same,
       Held
<1> QED
  BY ONLY <1>5, <1>6

\* LinkIdentityToUser.
LEMMA LinkIdentityToUserStep ==
  ASSUME StoreInv, NEW u, NEW p, NEW s, LinkIdentityToUser(u, p, s)
  PROVE  StoreInv' /\ StayPut(PgView, PgView') /\ AsPostgres!LinkIdentityToUser(u, p, s)
<1>1. PICK t, d, f : Held(t, d, f)
  BY ONLY StoreInv, Now
<1>2. PICK m, o, q : /\ m = Mem!LinkIdentityToUser(d, u, p, s)
                     /\ o = Pg!LinkIdentityToUser(d, u, p, s)
                     /\ q = Pg!LinkIdentityToUser(t, u, p, s)
  OBVIOUS
<1>3. Return(m, o) /\ fresh' = fresh
  BY ONLY <1>1, <1>2, LinkIdentityToUser(u, p, s) DEF LinkIdentityToUser, Same, Held
<1>4. Step(t, q.db, f) /\ (backend = "memory" => Agree(m, q)) /\ (backend = "postgres" => o = q)
  BY ONLY <1>1, <1>2, LinkIdentityToUserCall DEF Held
<1>5. StoreInv' /\ StayPut(PgView, PgView') /\ Answered(q)
  <2>1. Step(PgView, q.db, fresh)
    BY ONLY <1>1, <1>4 DEF Held
  <2> QED
    BY ONLY <1>3, <1>4, <2>1, StoreInv, SameStep
<1>6. AsPostgres!LinkIdentityToUser(u, p, s)
  <2>1. PICK w : w = AsPostgres!Mem!LinkIdentityToUser(t, u, p, s)
    OBVIOUS
  <2>2. AsPostgres!Pg!LinkIdentityToUser(t, u, p, s) = q
    BY ONLY <1>2, AsIdentities
  <2>3. AsPostgres!Return(w, q)
    BY ONLY <1>5, AsReturn
  <2> QED
    BY ONLY <1>1, <1>3, <2>1, <2>2, <2>3 DEF AsPostgres!LinkIdentityToUser, AsPostgres!Same,
       Held
<1> QED
  BY ONLY <1>5, <1>6

\* ListUserIdentities.
LEMMA ListUserIdentitiesStep ==
  ASSUME StoreInv, NEW u, ListUserIdentities(u)
  PROVE  StoreInv' /\ StayPut(PgView, PgView') /\ AsPostgres!ListUserIdentities(u)
<1>1. PICK t, d, f : Held(t, d, f)
  BY ONLY StoreInv, Now
<1>2. PICK m, o, q : /\ m = Mem!ListUserIdentities(d, u) /\ o = Pg!ListUserIdentities(d, u)
                     /\ q = Pg!ListUserIdentities(t, u)
  OBVIOUS
<1>3. Return(m, o) /\ fresh' = fresh
  BY ONLY <1>1, <1>2, ListUserIdentities(u) DEF ListUserIdentities, Same, Held
<1>4. Step(t, q.db, f) /\ (backend = "memory" => Agree(m, q)) /\ (backend = "postgres" => o = q)
  BY ONLY <1>1, <1>2, ListUserIdentitiesCall DEF Held
<1>5. StoreInv' /\ StayPut(PgView, PgView') /\ Answered(q)
  <2>1. Step(PgView, q.db, fresh)
    BY ONLY <1>1, <1>4 DEF Held
  <2> QED
    BY ONLY <1>3, <1>4, <2>1, StoreInv, SameStep
<1>6. AsPostgres!ListUserIdentities(u)
  <2>1. PICK w : w = AsPostgres!Mem!ListUserIdentities(t, u)
    OBVIOUS
  <2>2. AsPostgres!Pg!ListUserIdentities(t, u) = q
    BY ONLY <1>2, AsIdentities
  <2>3. AsPostgres!Return(w, q)
    BY ONLY <1>5, AsReturn
  <2> QED
    BY ONLY <1>1, <1>3, <2>1, <2>2, <2>3 DEF AsPostgres!ListUserIdentities, AsPostgres!Same,
       Held
<1> QED
  BY ONLY <1>5, <1>6

\* UnlinkIdentity.
LEMMA UnlinkIdentityStep ==
  ASSUME StoreInv, NEW u, NEW p, NEW s, UnlinkIdentity(u, p, s)
  PROVE  StoreInv' /\ StayPut(PgView, PgView') /\ AsPostgres!UnlinkIdentity(u, p, s)
<1>1. PICK t, d, f : Held(t, d, f)
  BY ONLY StoreInv, Now
<1>2. PICK m, o, q : /\ m = Mem!UnlinkIdentity(d, u, p, s) /\ o = Pg!UnlinkIdentity(d, u, p, s)
                     /\ q = Pg!UnlinkIdentity(t, u, p, s)
  OBVIOUS
<1>3. Return(m, o) /\ fresh' = fresh
  BY ONLY <1>1, <1>2, UnlinkIdentity(u, p, s) DEF UnlinkIdentity, Same, Held
<1>4. Step(t, q.db, f) /\ (backend = "memory" => Agree(m, q)) /\ (backend = "postgres" => o = q)
  BY ONLY <1>1, <1>2, UnlinkIdentityCall DEF Held
<1>5. StoreInv' /\ StayPut(PgView, PgView') /\ Answered(q)
  <2>1. Step(PgView, q.db, fresh)
    BY ONLY <1>1, <1>4 DEF Held
  <2> QED
    BY ONLY <1>3, <1>4, <2>1, StoreInv, SameStep
<1>6. AsPostgres!UnlinkIdentity(u, p, s)
  <2>1. PICK w : w = AsPostgres!Mem!UnlinkIdentity(t, u, p, s)
    OBVIOUS
  <2>2. AsPostgres!Pg!UnlinkIdentity(t, u, p, s) = q
    BY ONLY <1>2, AsIdentities
  <2>3. AsPostgres!Return(w, q)
    BY ONLY <1>5, AsReturn
  <2> QED
    BY ONLY <1>1, <1>3, <2>1, <2>2, <2>3 DEF AsPostgres!UnlinkIdentity, AsPostgres!Same, Held
<1> QED
  BY ONLY <1>5, <1>6

\* GetAppSetting.
LEMMA GetAppSettingStep ==
  ASSUME StoreInv, NEW k, k \in Keys, GetAppSetting(k)
  PROVE  StoreInv' /\ StayPut(PgView, PgView') /\ AsPostgres!GetAppSetting(k)
<1>1. PICK t, d, f : Held(t, d, f)
  BY ONLY StoreInv, Now
<1>2. PICK m, o, q : /\ m = Mem!GetAppSetting(d, k) /\ o = Pg!GetAppSetting(d, k)
                     /\ q = Pg!GetAppSetting(t, k)
  OBVIOUS
<1>3. Return(m, o) /\ fresh' = fresh
  BY ONLY <1>1, <1>2, GetAppSetting(k) DEF GetAppSetting, Same, Held
<1>4. Step(t, q.db, f) /\ (backend = "memory" => Agree(m, q)) /\ (backend = "postgres" => o = q)
  BY ONLY <1>1, <1>2, k \in Keys, GetAppSettingCall DEF Held
<1>5. StoreInv' /\ StayPut(PgView, PgView') /\ Answered(q)
  <2>1. Step(PgView, q.db, fresh)
    BY ONLY <1>1, <1>4 DEF Held
  <2> QED
    BY ONLY <1>3, <1>4, <2>1, StoreInv, SameStep
<1>6. AsPostgres!GetAppSetting(k)
  <2>1. PICK w : w = AsPostgres!Mem!GetAppSetting(t, k)
    OBVIOUS
  <2>2. AsPostgres!Pg!GetAppSetting(t, k) = q
    BY ONLY <1>2, AsIdentities
  <2>3. AsPostgres!Return(w, q)
    BY ONLY <1>5, AsReturn
  <2> QED
    BY ONLY <1>1, <1>3, <2>1, <2>2, <2>3 DEF AsPostgres!GetAppSetting, AsPostgres!Same, Held
<1> QED
  BY ONLY <1>5, <1>6

\* SetAppSetting.
LEMMA SetAppSettingStep ==
  ASSUME StoreInv, NEW k, NEW v, k \in Keys, v # "", SetAppSetting(k, v)
  PROVE  StoreInv' /\ StayPut(PgView, PgView') /\ AsPostgres!SetAppSetting(k, v)
<1>1. PICK t, d, f : Held(t, d, f)
  BY ONLY StoreInv, Now
<1>2. PICK m, o, q : /\ m = Mem!SetAppSetting(d, k, v) /\ o = Pg!SetAppSetting(d, k, v)
                     /\ q = Pg!SetAppSetting(t, k, v)
  OBVIOUS
<1>3. Return(m, o) /\ fresh' = fresh
  BY ONLY <1>1, <1>2, SetAppSetting(k, v) DEF SetAppSetting, Same, Held
<1>4. Step(t, q.db, f) /\ (backend = "memory" => Agree(m, q)) /\ (backend = "postgres" => o = q)
  BY ONLY <1>1, <1>2, k \in Keys, v # "", SetAppSettingCall DEF Held
<1>5. StoreInv' /\ StayPut(PgView, PgView') /\ Answered(q)
  <2>1. Step(PgView, q.db, fresh)
    BY ONLY <1>1, <1>4 DEF Held
  <2> QED
    BY ONLY <1>3, <1>4, <2>1, StoreInv, SameStep
<1>6. AsPostgres!SetAppSetting(k, v)
  <2>1. PICK w : w = AsPostgres!Mem!SetAppSetting(t, k, v)
    OBVIOUS
  <2>2. AsPostgres!Pg!SetAppSetting(t, k, v) = q
    BY ONLY <1>2, AsIdentities
  <2>3. AsPostgres!Return(w, q)
    BY ONLY <1>5, AsReturn
  <2> QED
    BY ONLY <1>1, <1>3, <2>1, <2>2, <2>3 DEF AsPostgres!SetAppSetting, AsPostgres!Same, Held
<1> QED
  BY ONLY <1>5, <1>6

\* ListAppSettings.
LEMMA ListAppSettingsStep ==
  ASSUME StoreInv, NEW ks, ks \subseteq Keys, ListAppSettings(ks)
  PROVE  StoreInv' /\ StayPut(PgView, PgView') /\ AsPostgres!ListAppSettings(ks)
<1>1. PICK t, d, f : Held(t, d, f)
  BY ONLY StoreInv, Now
<1>2. PICK m, o, q : /\ m = Mem!ListAppSettings(d, ks) /\ o = Pg!ListAppSettings(d, ks)
                     /\ q = Pg!ListAppSettings(t, ks)
  OBVIOUS
<1>3. Return(m, o) /\ fresh' = fresh
  BY ONLY <1>1, <1>2, ListAppSettings(ks) DEF ListAppSettings, Same, Held
<1>4. Step(t, q.db, f) /\ (backend = "memory" => Agree(m, q)) /\ (backend = "postgres" => o = q)
  BY ONLY <1>1, <1>2, ks \subseteq Keys, ListAppSettingsCall DEF Held
<1>5. StoreInv' /\ StayPut(PgView, PgView') /\ Answered(q)
  <2>1. Step(PgView, q.db, fresh)
    BY ONLY <1>1, <1>4 DEF Held
  <2> QED
    BY ONLY <1>3, <1>4, <2>1, StoreInv, SameStep
<1>6. AsPostgres!ListAppSettings(ks)
  <2>1. PICK w : w = AsPostgres!Mem!ListAppSettings(t, ks)
    OBVIOUS
  <2>2. AsPostgres!Pg!ListAppSettings(t, ks) = q
    BY ONLY <1>2, AsIdentities
  <2>3. AsPostgres!Return(w, q)
    BY ONLY <1>5, AsReturn
  <2> QED
    BY ONLY <1>1, <1>3, <2>1, <2>2, <2>3 DEF AsPostgres!ListAppSettings, AsPostgres!Same, Held
<1> QED
  BY ONLY <1>5, <1>6
-----------------------------------------------------------------------------
(* The steps: calls that create something *)

\* What the SQL store answers when a user is looked for.
LEMMA LookedFor ==
  ASSUME NEW t, NEW x
  PROVE  /\ Pg!GetUser(t, x).err = "" <=> OfId(t.users, x) # {}
         /\ Pg!GetUserByUsername(t, x).err = "" <=> OfName(t.users, x) # {}
<1>1. ASSUME NEW K PROVE Pg!PublicReply(PgSelect(t, K)).err = "" <=> K # {}
  <2>1. PICK Q : Q = {Pg!Public(u) : u \in K}
    OBVIOUS
  <2>2. Pg!PublicReply(PgSelect(t, K)) = IF K = {} THEN Pg!Fail(t, "notfound") ELSE Pg!Ok(t, Q)
    BY <2>1, PublicReplies DEF PgSelect
  <2>3. Pg!Fail(t, "notfound").err = "notfound" /\ Pg!Ok(t, Q).err = ""
    BY ONLY TRUE DEF Pg!Ok, Pg!Fail
  <2> QED
    BY ONLY <2>2, <2>3
<1>2. Pg!GetUser(t, x) = Pg!PublicReply(PgSelect(t, OfId(t.users, x)))
  BY DEF Pg!GetUser, Pg!SelectRow, Pg!Where, PgSelect, OfId
<1>3. Pg!GetUserByUsername(t, x) = Pg!PublicReply(PgSelect(t, OfName(t.users, x)))
  BY DEF Pg!GetUserByUsername, Pg!SelectRow, Pg!Where, PgSelect, OfName
<1> QED
  BY ONLY <1>1, <1>2, <1>3

\* A user the callers know has a row.
LEMMA Known ==
  ASSUME StoreInv, NEW x
  PROVE  /\ KnownUser(x) <=> OfId(PgView.users, x) # {}
         /\ AsPostgres!KnownUser(x) <=> OfId(PgView.users, x) # {}
         /\ KnownName(x) <=> OfName(PgView.users, x) # {}
         /\ AsPostgres!KnownName(x) <=> OfName(PgView.users, x) # {}
<1>1. PICK t, d, f : Held(t, d, f)
  BY ONLY StoreInv, Now
<1>2. AsPostgres!KnownUser(x) <=> AsPostgres!Pg!GetUser(t, x).err = ""
  BY ONLY <1>1 DEF AsPostgres!KnownUser, Held
<1>3. AsPostgres!KnownName(x) <=> AsPostgres!Pg!GetUserByUsername(t, x).err = ""
  BY ONLY <1>1 DEF AsPostgres!KnownName, Held
<1>4. AsPostgres!Pg!GetUser(t, x) = Pg!GetUser(t, x)
  BY ONLY AsAccounts
<1>5. AsPostgres!Pg!GetUserByUsername(t, x) = Pg!GetUserByUsername(t, x)
  BY ONLY AsAccounts
<1>6. KnownUser(x) <=> Pg!GetUser(t, x).err = ""
  <2>1. MemoryInv(d) /\ View(d) = t => Agree(Mem!GetUser(d, x), Pg!GetUser(t, x))
    BY ONLY <1>1, GetUserCall DEF Held
  <2>2. MemoryInv(d) /\ View(d) = t => Mem!GetUser(d, x).err = Pg!GetUser(t, x).err
    BY ONLY <2>1 DEF Agree, SameReply
  <2> QED
    BY ONLY <1>1, <2>2 DEF KnownUser, Held
<1>7. KnownName(x) <=> Pg!GetUserByUsername(t, x).err = ""
  <2>1. MemoryInv(d) /\ View(d) = t => Agree(Mem!GetUserByUsername(d, x),
            Pg!GetUserByUsername(t, x))
    BY ONLY <1>1, GetUserByUsernameCall DEF Held
  <2>2. MemoryInv(d) /\ View(d) = t =>
          Mem!GetUserByUsername(d, x).err = Pg!GetUserByUsername(t, x).err
    BY ONLY <2>1 DEF Agree, SameReply
  <2> QED
    BY ONLY <1>1, <2>2 DEF KnownName, Held
<1>8. t = PgView
  BY ONLY <1>1 DEF Held
<1> QED
  BY ONLY <1>2, <1>3, <1>4, <1>5, <1>6, <1>7, <1>8, LookedFor

\* CreateUser.
LEMMA CreateUserStep ==
  ASSUME StoreInv, NEW n \in Names, NEW h, NEW r, CreateUser(n, h, r)
  PROVE  StoreInv' /\ StayPut(PgView, PgView') /\ AsPostgres!CreateUser(n, h, r)
<1>1. PICK t, d, f : Held(t, d, f)
  BY ONLY StoreInv, Now
<1>2. PICK m, o, q : m = Mem!CreateUser(d, f, n, h, r) /\ o = Pg!CreateUser(d, f, n, h, r)
          /\ q = Pg!CreateUser(t, f, n, h, r)
  OBVIOUS
<1>3. NewID(m, o)
  BY ONLY <1>1, <1>2, CreateUser(n, h, r) DEF CreateUser, Held
<1>5. /\ Step(t, q.db, IF q.err = "" THEN f + 1 ELSE f)
      /\ (backend = "memory" => Agree(m, q)) /\ (backend = "postgres" => o = q)
  <2>1. f \in Nat /\ TablesInv(t, f) /\ (backend = "memory" => MemoryInv(d) /\ View(d) = t)
        /\ (backend = "postgres" => d = t)
    BY ONLY <1>1 DEF Held
  <2>2. Step(t, Pg!CreateUser(t, f, n, h, r).db, IF Pg!CreateUser(t, f, n, h, r).err = "" THEN f + 1 ELSE f)
        /\ (MemoryInv(d) /\ View(d) = t => Agree(Mem!CreateUser(d, f, n, h, r),
                  Pg!CreateUser(t, f, n, h, r)))
    BY ONLY <2>1, n \in Names, CreateUserCall
  <2> QED
    BY ONLY <1>2, <2>1, <2>2
<1>6. Step(PgView, q.db, IF q.err = "" THEN fresh + 1 ELSE fresh)
  BY ONLY <1>1, <1>5 DEF Held
<1>7. StoreInv' /\ StayPut(PgView, PgView') /\ Answered(q)
  BY ONLY <1>3, <1>5, <1>6, StoreInv, NewStep
<1>8. AsPostgres!CreateUser(n, h, r)
  <2>1. PICK w : w = AsPostgres!Mem!CreateUser(t, f, n, h, r)
    OBVIOUS
  <2>2. AsPostgres!Pg!CreateUser(t, f, n, h, r) = q
    BY ONLY <1>2, AsAccounts
  <2>3. AsPostgres!NewID(w, q)
    BY ONLY <1>3, <1>7, AsNewID
  <2> QED
    BY ONLY <1>1, <2>1, <2>2, <2>3 DEF AsPostgres!CreateUser, Held
<1> QED
  BY ONLY <1>7, <1>8

\* BootstrapAdmin.
LEMMA BootstrapAdminStep ==
  ASSUME StoreInv, NEW n \in Names, NEW h, BootstrapAdmin(n, h)
  PROVE  StoreInv' /\ StayPut(PgView, PgView') /\ AsPostgres!BootstrapAdmin(n, h)
<1>1. PICK t, d, f : Held(t, d, f)
  BY ONLY StoreInv, Now
<1>2. PICK m, o, q : m = Mem!BootstrapAdmin(d, f, n, h) /\ o = Pg!BootstrapAdmin(d, f, n, h)
          /\ q = Pg!BootstrapAdmin(t, f, n, h)
  OBVIOUS
<1>3. NewID(m, o)
  BY ONLY <1>1, <1>2, BootstrapAdmin(n, h) DEF BootstrapAdmin, Held
<1>5. /\ q.err = "" /\ Step(t, q.db, f + 1)
      /\ (backend = "memory" => Agree(m, q)) /\ (backend = "postgres" => o = q)
  <2>1. f \in Nat /\ TablesInv(t, f) /\ (backend = "memory" => MemoryInv(d) /\ View(d) = t)
        /\ (backend = "postgres" => d = t)
    BY ONLY <1>1 DEF Held
  <2>2. Pg!BootstrapAdmin(t, f, n, h).err = "" /\ Step(t, Pg!BootstrapAdmin(t, f, n, h).db, f + 1)
        /\ (MemoryInv(d) /\ View(d) = t => Agree(Mem!BootstrapAdmin(d, f, n, h),
                  Pg!BootstrapAdmin(t, f, n, h)))
    BY ONLY <2>1, n \in Names, BootstrapAdminCall
  <2> QED
    BY ONLY <1>2, <2>1, <2>2
<1>6. Step(PgView, q.db, IF q.err = "" THEN fresh + 1 ELSE fresh)
  BY ONLY <1>1, <1>5 DEF Held
<1>7. StoreInv' /\ StayPut(PgView, PgView') /\ Answered(q)
  BY ONLY <1>3, <1>5, <1>6, StoreInv, NewStep
<1>8. AsPostgres!BootstrapAdmin(n, h)
  <2>1. PICK w : w = AsPostgres!Mem!BootstrapAdmin(t, f, n, h)
    OBVIOUS
  <2>2. AsPostgres!Pg!BootstrapAdmin(t, f, n, h) = q
    BY ONLY <1>2, AsAccounts
  <2>3. AsPostgres!NewID(w, q)
    BY ONLY <1>3, <1>7, AsNewID
  <2> QED
    BY ONLY <1>1, <2>1, <2>2, <2>3 DEF AsPostgres!BootstrapAdmin, Held
<1> QED
  BY ONLY <1>7, <1>8

\* CreateAgent.
LEMMA CreateAgentStep ==
  ASSUME StoreInv, NEW u, CreateAgent(u)
  PROVE  StoreInv' /\ StayPut(PgView, PgView') /\ AsPostgres!CreateAgent(u)
<1>1. PICK t, d, f : Held(t, d, f)
  BY ONLY StoreInv, Now
<1>2. PICK m, o, q : m = Mem!CreateAgent(d, f, u) /\ o = Pg!CreateAgent(d, f, u)
          /\ q = Pg!CreateAgent(t, f, u)
  OBVIOUS
<1>3. NewID(m, o) /\ KnownUser(u)
  BY ONLY <1>1, <1>2, CreateAgent(u) DEF CreateAgent, Held
<1>4. /\ \E x \in t.users : x.id = u
      /\ AsPostgres!KnownUser(u)
  <2>1. OfId(t.users, u) # {} /\ AsPostgres!KnownUser(u)
    BY ONLY <1>1, <1>3, StoreInv, Known DEF Held
  <2> QED
    BY ONLY <2>1 DEF OfId
<1>5. /\ q.err = "" /\ Step(t, q.db, f + 1)
      /\ (backend = "memory" => Agree(m, q)) /\ (backend = "postgres" => o = q)
  <2>1. f \in Nat /\ TablesInv(t, f) /\ (backend = "memory" => MemoryInv(d) /\ View(d) = t)
        /\ (backend = "postgres" => d = t)
    BY ONLY <1>1 DEF Held
  <2>2. Pg!CreateAgent(t, f, u).err = "" /\ Step(t, Pg!CreateAgent(t, f, u).db, f + 1)
        /\ (MemoryInv(d) /\ View(d) = t => Agree(Mem!CreateAgent(d, f, u),
                  Pg!CreateAgent(t, f, u)))
    BY ONLY <2>1, <1>4, CreateAgentCall
  <2> QED
    BY ONLY <1>2, <2>1, <2>2
<1>6. Step(PgView, q.db, IF q.err = "" THEN fresh + 1 ELSE fresh)
  BY ONLY <1>1, <1>5 DEF Held
<1>7. StoreInv' /\ StayPut(PgView, PgView') /\ Answered(q)
  BY ONLY <1>3, <1>5, <1>6, StoreInv, NewStep
<1>8. AsPostgres!CreateAgent(u)
  <2>1. PICK w : w = AsPostgres!Mem!CreateAgent(t, f, u)
    OBVIOUS
  <2>2. AsPostgres!Pg!CreateAgent(t, f, u) = q
    BY ONLY <1>2, AsAgents
  <2>3. AsPostgres!NewID(w, q)
    BY ONLY <1>3, <1>7, AsNewID
  <2> QED
    BY ONLY <1>1, <2>1, <2>2, <2>3, <1>4 DEF AsPostgres!CreateAgent, Held
<1> QED
  BY ONLY <1>7, <1>8

\* CreateLLMModel.
LEMMA CreateLLMModelStep ==
  ASSUME StoreInv, NEW e, CreateLLMModel(e)
  PROVE  StoreInv' /\ StayPut(PgView, PgView') /\ AsPostgres!CreateLLMModel(e)
<1>1. PICK t, d, f : Held(t, d, f)
  BY ONLY StoreInv, Now
<1>2. PICK m, o, q : m = Mem!CreateLLMModel(d, f, "d", "p", e)
          /\ o = Pg!CreateLLMModel(d, f, "d", "p", e) /\ q = Pg!CreateLLMModel(t, f, "d", "p", e)
  OBVIOUS
<1>3. NewID(m, o)
  BY ONLY <1>1, <1>2, CreateLLMModel(e) DEF CreateLLMModel, Held
<1>5. /\ q.err = "" /\ Step(t, q.db, f + 1)
      /\ (backend = "memory" => Agree(m, q)) /\ (backend = "postgres" => o = q)
  <2>1. f \in Nat /\ TablesInv(t, f) /\ (backend = "memory" => MemoryInv(d) /\ View(d) = t)
        /\ (backend = "postgres" => d = t)
    BY ONLY <1>1 DEF Held
  <2>2. Pg!CreateLLMModel(t, f, "d", "p", e).err = "" /\ Step(t,
            Pg!CreateLLMModel(t, f, "d", "p", e).db, f + 1)
        /\ (MemoryInv(d) /\ View(d) = t => Agree(Mem!CreateLLMModel(d, f, "d", "p", e),
                  Pg!CreateLLMModel(t, f, "d", "p", e)))
    BY ONLY <2>1, CreateLLMModelCall
  <2> QED
    BY ONLY <1>2, <2>1, <2>2
<1>6. Step(PgView, q.db, IF q.err = "" THEN fresh + 1 ELSE fresh)
  BY ONLY <1>1, <1>5 DEF Held
<1>7. StoreInv' /\ StayPut(PgView, PgView') /\ Answered(q)
  BY ONLY <1>3, <1>5, <1>6, StoreInv, NewStep
<1>8. AsPostgres!CreateLLMModel(e)
  <2>1. PICK w : w = AsPostgres!Mem!CreateLLMModel(t, f, "d", "p", e)
    OBVIOUS
  <2>2. AsPostgres!Pg!CreateLLMModel(t, f, "d", "p", e) = q
    BY ONLY <1>2, AsModels
  <2>3. AsPostgres!NewID(w, q)
    BY ONLY <1>3, <1>7, AsNewID
  <2> QED
    BY ONLY <1>1, <2>1, <2>2, <2>3 DEF AsPostgres!CreateLLMModel, Held
<1> QED
  BY ONLY <1>7, <1>8

\* CreateUserAndIdentity.
LEMMA CreateUserAndIdentityStep ==
  ASSUME StoreInv, NEW n \in Names, NEW p, NEW s, CreateUserAndIdentity(n, p, s)
  PROVE  StoreInv' /\ StayPut(PgView, PgView') /\ AsPostgres!CreateUserAndIdentity(n, p, s)
<1>1. PICK t, d, f : Held(t, d, f)
  BY ONLY StoreInv, Now
<1>2. PICK m, o, q : m = Mem!CreateUserAndIdentity(d, f, n, "user", p, s)
          /\ o = Pg!CreateUserAndIdentity(d, f, n, "user", p, s) /\ q =
                    Pg!CreateUserAndIdentity(t, f, n, "user", p, s)
  OBVIOUS
<1>3. NewID(m, o)
  BY ONLY <1>1, <1>2, CreateUserAndIdentity(n, p, s) DEF CreateUserAndIdentity, Held
<1>5. /\ Step(t, q.db, IF q.err = "" THEN f + 1 ELSE f)
      /\ (backend = "memory" => Agree(m, q)) /\ (backend = "postgres" => o = q)
  <2>1. f \in Nat /\ TablesInv(t, f) /\ (backend = "memory" => MemoryInv(d) /\ View(d) = t)
        /\ (backend = "postgres" => d = t)
    BY ONLY <1>1 DEF Held
  <2>2. Step(t, Pg!CreateUserAndIdentity(t, f, n, "user", p, s).db, IF Pg!CreateUserAndIdentity(t, f, n, "user", p, s).err = "" THEN f + 1 ELSE f)
        /\ (MemoryInv(d) /\ View(d) = t => Agree(Mem!CreateUserAndIdentity(d, f, n, "user", p, s), Pg!CreateUserAndIdentity(t, f, n, "user", p, s)))
    BY ONLY <2>1, n \in Names, CreateUserAndIdentityCall
  <2> QED
    BY ONLY <1>2, <2>1, <2>2
<1>6. Step(PgView, q.db, IF q.err = "" THEN fresh + 1 ELSE fresh)
  BY ONLY <1>1, <1>5 DEF Held
<1>7. StoreInv' /\ StayPut(PgView, PgView') /\ Answered(q)
  BY ONLY <1>3, <1>5, <1>6, StoreInv, NewStep
<1>8. AsPostgres!CreateUserAndIdentity(n, p, s)
  <2>1. PICK w : w = AsPostgres!Mem!CreateUserAndIdentity(t, f, n, "user", p, s)
    OBVIOUS
  <2>2. AsPostgres!Pg!CreateUserAndIdentity(t, f, n, "user", p, s) = q
    BY ONLY <1>2, AsIdentities
  <2>3. AsPostgres!NewID(w, q)
    BY ONLY <1>3, <1>7, AsNewID
  <2> QED
    BY ONLY <1>1, <2>1, <2>2, <2>3 DEF AsPostgres!CreateUserAndIdentity, Held
<1> QED
  BY ONLY <1>7, <1>8
-----------------------------------------------------------------------------
(* The steps: calls that differ, or that a caller must be entitled to *)

\* Where the named differences do not hold, the calls agree.
LEMMA Differences ==
  ASSUME NEW x, NEW y
  PROVE  /\ NoHash(x) <=> \E u \in PgView.users : u.name = x /\ u.hash = None
         /\ \/ LeftSwitches(x) \/ OfId(PgView.agents, x) # {}
            \/ SwitchesOfAgent(PgView.agent_integrations, x) = {}
         /\ NoAgent(x) <=> \A r \in PgView.agents : r.id # x
         /\ \/ DisconnectDiffers(x, y)
            \/ /\ OfConnection(PgView.integration_connections, x, y) # {}
               /\ SwitchesOfProvider(PgView.agent_integrations, y) =
                    SwitchesOfOwner(PgView, x, y)
<1>1. PICK t, A, S, C : /\ t = PgView /\ A = t.agents /\ S = t.agent_integrations
                        /\ C = t.integration_connections
  OBVIOUS
<1>2. NoHash(x) <=> \E u \in PgView.users : u.name = x /\ u.hash = None
  BY DEF NoHash
<1>3. ASSUME NEW a PROVE Owner(a) = {r.owner : r \in OfId(A, a)}
  BY ONLY <1>1 DEF Owner, OfId
<1>4. ASSUME NEW a PROVE Owner(a) = {} <=> OfId(A, a) = {}
  BY ONLY <1>3
<1>5. SwitchesOf(x) = SwitchesOfAgent(S, x)
  BY ONLY <1>1 DEF SwitchesOf, SwitchesOfAgent
<1>6. LeftSwitches(x) \/ OfId(A, x) # {} \/ SwitchesOfAgent(S, x) = {}
  BY ONLY <1>4, <1>5 DEF LeftSwitches
<1>7. NoAgent(x) <=> \A r \in A : r.id # x
  BY ONLY <1>4 DEF NoAgent, OfId
<1>8. ASSUME ~ DisconnectDiffers(x, y)
      PROVE  OfConnection(C, x, y) # {} /\ SwitchesOfProvider(S, y) = SwitchesOfOwner(t, x, y)
  <2>1. /\ Pg!GetIntegrationConnection(t, x, y).err = ""
        /\ \A r \in S : r.provider = y => x \in Owner(r.agent)
    BY ONLY <1>1, <1>8 DEF DisconnectDiffers
  <2>2. OfConnection(C, x, y) # {}
    <3>1. Pg!GetIntegrationConnection(t, x, y) = PgSelect(t, OfConnection(C, x, y))
      BY <1>1 DEF Pg!GetIntegrationConnection, Pg!SelectRow, Pg!Where, PgSelect, OfConnection
    <3>2. Pg!Fail(t, "notfound").err = "notfound"
      BY ONLY TRUE DEF Pg!Fail
    <3> QED
      BY ONLY <2>1, <3>1, <3>2 DEF PgSelect
  <2>3. \A r \in S : r.provider = y => \E a \in A : a.id = r.agent /\ a.owner = x
    BY ONLY <1>3, <2>1 DEF OfId
  <2>4. SwitchesOfProvider(S, y) = SwitchesOfOwner(t, x, y)
    BY ONLY <1>1, <2>3 DEF SwitchesOfProvider, SwitchesOfOwner
  <2> QED
    BY ONLY <2>2, <2>4
<1> QED
  BY ONLY <1>1, <1>2, <1>6, <1>7, <1>8

\* SetPasswordHash.
LEMMA SetPasswordHashStep ==
  ASSUME StoreInv, NEW n, NEW h, SetPasswordHash(n, h)
  PROVE  StoreInv' /\ StayPut(PgView, PgView') /\ AsPostgres!SetPasswordHash(n, h)
<1>1. PICK t, d, f : Held(t, d, f)
  BY ONLY StoreInv, Now
<1>2. PICK m, o, q : /\ m = Mem!SetPasswordHash(d, n, h) /\ o = Pg!SetPasswordHash(d, n, h)
                     /\ q = Pg!SetPasswordHash(t, n, h)
  OBVIOUS
<1>3. Return(m, o) /\ fresh' = fresh /\ KnownName(n)
  BY ONLY <1>1, <1>2, SetPasswordHash(n, h) DEF SetPasswordHash, Same, Held
<1>4. /\ AsPostgres!KnownName(n) /\ Step(t, q.db, f)
      /\ (backend = "memory" => Agree(m, q)) /\ (backend = "postgres" => o = q)
  <2>1. OfName(t.users, n) # {} /\ AsPostgres!KnownName(n)
    BY ONLY <1>1, <1>3, StoreInv, Known DEF Held
  <2>2. f \in Nat /\ TablesInv(t, f) /\ (backend = "memory" => MemoryInv(d) /\ View(d) = t)
        /\ (backend = "postgres" => d = t)
    BY ONLY <1>1 DEF Held
  <2>3. /\ Step(t, Pg!SetPasswordHash(t, n, h).db, f)
        /\ OfName(t.users, n) # {} => (MemoryInv(d) /\ View(d) = t =>
             Agree(Mem!SetPasswordHash(d, n, h), Pg!SetPasswordHash(t, n, h)))
    BY ONLY <2>2, SetPasswordHashCall
  <2> QED
    BY ONLY <1>2, <2>1, <2>2, <2>3
<1>5. StoreInv' /\ StayPut(PgView, PgView') /\ Answered(q)
  <2>1. Step(PgView, q.db, fresh)
    BY ONLY <1>1, <1>4 DEF Held
  <2> QED
    BY ONLY <1>3, <1>4, <2>1, StoreInv, SameStep
<1>6. AsPostgres!SetPasswordHash(n, h)
  <2>1. PICK w : w = AsPostgres!Mem!SetPasswordHash(t, n, h)
    OBVIOUS
  <2>2. AsPostgres!Pg!SetPasswordHash(t, n, h) = q
    BY ONLY <1>2, AsAccounts
  <2>3. AsPostgres!Return(w, q)
    BY ONLY <1>5, AsReturn
  <2> QED
    BY ONLY <1>1, <1>3, <1>4, <2>1, <2>2, <2>3 DEF AsPostgres!SetPasswordHash, AsPostgres!Same,
       Held
<1> QED
  BY ONLY <1>5, <1>6

\* UpsertIntegrationConnection.
LEMMA UpsertIntegrationConnectionStep ==
  ASSUME StoreInv, NEW u, NEW p, NEW s, UpsertIntegrationConnection(u, p, s)
  PROVE  StoreInv' /\ StayPut(PgView, PgView') /\ AsPostgres!UpsertIntegrationConnection(u, p, s)
<1>1. PICK t, d, f : Held(t, d, f)
  BY ONLY StoreInv, Now
<1>2. PICK m, o, q : /\ m = Mem!UpsertIntegrationConnection(d, u, p, s, 0)
                     /\ o = Pg!UpsertIntegrationConnection(d, u, p, s, 0)
                     /\ q = Pg!UpsertIntegrationConnection(t, u, p, s, 0)
  OBVIOUS
<1>3. Return(m, o) /\ fresh' = fresh /\ KnownUser(u)
  BY ONLY <1>1, <1>2, UpsertIntegrationConnection(u, p, s) DEF UpsertIntegrationConnection,
     Same, Held
<1>4. /\ AsPostgres!KnownUser(u) /\ Step(t, q.db, f)
      /\ (backend = "memory" => Agree(m, q)) /\ (backend = "postgres" => o = q)
  <2>1. OfId(t.users, u) # {} /\ AsPostgres!KnownUser(u)
    BY ONLY <1>1, <1>3, StoreInv, Known DEF Held
  <2>2. f \in Nat /\ TablesInv(t, f) /\ (backend = "memory" => MemoryInv(d) /\ View(d) = t)
        /\ (backend = "postgres" => d = t)
    BY ONLY <1>1 DEF Held
  <2>3. ~ (\A r \in t.users : r.id # u)
    BY ONLY <2>1 DEF OfId
  <2>4. PICK z : z = UpsertedConnection(t, u, p, s)
    OBVIOUS
  <2>5. /\ Step(t, UpsertedConnection(t, u, p, s).db, f)
        /\ Pg!UpsertIntegrationConnection(t, u, p, s, 0) =
             IF \A r \in t.users : r.id # u THEN Pg!Fail(t, "reference")
             ELSE UpsertedConnection(t, u, p, s)
        /\ (MemoryInv(d) /\ View(d) = t =>
              Agree(Mem!UpsertIntegrationConnection(d, u, p, s, 0),
                    UpsertedConnection(t, u, p, s)))
    BY ONLY <2>2, UpsertIntegrationConnectionCall
  <2>6. q = z
    BY ONLY <1>2, <2>3, <2>4, <2>5
  <2> QED
    BY ONLY <1>2, <2>1, <2>2, <2>4, <2>5, <2>6
<1>5. StoreInv' /\ StayPut(PgView, PgView') /\ Answered(q)
  <2>1. Step(PgView, q.db, fresh)
    BY ONLY <1>1, <1>4 DEF Held
  <2> QED
    BY ONLY <1>3, <1>4, <2>1, StoreInv, SameStep
<1>6. AsPostgres!UpsertIntegrationConnection(u, p, s)
  <2>1. PICK w : w = AsPostgres!Mem!UpsertIntegrationConnection(t, u, p, s, 0)
    OBVIOUS
  <2>2. AsPostgres!Pg!UpsertIntegrationConnection(t, u, p, s, 0) = q
    BY ONLY <1>2, AsIntegrations
  <2>3. AsPostgres!Return(w, q)
    BY ONLY <1>5, AsReturn
  <2> QED
    BY ONLY <1>1, <1>3, <1>4, <2>1, <2>2, <2>3 DEF AsPostgres!UpsertIntegrationConnection,
       AsPostgres!Same, Held
<1> QED
  BY ONLY <1>5, <1>6

\* GetPasswordHash.
LEMMA GetPasswordHashStep ==
  ASSUME StoreInv, NEW n \in Names, GetPasswordHash(n)
  PROVE  /\ StoreInv' /\ StayPut(PgView, PgView')
         /\ AsPostgres!GetPasswordHash(n) \/ NoHash(n)
<1>1. PICK t, d, f : Held(t, d, f)
  BY ONLY StoreInv, Now
<1>2. PICK m, o, q : /\ m = Mem!GetPasswordHash(d, n) /\ o = Pg!GetPasswordHash(d, n)
                     /\ q = Pg!GetPasswordHash(t, n)
  OBVIOUS
<1>3. Return(m, o) /\ fresh' = fresh
  BY ONLY <1>1, <1>2, GetPasswordHash(n) DEF GetPasswordHash, Same, Held
<1>4. /\ f \in Nat /\ TablesInv(t, f) /\ t = PgView /\ f = fresh
      /\ (backend = "memory" => MemoryInv(d) /\ View(d) = t) /\ (backend = "postgres" => d = t)
      /\ (backend = "memory" \/ backend = "postgres")
  BY ONLY <1>1 DEF Held
<1>5. /\ Step(t, q.db, f) /\ (backend = "postgres" => o = q)
      /\ backend = "memory" => /\ MemoryInv(m.db) /\ Step(t, View(m.db), f)
                               /\ NoHash(n) \/ Agree(m, q)
  <2>1. /\ Step(t, Pg!GetPasswordHash(t, n).db, f)
        /\ MemoryInv(d) /\ View(d) = t =>
              /\ MemoryInv(Mem!GetPasswordHash(d, n).db)
              /\ View(Mem!GetPasswordHash(d, n).db) = t
              /\ \/ \E u \in t.users : u.name = n /\ u.hash = None
                 \/ Agree(Mem!GetPasswordHash(d, n), Pg!GetPasswordHash(t, n))
    BY ONLY <1>4, n \in Names, GetPasswordHashCall
  <2>2. NoHash(n) <=> \E u \in t.users : u.name = n /\ u.hash = None
    BY ONLY <1>4, Differences
  <2>3. Step(t, t, f)
    BY ONLY <1>4, SameTables
  <2> QED
    BY ONLY <1>2, <1>4, <2>1, <2>2, <2>3
<1>6. CASE backend = "memory" /\ ~ Agree(m, q)
  <2>1. MemoryInv(m.db) /\ Step(PgView, View(m.db), fresh) /\ NoHash(n)
    BY ONLY <1>4, <1>5, <1>6
  <2>2. StoreInv' /\ StayPut(PgView, PgView')
    BY ONLY <1>3, <1>6, <2>1, StoreInv, DifferentStep
  <2> QED
    BY ONLY <2>1, <2>2
<1>7. CASE ~ (backend = "memory" /\ ~ Agree(m, q))
  <2>1. StoreInv' /\ StayPut(PgView, PgView') /\ Answered(q)
    <3>1. /\ Step(PgView, q.db, fresh) /\ (backend = "postgres" => o = q)
          /\ (backend = "memory" => Agree(m, q))
      BY ONLY <1>4, <1>5, <1>7
    <3> QED
      BY ONLY <1>3, <3>1, StoreInv, SameStep
  <2>2. AsPostgres!GetPasswordHash(n)
    <3>1. PICK w : w = AsPostgres!Mem!GetPasswordHash(t, n)
      OBVIOUS
    <3>2. AsPostgres!Pg!GetPasswordHash(t, n) = q
      BY ONLY <1>2, AsAccounts
    <3>3. AsPostgres!Return(w, q)
      BY ONLY <2>1, AsReturn
    <3> QED
      BY ONLY <1>3, <1>4, <3>1, <3>2, <3>3 DEF AsPostgres!GetPasswordHash, AsPostgres!Same
  <2> QED
    BY ONLY <2>1, <2>2
<1> QED
  BY ONLY <1>6, <1>7

\* DeleteAgent.
LEMMA DeleteAgentStep ==
  ASSUME StoreInv, NEW a, DeleteAgent(a)
  PROVE  /\ StoreInv' /\ StayPut(PgView, PgView')
         /\ AsPostgres!DeleteAgent(a) \/ LeftSwitches(a)
<1>1. PICK t, d, f : Held(t, d, f)
  BY ONLY StoreInv, Now
<1>2. PICK m, o, q : /\ m = Mem!DeleteAgent(d, a) /\ o = Pg!DeleteAgent(d, a)
                     /\ q = Pg!DeleteAgent(t, a)
  OBVIOUS
<1>3. Return(m, o) /\ fresh' = fresh
  BY ONLY <1>1, <1>2, DeleteAgent(a) DEF DeleteAgent, Same, Held
<1>4. /\ f \in Nat /\ TablesInv(t, f) /\ t = PgView /\ f = fresh
      /\ (backend = "memory" => MemoryInv(d) /\ View(d) = t) /\ (backend = "postgres" => d = t)
      /\ (backend = "memory" \/ backend = "postgres")
  BY ONLY <1>1 DEF Held
<1>5. /\ Step(t, q.db, f) /\ (backend = "postgres" => o = q)
      /\ backend = "memory" => /\ MemoryInv(m.db) /\ Step(t, View(m.db), f)
                               /\ LeftSwitches(a) \/ Agree(m, q)
  <2>1. /\ Step(t, Pg!DeleteAgent(t, a).db, f)
        /\ MemoryInv(d) /\ View(d) = t =>
              /\ MemoryInv(Mem!DeleteAgent(d, a).db)
              /\ Step(t, View(Mem!DeleteAgent(d, a).db), f)
              /\ OfId(t.agents, a) # {} \/ SwitchesOfAgent(t.agent_integrations, a) = {} =>
                   Agree(Mem!DeleteAgent(d, a), Pg!DeleteAgent(t, a))
    BY ONLY <1>4, DeleteAgentCall
  <2>2. \/ LeftSwitches(a) \/ OfId(t.agents, a) # {}
        \/ SwitchesOfAgent(t.agent_integrations, a) = {}
    BY ONLY <1>4, Differences
  <2> QED
    BY ONLY <1>2, <1>4, <2>1, <2>2
<1>6. CASE backend = "memory" /\ ~ Agree(m, q)
  <2>1. MemoryInv(m.db) /\ Step(PgView, View(m.db), fresh) /\ LeftSwitches(a)
    BY ONLY <1>4, <1>5, <1>6
  <2>2. StoreInv' /\ StayPut(PgView, PgView')
    BY ONLY <1>3, <1>6, <2>1, StoreInv, DifferentStep
  <2> QED
    BY ONLY <2>1, <2>2
<1>7. CASE ~ (backend = "memory" /\ ~ Agree(m, q))
  <2>1. StoreInv' /\ StayPut(PgView, PgView') /\ Answered(q)
    <3>1. /\ Step(PgView, q.db, fresh) /\ (backend = "postgres" => o = q)
          /\ (backend = "memory" => Agree(m, q))
      BY ONLY <1>4, <1>5, <1>7
    <3> QED
      BY ONLY <1>3, <3>1, StoreInv, SameStep
  <2>2. AsPostgres!DeleteAgent(a)
    <3>1. PICK w : w = AsPostgres!Mem!DeleteAgent(t, a)
      OBVIOUS
    <3>2. AsPostgres!Pg!DeleteAgent(t, a) = q
      BY ONLY <1>2, AsAgents
    <3>3. AsPostgres!Return(w, q)
      BY ONLY <2>1, AsReturn
    <3> QED
      BY ONLY <1>3, <1>4, <3>1, <3>2, <3>3 DEF AsPostgres!DeleteAgent, AsPostgres!Same
  <2> QED
    BY ONLY <2>1, <2>2
<1> QED
  BY ONLY <1>6, <1>7

\* DeleteIntegrationConnection.
LEMMA DeleteIntegrationConnectionStep ==
  ASSUME StoreInv, NEW u, NEW p, DeleteIntegrationConnection(u, p)
  PROVE  /\ StoreInv' /\ StayPut(PgView, PgView')
         /\ AsPostgres!DeleteIntegrationConnection(u, p) \/ DisconnectDiffers(u, p)
<1>1. PICK t, d, f : Held(t, d, f)
  BY ONLY StoreInv, Now
<1>2. PICK m, o, q : /\ m = Mem!DeleteIntegrationConnection(d, u, p)
                     /\ o = Pg!DeleteIntegrationConnection(d, u, p)
                     /\ q = Pg!DeleteIntegrationConnection(t, u, p)
  OBVIOUS
<1>3. Return(m, o) /\ fresh' = fresh
  BY ONLY <1>1, <1>2, DeleteIntegrationConnection(u, p) DEF DeleteIntegrationConnection, Same,
     Held
<1>4. /\ f \in Nat /\ TablesInv(t, f) /\ t = PgView /\ f = fresh
      /\ (backend = "memory" => MemoryInv(d) /\ View(d) = t) /\ (backend = "postgres" => d = t)
      /\ (backend = "memory" \/ backend = "postgres")
  BY ONLY <1>1 DEF Held
<1>5. /\ Step(t, q.db, f) /\ (backend = "postgres" => o = q)
      /\ backend = "memory" => /\ MemoryInv(m.db) /\ Step(t, View(m.db), f)
                               /\ DisconnectDiffers(u, p) \/ Agree(m, q)
  <2>1. /\ Step(t, Pg!DeleteIntegrationConnection(t, u, p).db, f)
        /\ MemoryInv(d) /\ View(d) = t =>
              /\ MemoryInv(Mem!DeleteIntegrationConnection(d, u, p).db)
              /\ Step(t, View(Mem!DeleteIntegrationConnection(d, u, p).db), f)
              /\ /\ OfConnection(t.integration_connections, u, p) # {}
                 /\ SwitchesOfProvider(t.agent_integrations, p) = SwitchesOfOwner(t, u, p)
                 => Agree(Mem!DeleteIntegrationConnection(d, u, p),
                          Pg!DeleteIntegrationConnection(t, u, p))
    BY ONLY <1>4, DeleteIntegrationConnectionCall
  <2>2. \/ DisconnectDiffers(u, p)
        \/ /\ OfConnection(t.integration_connections, u, p) # {}
           /\ SwitchesOfProvider(t.agent_integrations, p) = SwitchesOfOwner(t, u, p)
    BY ONLY <1>4, Differences
  <2> QED
    BY ONLY <1>2, <1>4, <2>1, <2>2
<1>6. CASE backend = "memory" /\ ~ Agree(m, q)
  <2>1. MemoryInv(m.db) /\ Step(PgView, View(m.db), fresh) /\ DisconnectDiffers(u, p)
    BY ONLY <1>4, <1>5, <1>6
  <2>2. StoreInv' /\ StayPut(PgView, PgView')
    BY ONLY <1>3, <1>6, <2>1, StoreInv, DifferentStep
  <2> QED
    BY ONLY <2>1, <2>2
<1>7. CASE ~ (backend = "memory" /\ ~ Agree(m, q))
  <2>1. StoreInv' /\ StayPut(PgView, PgView') /\ Answered(q)
    <3>1. /\ Step(PgView, q.db, fresh) /\ (backend = "postgres" => o = q)
          /\ (backend = "memory" => Agree(m, q))
      BY ONLY <1>4, <1>5, <1>7
    <3> QED
      BY ONLY <1>3, <3>1, StoreInv, SameStep
  <2>2. AsPostgres!DeleteIntegrationConnection(u, p)
    <3>1. PICK w : w = AsPostgres!Mem!DeleteIntegrationConnection(t, u, p)
      OBVIOUS
    <3>2. AsPostgres!Pg!DeleteIntegrationConnection(t, u, p) = q
      BY ONLY <1>2, AsIntegrations
    <3>3. AsPostgres!Return(w, q)
      BY ONLY <2>1, AsReturn
    <3> QED
      BY ONLY <1>3, <1>4, <3>1, <3>2, <3>3 DEF AsPostgres!DeleteIntegrationConnection,
         AsPostgres!Same
  <2> QED
    BY ONLY <2>1, <2>2
<1> QED
  BY ONLY <1>6, <1>7

\* UpsertLLMGatewaySettings.
LEMMA UpsertLLMGatewaySettingsStep ==
  ASSUME StoreInv, NEW e, NEW s, UpsertLLMGatewaySettings(e, s)
  PROVE  /\ StoreInv' /\ StayPut(PgView, PgView')
         /\ AsPostgres!UpsertLLMGatewaySettings(e, s) \/ ZeroGateway(e, s)
<1>1. PICK t, d, f : Held(t, d, f)
  BY ONLY StoreInv, Now
<1>2. PICK m, o, q : /\ m = Mem!UpsertLLMGatewaySettings(d, e, s)
                     /\ o = Pg!UpsertLLMGatewaySettings(d, e, s)
                     /\ q = Pg!UpsertLLMGatewaySettings(t, e, s)
  OBVIOUS
<1>3. Return(m, o) /\ fresh' = fresh
  BY ONLY <1>1, <1>2, UpsertLLMGatewaySettings(e, s) DEF UpsertLLMGatewaySettings, Same, Held
<1>4. /\ f \in Nat /\ TablesInv(t, f) /\ t = PgView /\ f = fresh
      /\ (backend = "memory" => MemoryInv(d) /\ View(d) = t) /\ (backend = "postgres" => d = t)
      /\ (backend = "memory" \/ backend = "postgres")
  BY ONLY <1>1 DEF Held
<1>5. /\ Step(t, q.db, f) /\ (backend = "postgres" => o = q)
      /\ backend = "memory" => /\ MemoryInv(m.db) /\ Step(t, View(m.db), f)
                               /\ ZeroGateway(e, s) \/ Agree(m, q)
  <2>1. /\ Step(t, Pg!UpsertLLMGatewaySettings(t, e, s).db, f)
        /\ MemoryInv(d) /\ View(d) = t =>
              /\ MemoryInv(Mem!UpsertLLMGatewaySettings(d, e, s).db)
              /\ Step(t, View(Mem!UpsertLLMGatewaySettings(d, e, s).db), f)
              /\ ~ ZeroGateway(e, s) =>
                   Agree(Mem!UpsertLLMGatewaySettings(d, e, s),
                         Pg!UpsertLLMGatewaySettings(t, e, s))
    BY ONLY <1>4, UpsertLLMGatewaySettingsCall
  <2> QED
    BY ONLY <1>2, <1>4, <2>1
<1>6. CASE backend = "memory" /\ ~ Agree(m, q)
  <2>1. MemoryInv(m.db) /\ Step(PgView, View(m.db), fresh) /\ ZeroGateway(e, s)
    BY ONLY <1>4, <1>5, <1>6
  <2>2. StoreInv' /\ StayPut(PgView, PgView')
    BY ONLY <1>3, <1>6, <2>1, StoreInv, DifferentStep
  <2> QED
    BY ONLY <2>1, <2>2
<1>7. CASE ~ (backend = "memory" /\ ~ Agree(m, q))
  <2>1. StoreInv' /\ StayPut(PgView, PgView') /\ Answered(q)
    <3>1. /\ Step(PgView, q.db, fresh) /\ (backend = "postgres" => o = q)
          /\ (backend = "memory" => Agree(m, q))
      BY ONLY <1>4, <1>5, <1>7
    <3> QED
      BY ONLY <1>3, <3>1, StoreInv, SameStep
  <2>2. AsPostgres!UpsertLLMGatewaySettings(e, s)
    <3>1. PICK w : w = AsPostgres!Mem!UpsertLLMGatewaySettings(t, e, s)
      OBVIOUS
    <3>2. AsPostgres!Pg!UpsertLLMGatewaySettings(t, e, s) = q
      BY ONLY <1>2, AsModels
    <3>3. AsPostgres!Return(w, q)
      BY ONLY <2>1, AsReturn
    <3> QED
      BY ONLY <1>3, <1>4, <3>1, <3>2, <3>3 DEF AsPostgres!UpsertLLMGatewaySettings,
         AsPostgres!Same
  <2> QED
    BY ONLY <2>1, <2>2
<1> QED
  BY ONLY <1>6, <1>7

\* UpsertAgentIntegration.
LEMMA UpsertAgentIntegrationStep ==
  ASSUME StoreInv, NEW a, NEW p, NEW e, UpsertAgentIntegration(a, p, e)
  PROVE  /\ StoreInv' /\ StayPut(PgView, PgView')
         /\ AsPostgres!UpsertAgentIntegration(a, p, e) \/ NoAgent(a)
<1>1. PICK t, d, f : Held(t, d, f)
  BY ONLY StoreInv, Now
<1>2. PICK m, o, q : /\ m = Mem!UpsertAgentIntegration(d, a, p, e, 0)
                     /\ o = Pg!UpsertAgentIntegration(d, a, p, e, 0)
                     /\ q = Pg!UpsertAgentIntegration(t, a, p, e, 0)
  OBVIOUS
<1>3. Return(m, o) /\ fresh' = fresh /\ a < fresh /\ ~ KnownUser(a)
  BY ONLY <1>1, <1>2, UpsertAgentIntegration(a, p, e) DEF UpsertAgentIntegration, Same, Held
<1>4. /\ f \in Nat /\ TablesInv(t, f) /\ t = PgView /\ f = fresh
      /\ (backend = "memory" => MemoryInv(d) /\ View(d) = t) /\ (backend = "postgres" => d = t)
      /\ (backend = "memory" \/ backend = "postgres")
  BY ONLY <1>1 DEF Held
<1>5. /\ Step(t, q.db, f) /\ (backend = "postgres" => o = q)
      /\ backend = "memory" => /\ MemoryInv(m.db) /\ Step(t, View(m.db), f)
                               /\ NoAgent(a) \/ Agree(m, q)
  <2>1. PICK z : z = UpsertedSwitch(t, a, p, e)
    OBVIOUS
  <2>2. /\ Step(t, UpsertedSwitch(t, a, p, e).db, f)
        /\ Pg!UpsertAgentIntegration(t, a, p, e, 0) =
             IF \A r \in t.agents : r.id # a THEN Pg!Fail(t, "reference")
             ELSE UpsertedSwitch(t, a, p, e)
        /\ (MemoryInv(d) /\ View(d) = t =>
              Agree(Mem!UpsertAgentIntegration(d, a, p, e, 0), UpsertedSwitch(t, a, p, e)))
    BY ONLY <1>4, UpsertAgentIntegrationCall
  <2>3. NoAgent(a) <=> \A r \in t.agents : r.id # a
    BY ONLY <1>4, Differences
  <2>4. q = IF NoAgent(a) THEN Pg!Fail(t, "reference") ELSE z
    BY ONLY <1>2, <2>1, <2>2, <2>3
  <2>5. Step(t, z.db, f) /\ (backend = "memory" => Agree(m, z))
    BY ONLY <1>2, <1>4, <2>1, <2>2
  <2>6. backend = "memory" => MemoryInv(m.db) /\ View(m.db) = z.db
    BY ONLY <2>5 DEF Agree, SameReply
  <2>7. Pg!Fail(t, "reference").db = t
    BY ONLY TRUE DEF Pg!Fail
  <2>8. Step(t, t, f)
    BY ONLY <1>4, SameTables
  <2> QED
    BY ONLY <1>2, <1>4, <2>4, <2>5, <2>6, <2>7, <2>8
<1>6. CASE backend = "memory" /\ ~ Agree(m, q)
  <2>1. MemoryInv(m.db) /\ Step(PgView, View(m.db), fresh) /\ NoAgent(a)
    BY ONLY <1>4, <1>5, <1>6
  <2>2. StoreInv' /\ StayPut(PgView, PgView')
    BY ONLY <1>3, <1>6, <2>1, StoreInv, DifferentStep
  <2> QED
    BY ONLY <2>1, <2>2
<1>7. CASE ~ (backend = "memory" /\ ~ Agree(m, q))
  <2>1. StoreInv' /\ StayPut(PgView, PgView') /\ Answered(q)
    <3>1. /\ Step(PgView, q.db, fresh) /\ (backend = "postgres" => o = q)
          /\ (backend = "memory" => Agree(m, q))
      BY ONLY <1>4, <1>5, <1>7
    <3> QED
      BY ONLY <1>3, <3>1, StoreInv, SameStep
  <2>2. AsPostgres!UpsertAgentIntegration(a, p, e)
    <3>1. PICK w : w = AsPostgres!Mem!UpsertAgentIntegration(t, a, p, e, 0)
      OBVIOUS
    <3>2. AsPostgres!Pg!UpsertAgentIntegration(t, a, p, e, 0) = q
      BY ONLY <1>2, AsIntegrations
    <3>3. AsPostgres!Return(w, q)
      BY ONLY <2>1, AsReturn
    <3>4. a < fresh /\ ~ AsPostgres!KnownUser(a)
      BY ONLY <1>3, StoreInv, Known
    <3> QED
      BY ONLY <1>3, <1>4, <3>1, <3>2, <3>3, <3>4 DEF AsPostgres!UpsertAgentIntegration,
         AsPostgres!Same
  <2> QED
    BY ONLY <2>1, <2>2
<1> QED
  BY ONLY <1>6, <1>7
-----------------------------------------------------------------------------
(* The next-state relation *)

\* The bounds are the same on the view.
LEMMA Bounds ==
  ASSUME StoreInv
  PROVE  /\ WritesLeft <=> AsPostgres!WritesLeft
         /\ \A id \in PluginIds : ManifestWritesLeft(id) <=> AsPostgres!ManifestWritesLeft(id)
<1>1. PICK t, d, f : Held(t, d, f)
  BY ONLY StoreInv, Now
<1>2. t = PgView /\ d = db /\ (backend = "memory" \/ backend = "postgres")
  BY ONLY <1>1 DEF Held
<1>3. AsPostgres!WritesLeft <=> Fewer(t.integration_connections \cup t.agent_integrations)
  BY ONLY <1>2 DEF AsPostgres!WritesLeft, AsPostgres!Fewer, Fewer
<1>4. ASSUME NEW id \in PluginIds
      PROVE  AsPostgres!ManifestWritesLeft(id) <=>
               \A m \in OfId(t.plugin_manifests, id) : m.revision < MaxRevision
  BY ONLY <1>2 DEF AsPostgres!ManifestWritesLeft, OfId
<1>5. CASE backend = "postgres"
  <2>1. d = t
    BY ONLY <1>1, <1>5 DEF Held
  <2>2. WritesLeft <=> Fewer(t.integration_connections \cup t.agent_integrations)
    BY ONLY <1>2, <1>5, <2>1 DEF WritesLeft
  <2>3. ASSUME NEW id \in PluginIds
        PROVE  ManifestWritesLeft(id) <=>
                 \A m \in OfId(t.plugin_manifests, id) : m.revision < MaxRevision
    BY ONLY <1>2, <1>5, <2>1 DEF ManifestWritesLeft, OfId
  <2> QED
    BY ONLY <1>3, <1>4, <2>2, <2>3
<1>6. CASE backend = "memory"
  <2>1. MemoryInv(d) /\ View(d) = t /\ TablesInv(t, f)
    BY ONLY <1>1, <1>6 DEF Held
  <2>2. /\ t.integration_connections = Rows(d.integrations)
        /\ t.agent_integrations = Rows(d.agentIntegrations)
    BY ONLY <2>1, ViewTables DEF MemoryInv
  <2>3. WritesLeft <=> Fewer(Rows(d.integrations) \cup Rows(d.agentIntegrations))
    BY ONLY <1>2, <1>6 DEF WritesLeft, Rows
  <2>4. ManifestMap(d.pluginManifests, t.plugin_manifests)
    BY ONLY <2>1, ManifestRows
  <2>5. ASSUME NEW id \in PluginIds
        PROVE  ManifestWritesLeft(id) <=>
                 \A m \in OfId(t.plugin_manifests, id) : m.revision < MaxRevision
    <3>1. PICK pm, T : pm = d.pluginManifests /\ T = t.plugin_manifests
      OBVIOUS
    <3>2. OfId(T, id) = IF pm[id] = None THEN {} ELSE {pm[id]}
      BY ONLY <2>4, <3>1, id \in PluginIds DEF ManifestMap
    <3>3. ManifestWritesLeft(id) <=> (pm[id] # None => pm[id].revision < MaxRevision)
      BY ONLY <1>2, <1>6, <3>1 DEF ManifestWritesLeft
    <3> QED
      BY ONLY <3>1, <3>2, <3>3
  <2> QED
    BY ONLY <1>3, <1>4, <2>2, <2>3, <2>5
<1> QED
  BY ONLY <1>2, <1>5, <1>6

\* The sets the calls range over are the same.
LEMMA SameBounds == AsPostgres!Ids = Ids /\ AsPostgres!Roles = Roles
  BY DEF Ids, Roles, AsPostgres!Ids, AsPostgres!Roles

\* What is shown of a step.
Kept == StoreInv' /\ StayPut(PgView, PgView')


\* A method on users is called.
LEMMA AccountSteps ==
  ASSUME StoreInv, AccountCalls
  PROVE  Kept /\ (AsPostgres!AccountCalls \/ KnownDifference)
<1>1. CASE \E n \in Names, h \in Hashes \cup {None}, r \in Roles : CreateUser(n, h, r)
  <2>1. PICK n \in Names, h \in Hashes \cup {None}, r \in Roles : CreateUser(n, h, r)
    BY ONLY <1>1
  <2>2. Kept /\ (AsPostgres!CreateUser(n, h, r))
    BY ONLY StoreInv, <2>1, n \in Names, CreateUserStep DEF Kept
  <2>3. AsPostgres!CreateUser(n, h, r) => AsPostgres!AccountCalls
    BY ONLY <2>1, SameBounds, n \in Names, h \in Hashes \cup {None}, r \in Roles DEF
       AsPostgres!AccountCalls
  <2> QED
    BY ONLY <2>2, <2>3
<1>2. CASE \E id \in Ids : GetUser(id)
  <2>1. PICK id \in Ids : GetUser(id)
    BY ONLY <1>2
  <2>2. Kept /\ (AsPostgres!GetUser(id))
    BY ONLY StoreInv, <2>1, GetUserStep DEF Kept
  <2>3. AsPostgres!GetUser(id) => AsPostgres!AccountCalls
    BY ONLY <2>1, SameBounds, id \in Ids DEF AsPostgres!AccountCalls
  <2> QED
    BY ONLY <2>2, <2>3
<1>3. CASE \E n \in Names : GetUserByUsername(n)
  <2>1. PICK n \in Names : GetUserByUsername(n)
    BY ONLY <1>3
  <2>2. Kept /\ (AsPostgres!GetUserByUsername(n))
    BY ONLY StoreInv, <2>1, n \in Names, GetUserByUsernameStep DEF Kept
  <2>3. AsPostgres!GetUserByUsername(n) => AsPostgres!AccountCalls
    BY ONLY <2>1, SameBounds, n \in Names DEF AsPostgres!AccountCalls
  <2> QED
    BY ONLY <2>2, <2>3
<1>4. CASE \E n \in Names : GetPasswordHash(n)
  <2>1. PICK n \in Names : GetPasswordHash(n)
    BY ONLY <1>4
  <2>2. Kept /\ (AsPostgres!GetPasswordHash(n) \/ NoHash(n))
    BY ONLY StoreInv, <2>1, n \in Names, GetPasswordHashStep DEF Kept
  <2>3. AsPostgres!GetPasswordHash(n) => AsPostgres!AccountCalls
    BY ONLY <2>1, SameBounds, n \in Names DEF AsPostgres!AccountCalls
  <2>4. NoHash(n) => KnownDifference
    BY ONLY <2>1, n \in Names DEF KnownDifference
  <2> QED
    BY ONLY <2>2, <2>3, <2>4
<1>5. CASE ListUsers
  <2>1. Kept /\ AsPostgres!ListUsers
    BY ONLY StoreInv, <1>5, ListUsersStep DEF Kept
  <2> QED
    BY ONLY <2>1 DEF AsPostgres!AccountCalls
<1>6. CASE \E id \in Ids, d \in BOOLEAN \cup {None}, r \in Roles \cup {None} : UpdateUser(id, d, r)
  <2>1. PICK id \in Ids, d \in BOOLEAN \cup {None}, r \in Roles \cup {None} : UpdateUser(id, d, r)
    BY ONLY <1>6
  <2>2. Kept /\ (AsPostgres!UpdateUser(id, d, r))
    BY ONLY StoreInv, <2>1, UpdateUserStep DEF Kept
  <2>3. AsPostgres!UpdateUser(id, d, r) => AsPostgres!AccountCalls
    BY ONLY <2>1, SameBounds, id \in Ids, d \in BOOLEAN \cup {None}, r \in Roles \cup {None}
       DEF AsPostgres!AccountCalls
  <2> QED
    BY ONLY <2>2, <2>3
<1>7. CASE \E n \in Names, h \in Hashes : SetPasswordHash(n, h)
  <2>1. PICK n \in Names, h \in Hashes : SetPasswordHash(n, h)
    BY ONLY <1>7
  <2>2. Kept /\ (AsPostgres!SetPasswordHash(n, h))
    BY ONLY StoreInv, <2>1, n \in Names, SetPasswordHashStep DEF Kept
  <2>3. AsPostgres!SetPasswordHash(n, h) => AsPostgres!AccountCalls
    BY ONLY <2>1, SameBounds, n \in Names, h \in Hashes DEF AsPostgres!AccountCalls
  <2> QED
    BY ONLY <2>2, <2>3
<1>8. CASE \E n \in Names, h \in Hashes : BootstrapAdmin(n, h)
  <2>1. PICK n \in Names, h \in Hashes : BootstrapAdmin(n, h)
    BY ONLY <1>8
  <2>2. Kept /\ (AsPostgres!BootstrapAdmin(n, h))
    BY ONLY StoreInv, <2>1, n \in Names, BootstrapAdminStep DEF Kept
  <2>3. AsPostgres!BootstrapAdmin(n, h) => AsPostgres!AccountCalls
    BY ONLY <2>1, SameBounds, n \in Names, h \in Hashes DEF AsPostgres!AccountCalls
  <2> QED
    BY ONLY <2>2, <2>3
<1> QED
  BY ONLY AccountCalls, <1>1, <1>2, <1>3, <1>4, <1>5, <1>6, <1>7, <1>8 DEF AccountCalls

\* A method on agents, connections or switches is called.
LEMMA AgentSteps ==
  ASSUME StoreInv, AgentCalls
  PROVE  Kept /\ (AsPostgres!AgentCalls \/ KnownDifference)
<1>1. CASE \E n \in Names : CreateUser(n, None, "user")
  <2>1. PICK n \in Names : CreateUser(n, None, "user")
    BY ONLY <1>1
  <2>2. Kept /\ (AsPostgres!CreateUser(n, None, "user"))
    BY ONLY StoreInv, <2>1, n \in Names, CreateUserStep DEF Kept
  <2>3. AsPostgres!CreateUser(n, None, "user") => AsPostgres!AgentCalls
    BY ONLY <2>1, SameBounds, n \in Names DEF AsPostgres!AgentCalls
  <2> QED
    BY ONLY <2>2, <2>3
<1>2. CASE \E u \in Ids : CreateAgent(u)
  <2>1. PICK u \in Ids : CreateAgent(u)
    BY ONLY <1>2
  <2>2. Kept /\ (AsPostgres!CreateAgent(u))
    BY ONLY StoreInv, <2>1, CreateAgentStep DEF Kept
  <2>3. AsPostgres!CreateAgent(u) => AsPostgres!AgentCalls
    BY ONLY <2>1, SameBounds, u \in Ids DEF AsPostgres!AgentCalls
  <2> QED
    BY ONLY <2>2, <2>3
<1>3. CASE \E u \in Ids : ListAgents(u)
  <2>1. PICK u \in Ids : ListAgents(u)
    BY ONLY <1>3
  <2>2. Kept /\ (AsPostgres!ListAgents(u))
    BY ONLY StoreInv, <2>1, ListAgentsStep DEF Kept
  <2>3. AsPostgres!ListAgents(u) => AsPostgres!AgentCalls
    BY ONLY <2>1, SameBounds, u \in Ids DEF AsPostgres!AgentCalls
  <2> QED
    BY ONLY <2>2, <2>3
<1>4. CASE \E u \in Ids : ListUserIntegrationProviderIDs(u)
  <2>1. PICK u \in Ids : ListUserIntegrationProviderIDs(u)
    BY ONLY <1>4
  <2>2. Kept /\ (AsPostgres!ListUserIntegrationProviderIDs(u))
    BY ONLY StoreInv, <2>1, ListUserIntegrationProviderIDsStep DEF Kept
  <2>3. AsPostgres!ListUserIntegrationProviderIDs(u) => AsPostgres!AgentCalls
    BY ONLY <2>1, SameBounds, u \in Ids DEF AsPostgres!AgentCalls
  <2> QED
    BY ONLY <2>2, <2>3
<1>5. CASE \E a \in Ids : GetAgent(a)
  <2>1. PICK a \in Ids : GetAgent(a)
    BY ONLY <1>5
  <2>2. Kept /\ (AsPostgres!GetAgent(a))
    BY ONLY StoreInv, <2>1, GetAgentStep DEF Kept
  <2>3. AsPostgres!GetAgent(a) => AsPostgres!AgentCalls
    BY ONLY <2>1, SameBounds, a \in Ids DEF AsPostgres!AgentCalls
  <2> QED
    BY ONLY <2>2, <2>3
<1>6. CASE \E a \in Ids : DeleteAgent(a)
  <2>1. PICK a \in Ids : DeleteAgent(a)
    BY ONLY <1>6
  <2>2. Kept /\ (AsPostgres!DeleteAgent(a) \/ LeftSwitches(a))
    BY ONLY StoreInv, <2>1, DeleteAgentStep DEF Kept
  <2>3. AsPostgres!DeleteAgent(a) => AsPostgres!AgentCalls
    BY ONLY <2>1, SameBounds, a \in Ids DEF AsPostgres!AgentCalls
  <2>4. LeftSwitches(a) => KnownDifference
    BY ONLY <2>1, a \in Ids DEF KnownDifference
  <2> QED
    BY ONLY <2>2, <2>3, <2>4
<1>7. CASE \E a \in Ids : ListAgentIntegrations(a)
  <2>1. PICK a \in Ids : ListAgentIntegrations(a)
    BY ONLY <1>7
  <2>2. Kept /\ (AsPostgres!ListAgentIntegrations(a))
    BY ONLY StoreInv, <2>1, ListAgentIntegrationsStep DEF Kept
  <2>3. AsPostgres!ListAgentIntegrations(a) => AsPostgres!AgentCalls
    BY ONLY <2>1, SameBounds, a \in Ids DEF AsPostgres!AgentCalls
  <2> QED
    BY ONLY <2>2, <2>3
<1>8. CASE \E a \in Updatable : UpdateAgentState(a, "running")
  <2>1. PICK a \in Updatable : UpdateAgentState(a, "running")
    BY ONLY <1>8
  <2>2. Kept /\ (AsPostgres!UpdateAgentState(a, "running"))
    BY ONLY StoreInv, <2>1, UpdateAgentStateStep DEF Kept
  <2>3. AsPostgres!UpdateAgentState(a, "running") => AsPostgres!AgentCalls
    BY ONLY <2>1, a \in Updatable DEF AsPostgres!AgentCalls
  <2> QED
    BY ONLY <2>2, <2>3
<1>9. CASE \E a \in Updatable : UpdateAgentError(a, "")
  <2>1. PICK a \in Updatable : UpdateAgentError(a, "")
    BY ONLY <1>9
  <2>2. Kept /\ (AsPostgres!UpdateAgentError(a, ""))
    BY ONLY StoreInv, <2>1, UpdateAgentErrorStep DEF Kept
  <2>3. AsPostgres!UpdateAgentError(a, "") => AsPostgres!AgentCalls
    BY ONLY <2>1, a \in Updatable DEF AsPostgres!AgentCalls
  <2> QED
    BY ONLY <2>2, <2>3
<1>10. CASE \E u \in Ids, p \in Providers : GetIntegrationConnection(u, p)
  <2>1. PICK u \in Ids, p \in Providers : GetIntegrationConnection(u, p)
    BY ONLY <1>10
  <2>2. Kept /\ (AsPostgres!GetIntegrationConnection(u, p))
    BY ONLY StoreInv, <2>1, GetIntegrationConnectionStep DEF Kept
  <2>3. AsPostgres!GetIntegrationConnection(u, p) => AsPostgres!AgentCalls
    BY ONLY <2>1, SameBounds, u \in Ids, p \in Providers DEF AsPostgres!AgentCalls
  <2> QED
    BY ONLY <2>2, <2>3
<1>11. CASE \E u \in Ids, p \in Providers : DeleteIntegrationConnection(u, p)
  <2>1. PICK u \in Ids, p \in Providers : DeleteIntegrationConnection(u, p)
    BY ONLY <1>11
  <2>2. Kept /\ (AsPostgres!DeleteIntegrationConnection(u, p) \/ DisconnectDiffers(u, p))
    BY ONLY StoreInv, <2>1, DeleteIntegrationConnectionStep DEF Kept
  <2>3. AsPostgres!DeleteIntegrationConnection(u, p) => AsPostgres!AgentCalls
    BY ONLY <2>1, SameBounds, u \in Ids, p \in Providers DEF AsPostgres!AgentCalls
  <2>4. DisconnectDiffers(u, p) => KnownDifference
    BY ONLY <2>1, u \in Ids, p \in Providers DEF KnownDifference
  <2> QED
    BY ONLY <2>2, <2>3, <2>4
<1>12. CASE \E u \in Ids, p \in Providers : GetAgentIntegration(u, p)
  <2>1. PICK u \in Ids, p \in Providers : GetAgentIntegration(u, p)
    BY ONLY <1>12
  <2>2. Kept /\ (AsPostgres!GetAgentIntegration(u, p))
    BY ONLY StoreInv, <2>1, GetAgentIntegrationStep DEF Kept
  <2>3. AsPostgres!GetAgentIntegration(u, p) => AsPostgres!AgentCalls
    BY ONLY <2>1, SameBounds, u \in Ids, p \in Providers DEF AsPostgres!AgentCalls
  <2> QED
    BY ONLY <2>2, <2>3
<1>13. CASE \E u \in Ids, p \in Providers : WritesLeft /\ UpsertIntegrationConnection(u, p, "token")
  <2>1. PICK u \in Ids, p \in Providers : WritesLeft /\ UpsertIntegrationConnection(u, p, "token")
    BY ONLY <1>13
  <2>2. Kept /\ (AsPostgres!UpsertIntegrationConnection(u, p, "token"))
    BY ONLY StoreInv, <2>1, UpsertIntegrationConnectionStep DEF Kept
  <2>3. AsPostgres!WritesLeft
    BY ONLY StoreInv, <2>1, Bounds
  <2>4. AsPostgres!UpsertIntegrationConnection(u, p, "token") => AsPostgres!AgentCalls
    BY ONLY <2>1, <2>3, SameBounds, u \in Ids, p \in Providers DEF AsPostgres!AgentCalls
  <2> QED
    BY ONLY <2>2, <2>4
<1>14. CASE \E u \in Ids, p \in Providers, e \in BOOLEAN : WritesLeft /\ UpsertAgentIntegration(u, p, e)
  <2>1. PICK u \in Ids, p \in Providers, e \in BOOLEAN : WritesLeft
            /\ UpsertAgentIntegration(u, p, e)
    BY ONLY <1>14
  <2>2. Kept /\ (AsPostgres!UpsertAgentIntegration(u, p, e) \/ NoAgent(u))
    BY ONLY StoreInv, <2>1, UpsertAgentIntegrationStep DEF Kept
  <2>3. AsPostgres!WritesLeft
    BY ONLY StoreInv, <2>1, Bounds
  <2>4. AsPostgres!UpsertAgentIntegration(u, p, e) => AsPostgres!AgentCalls
    BY ONLY <2>1, <2>3, SameBounds, u \in Ids, p \in Providers, e \in BOOLEAN DEF
       AsPostgres!AgentCalls
  <2>5. NoAgent(u) => KnownDifference
    BY ONLY <2>1, u \in Ids, p \in Providers, e \in BOOLEAN DEF KnownDifference
  <2> QED
    BY ONLY <2>2, <2>4, <2>5
<1> QED
  BY ONLY AgentCalls, <1>1, <1>2, <1>3, <1>4, <1>5, <1>6, <1>7, <1>8, <1>9, <1>10, <1>11,
     <1>12, <1>13, <1>14 DEF AgentCalls

\* A method on models or gateway settings is called.
LEMMA ModelSteps ==
  ASSUME StoreInv, ModelCalls
  PROVE  Kept /\ (AsPostgres!ModelCalls \/ KnownDifference)
<1>1. CASE \E e \in BOOLEAN : fresh < MaxIds /\ CreateLLMModel(e)
  <2>1. PICK e \in BOOLEAN : fresh < MaxIds /\ CreateLLMModel(e)
    BY ONLY <1>1
  <2>2. Kept /\ (AsPostgres!CreateLLMModel(e))
    BY ONLY StoreInv, <2>1, CreateLLMModelStep DEF Kept
  <2>3. AsPostgres!CreateLLMModel(e) => AsPostgres!ModelCalls
    BY ONLY <2>1, SameBounds, e \in BOOLEAN DEF AsPostgres!ModelCalls
  <2> QED
    BY ONLY <2>2, <2>3
<1>2. CASE \E id \in Ids : GetLLMModel(id)
  <2>1. PICK id \in Ids : GetLLMModel(id)
    BY ONLY <1>2
  <2>2. Kept /\ (AsPostgres!GetLLMModel(id))
    BY ONLY StoreInv, <2>1, GetLLMModelStep DEF Kept
  <2>3. AsPostgres!GetLLMModel(id) => AsPostgres!ModelCalls
    BY ONLY <2>1, SameBounds, id \in Ids DEF AsPostgres!ModelCalls
  <2> QED
    BY ONLY <2>2, <2>3
<1>3. CASE \E id \in Ids, d \in {"e", None}, p \in {"q", None}, e \in BOOLEAN \cup {None} : UpdateLLMModel(id, d, p, e)
  <2>1. PICK id \in Ids, d \in {"e", None}, p \in {"q", None}, e \in BOOLEAN \cup {None} : UpdateLLMModel(id, d, p, e)
    BY ONLY <1>3
  <2>2. Kept /\ (AsPostgres!UpdateLLMModel(id, d, p, e))
    BY ONLY StoreInv, <2>1, UpdateLLMModelStep DEF Kept
  <2>3. AsPostgres!UpdateLLMModel(id, d, p, e) => AsPostgres!ModelCalls
    BY ONLY <2>1, SameBounds, id \in Ids, d \in {"e", None}, p \in {"q", None}, e \in BOOLEAN
       \cup {None} DEF AsPostgres!ModelCalls
  <2> QED
    BY ONLY <2>2, <2>3
<1>4. CASE ListLLMModels
  <2>1. Kept /\ AsPostgres!ListLLMModels
    BY ONLY StoreInv, <1>4, ListLLMModelsStep DEF Kept
  <2> QED
    BY ONLY <2>1 DEF AsPostgres!ModelCalls
<1>5. CASE GetLLMGatewaySettings
  <2>1. Kept /\ AsPostgres!GetLLMGatewaySettings
    BY ONLY StoreInv, <1>5, GetLLMGatewaySettingsStep DEF Kept
  <2> QED
    BY ONLY <2>1 DEF AsPostgres!ModelCalls
<1>6. CASE \E e \in BOOLEAN, s \in {"s", None} : UpsertLLMGatewaySettings(e, s)
  <2>1. PICK e \in BOOLEAN, s \in {"s", None} : UpsertLLMGatewaySettings(e, s)
    BY ONLY <1>6
  <2>2. Kept /\ (AsPostgres!UpsertLLMGatewaySettings(e, s) \/ ZeroGateway(e, s))
    BY ONLY StoreInv, <2>1, UpsertLLMGatewaySettingsStep DEF Kept
  <2>3. AsPostgres!UpsertLLMGatewaySettings(e, s) => AsPostgres!ModelCalls
    BY ONLY <2>1, SameBounds, e \in BOOLEAN, s \in {"s", None} DEF AsPostgres!ModelCalls
  <2>4. ZeroGateway(e, s) => KnownDifference
    BY ONLY <2>1, e \in BOOLEAN, s \in {"s", None} DEF KnownDifference
  <2> QED
    BY ONLY <2>2, <2>3, <2>4
<1> QED
  BY ONLY ModelCalls, <1>1, <1>2, <1>3, <1>4, <1>5, <1>6 DEF ModelCalls

\* A method on plugin manifests is called.
LEMMA ManifestSteps ==
  ASSUME StoreInv, ManifestCalls
  PROVE  Kept /\ (AsPostgres!ManifestCalls \/ KnownDifference)
<1>1. CASE \E b \in BOOLEAN : ListPluginManifests(b)
  <2>1. PICK b \in BOOLEAN : ListPluginManifests(b)
    BY ONLY <1>1
  <2>2. Kept /\ (AsPostgres!ListPluginManifests(b))
    BY ONLY StoreInv, <2>1, ListPluginManifestsStep DEF Kept
  <2>3. AsPostgres!ListPluginManifests(b) => AsPostgres!ManifestCalls
    BY ONLY <2>1, SameBounds, b \in BOOLEAN DEF AsPostgres!ManifestCalls
  <2> QED
    BY ONLY <2>2, <2>3
<1>2. CASE \E id \in PluginIds : GetPluginManifest(id)
  <2>1. PICK id \in PluginIds : GetPluginManifest(id)
    BY ONLY <1>2
  <2>2. Kept /\ (AsPostgres!GetPluginManifest(id))
    BY ONLY StoreInv, <2>1, id \in PluginIds, GetPluginManifestStep DEF Kept
  <2>3. AsPostgres!GetPluginManifest(id) => AsPostgres!ManifestCalls
    BY ONLY <2>1, SameBounds, id \in PluginIds DEF AsPostgres!ManifestCalls
  <2> QED
    BY ONLY <2>2, <2>3
<1>3. CASE \E id \in PluginIds : DeletePluginManifest(id)
  <2>1. PICK id \in PluginIds : DeletePluginManifest(id)
    BY ONLY <1>3
  <2>2. Kept /\ (AsPostgres!DeletePluginManifest(id))
    BY ONLY StoreInv, <2>1, id \in PluginIds, DeletePluginManifestStep DEF Kept
  <2>3. AsPostgres!DeletePluginManifest(id) => AsPostgres!ManifestCalls
    BY ONLY <2>1, SameBounds, id \in PluginIds DEF AsPostgres!ManifestCalls
  <2> QED
    BY ONLY <2>2, <2>3
<1>4. CASE \E id \in PluginIds, y \in Yamls, e \in BOOLEAN : ManifestWritesLeft(id) /\ UpsertPluginManifest(id, y, e)
  <2>1. PICK id \in PluginIds, y \in Yamls, e \in BOOLEAN : ManifestWritesLeft(id)
            /\ UpsertPluginManifest(id, y, e)
    BY ONLY <1>4
  <2>2. Kept /\ (AsPostgres!UpsertPluginManifest(id, y, e))
    BY ONLY StoreInv, <2>1, id \in PluginIds, y \in Yamls, e \in BOOLEAN,
       UpsertPluginManifestStep DEF Kept
  <2>3. AsPostgres!ManifestWritesLeft(id)
    BY ONLY StoreInv, <2>1, id \in PluginIds, Bounds
  <2>4. AsPostgres!UpsertPluginManifest(id, y, e) => AsPostgres!ManifestCalls
    BY ONLY <2>1, <2>3, SameBounds, id \in PluginIds, y \in Yamls, e \in BOOLEAN DEF
       AsPostgres!ManifestCalls
  <2> QED
    BY ONLY <2>2, <2>4
<1> QED
  BY ONLY ManifestCalls, <1>1, <1>2, <1>3, <1>4 DEF ManifestCalls

\* A method on identities is called.
LEMMA IdentitySteps ==
  ASSUME StoreInv, IdentityCalls
  PROVE  Kept /\ (AsPostgres!IdentityCalls \/ KnownDifference)
<1>1. CASE \E n \in Names : CreateUser(n, None, "user")
  <2>1. PICK n \in Names : CreateUser(n, None, "user")
    BY ONLY <1>1
  <2>2. Kept /\ (AsPostgres!CreateUser(n, None, "user"))
    BY ONLY StoreInv, <2>1, n \in Names, CreateUserStep DEF Kept
  <2>3. AsPostgres!CreateUser(n, None, "user") => AsPostgres!IdentityCalls
    BY ONLY <2>1, SameBounds, n \in Names DEF AsPostgres!IdentityCalls
  <2> QED
    BY ONLY <2>2, <2>3
<1>2. CASE \E p \in Providers, s \in Subjects : GetUserIDByIdentity(p, s)
  <2>1. PICK p \in Providers, s \in Subjects : GetUserIDByIdentity(p, s)
    BY ONLY <1>2
  <2>2. Kept /\ (AsPostgres!GetUserIDByIdentity(p, s))
    BY ONLY StoreInv, <2>1, GetUserIDByIdentityStep DEF Kept
  <2>3. AsPostgres!GetUserIDByIdentity(p, s) => AsPostgres!IdentityCalls
    BY ONLY <2>1, SameBounds, p \in Providers, s \in Subjects DEF AsPostgres!IdentityCalls
  <2> QED
    BY ONLY <2>2, <2>3
<1>3. CASE \E p \in Providers, s \in Subjects : TouchIdentityLogin(p, s)
  <2>1. PICK p \in Providers, s \in Subjects : TouchIdentityLogin(p, s)
    BY ONLY <1>3
  <2>2. Kept /\ (AsPostgres!TouchIdentityLogin(p, s))
    BY ONLY StoreInv, <2>1, TouchIdentityLoginStep DEF Kept
  <2>3. AsPostgres!TouchIdentityLogin(p, s) => AsPostgres!IdentityCalls
    BY ONLY <2>1, SameBounds, p \in Providers, s \in Subjects DEF AsPostgres!IdentityCalls
  <2> QED
    BY ONLY <2>2, <2>3
<1>4. CASE \E p \in Providers, s \in Subjects, n \in Names : CreateUserAndIdentity(n, p, s)
  <2>1. PICK p \in Providers, s \in Subjects, n \in Names : CreateUserAndIdentity(n, p, s)
    BY ONLY <1>4
  <2>2. Kept /\ (AsPostgres!CreateUserAndIdentity(n, p, s))
    BY ONLY StoreInv, <2>1, n \in Names, CreateUserAndIdentityStep DEF Kept
  <2>3. AsPostgres!CreateUserAndIdentity(n, p, s) => AsPostgres!IdentityCalls
    BY ONLY <2>1, SameBounds, p \in Providers, s \in Subjects, n \in Names DEF
       AsPostgres!IdentityCalls
  <2> QED
    BY ONLY <2>2, <2>3
<1>5. CASE \E p \in Providers, s \in Subjects, u \in Ids : LinkIdentityToUser(u, p, s)
  <2>1. PICK p \in Providers, s \in Subjects, u \in Ids : LinkIdentityToUser(u, p, s)
    BY ONLY <1>5
  <2>2. Kept /\ (AsPostgres!LinkIdentityToUser(u, p, s))
    BY ONLY StoreInv, <2>1, LinkIdentityToUserStep DEF Kept
  <2>3. AsPostgres!LinkIdentityToUser(u, p, s) => AsPostgres!IdentityCalls
    BY ONLY <2>1, SameBounds, p \in Providers, s \in Subjects, u \in Ids DEF
       AsPostgres!IdentityCalls
  <2> QED
    BY ONLY <2>2, <2>3
<1>6. CASE \E p \in Providers, s \in Subjects, u \in Ids : UnlinkIdentity(u, p, s)
  <2>1. PICK p \in Providers, s \in Subjects, u \in Ids : UnlinkIdentity(u, p, s)
    BY ONLY <1>6
  <2>2. Kept /\ (AsPostgres!UnlinkIdentity(u, p, s))
    BY ONLY StoreInv, <2>1, UnlinkIdentityStep DEF Kept
  <2>3. AsPostgres!UnlinkIdentity(u, p, s) => AsPostgres!IdentityCalls
    BY ONLY <2>1, SameBounds, p \in Providers, s \in Subjects, u \in Ids DEF
       AsPostgres!IdentityCalls
  <2> QED
    BY ONLY <2>2, <2>3
<1>7. CASE \E u \in Ids : ListUserIdentities(u)
  <2>1. PICK u \in Ids : ListUserIdentities(u)
    BY ONLY <1>7
  <2>2. Kept /\ (AsPostgres!ListUserIdentities(u))
    BY ONLY StoreInv, <2>1, ListUserIdentitiesStep DEF Kept
  <2>3. AsPostgres!ListUserIdentities(u) => AsPostgres!IdentityCalls
    BY ONLY <2>1, SameBounds, u \in Ids DEF AsPostgres!IdentityCalls
  <2> QED
    BY ONLY <2>2, <2>3
<1> QED
  BY ONLY IdentityCalls, <1>1, <1>2, <1>3, <1>4, <1>5, <1>6, <1>7 DEF IdentityCalls

\* A method on settings is called.
LEMMA SettingSteps ==
  ASSUME StoreInv, SettingCalls
  PROVE  Kept /\ (AsPostgres!SettingCalls \/ KnownDifference)
<1>1. CASE \E k \in Keys : GetAppSetting(k)
  <2>1. PICK k \in Keys : GetAppSetting(k)
    BY ONLY <1>1
  <2>2. Kept /\ (AsPostgres!GetAppSetting(k))
    BY ONLY StoreInv, <2>1, k \in Keys, GetAppSettingStep DEF Kept
  <2>3. AsPostgres!GetAppSetting(k) => AsPostgres!SettingCalls
    BY ONLY <2>1, SameBounds, k \in Keys DEF AsPostgres!SettingCalls
  <2> QED
    BY ONLY <2>2, <2>3
<1>2. CASE \E k \in Keys, v \in {"local", "sso"} : SetAppSetting(k, v)
  <2>1. PICK k \in Keys, v \in {"local", "sso"} : SetAppSetting(k, v)
    BY ONLY <1>2
  <2>2. k \in Keys /\ v # ""
    OBVIOUS
  <2>3. Kept /\ (AsPostgres!SetAppSetting(k, v))
    BY ONLY StoreInv, <2>1, <2>2, SetAppSettingStep DEF Kept
  <2>4. AsPostgres!SetAppSetting(k, v) => AsPostgres!SettingCalls
    BY ONLY <2>1, SameBounds, k \in Keys, v \in {"local", "sso"} DEF AsPostgres!SettingCalls
  <2> QED
    BY ONLY <2>3, <2>4
<1>3. CASE \E ks \in SUBSET Keys : ListAppSettings(ks)
  <2>1. PICK ks \in SUBSET Keys : ListAppSettings(ks)
    BY ONLY <1>3
  <2>2. ks \subseteq Keys
    OBVIOUS
  <2>3. Kept /\ (AsPostgres!ListAppSettings(ks))
    BY ONLY StoreInv, <2>1, <2>2, ListAppSettingsStep DEF Kept
  <2>4. AsPostgres!ListAppSettings(ks) => AsPostgres!SettingCalls
    BY ONLY <2>1, SameBounds, ks \in SUBSET Keys DEF AsPostgres!SettingCalls
  <2> QED
    BY ONLY <2>3, <2>4
<1> QED
  BY ONLY SettingCalls, <1>1, <1>2, <1>3 DEF SettingCalls
-----------------------------------------------------------------------------
(* The invariant holds *)

\* Nothing is stored yet, but the mode of authentication.
LEMMA EmptyStore ==
  /\ MemoryInv(Mem!EmptyMemory) /\ View(Mem!EmptyMemory) = Pg!EmptyTables
  /\ TablesInv(Pg!EmptyTables, 1)
<1>1. PICK ph, gw, pm, st :
        /\ ph = [n \in Names |-> None] /\ gw = [enabled |-> FALSE, secret |-> None]
        /\ pm = [p \in PluginIds |-> None]
        /\ st = [k \in Keys |-> IF k = "auth.mode" THEN "local" ELSE ""]
  OBVIOUS
<1>2. PICK e : e = <<>>
  OBVIOUS
<1>3. PICK d : d = Memory(e, ph, e, e, gw, e, e, pm, e, st)
  OBVIOUS
<1>4. Mem!EmptyMemory = d
  BY ONLY <1>1, <1>2, <1>3 DEF Mem!EmptyMemory, Memory
<1>5. PICK K : K = {[key |-> "auth.mode", value |-> "local"]}
  OBVIOUS
<1>6. PICK t : t = Tables({}, {}, {}, {}, {}, {}, {}, {}, K)
  OBVIOUS
<1>7. Pg!EmptyTables = t
  BY ONLY <1>5, <1>6 DEF Pg!EmptyTables, Tables
<1>8. Slice(e) /\ Rows(e) = {}
  BY ONLY <1>2, EmptySlice
<1>9. MemoryInv(d)
  <2>1. /\ IsMemory(d) /\ d.users = e /\ d.passwordHashes = ph /\ d.agents = e
        /\ d.llmModels = e /\ d.integrations = e /\ d.agentIntegrations = e
        /\ d.pluginManifests = pm /\ d.userIdentities = e /\ d.appSettings = st
    BY ONLY <1>3, TheSlices
  <2>2. AccountsInv(e, ph)
    BY ONLY <1>1, <1>8 DEF AccountsInv
  <2>3. ByPluginId(pm)
    BY ONLY <1>1 DEF ByPluginId
  <2>4. ByKey(st)
    BY ONLY <1>1 DEF ByKey
  <2> QED
    BY ONLY <1>8, <2>1, <2>2, <2>3, <2>4 DEF MemoryInv
<1>10. View(d) = t
  <2>1. View(d) = Tables(UsersOf(e, ph), Rows(e), Rows(e), GatewayOf(gw), Rows(e), Rows(e),
                         ManifestsOf(pm), Rows(e), SettingsOf(st))
    BY ONLY <1>3, ViewOfSlices
  <2>2. UsersOf(e, ph) = {}
    BY ONLY <1>8 DEF UsersOf
  <2>3. GatewayOf(gw) = {}
    BY ONLY <1>1 DEF GatewayOf
  <2>4. ManifestsOf(pm) = {}
    BY ONLY <1>1 DEF ManifestsOf, Rows
  <2>5. SettingsOf(st) = K
    <3>1. "auth.mode" \in Keys
      BY StoreAssumption
    <3>2. PICK J, a, v : J = {j \in Keys : st[j] # ""} /\ a = "auth.mode" /\ v = "local"
      OBVIOUS
    <3>3. J = {a} /\ st[a] = v
      BY ONLY <1>1, <3>1, <3>2
    <3>4. {[key |-> k, value |-> st[k]] : k \in J} = {[key |-> a, value |-> v]}
      BY ONLY <3>3
    <3> QED
      BY ONLY <1>5, <3>2, <3>4 DEF SettingsOf
  <2> QED
    BY ONLY <1>6, <1>8, <2>1, <2>2, <2>3, <2>4, <2>5
<1>11. TablesInv(t, 1)
  <2>1. "auth.mode" \in Keys
    BY StoreAssumption
  <2>2. SettingsInv(K)
    BY ONLY <1>5, <2>1 DEF SettingsInv
  <2>3. /\ UsersInv({}, 1) /\ AgentsInv({}, 1) /\ ModelsInv({}, 1)
        /\ ConnectionsInv({}) /\ SwitchesInv({}) /\ ManifestsInv({})
        /\ IdentitiesInv({}, {}) /\ GatewayInv({})
    BY ONLY TRUE DEF UsersInv, AgentsInv, ModelsInv, ConnectionsInv, SwitchesInv, ManifestsInv,
                     IdentitiesInv, GatewayInv, Numbered, ById
  <2> QED
    BY ONLY <1>6, <2>2, <2>3, InvOfTables
<1> QED
  BY ONLY <1>4, <1>7, <1>9, <1>10, <1>11

\* The store is opened.
LEMMA Opened ==
  ASSUME Init
  PROVE  StoreInv /\ AsPostgres!Init
<1>1. backend \in {"memory", "postgres"} /\ focus \in Focuses /\ fresh = 1
      /\ ans = [err |-> "", rows |-> {}] /\ db = Open
  BY StoreAssumption DEF Init
<1>2. PgView = Pg!EmptyTables /\ (backend = "memory" => MemoryInv(db))
  <2>1. CASE backend = "memory"
    BY ONLY <1>1, <2>1, EmptyStore DEF Open, PgView
  <2>2. CASE backend = "postgres"
    BY ONLY <1>1, <2>2 DEF Open, PgView
  <2> QED
    BY ONLY <1>1, <2>1, <2>2
<1>3. StoreInv
  <2>1. 1 \in Nat
    OBVIOUS
  <2> QED
    BY ONLY <1>1, <1>2, <2>1, EmptyStore DEF StoreInv
<1>4. AsPostgres!Init
  <2>1. AsPostgres!Pg!EmptyTables = Pg!EmptyTables
    BY DEF Pg!EmptyTables, AsPostgres!Pg!EmptyTables
  <2>2. AsPostgres!Open = PgView
    BY ONLY <1>2, <2>1 DEF AsPostgres!Open
  <2>3. "postgres" \in Backends
    BY StoreAssumption
  <2> QED
    BY ONLY <1>1, <2>2, <2>3 DEF AsPostgres!Init
<1> QED
  BY ONLY <1>3, <1>4

\* A method is called.
LEMMA Called ==
  ASSUME StoreInv, Next
  PROVE  Kept /\ (AsPostgres!Next \/ KnownDifference)
<1>1. CASE focus = "accounts" /\ AccountCalls
  BY ONLY StoreInv, <1>1, AccountSteps DEF AsPostgres!Next
<1>2. CASE focus = "agents" /\ AgentCalls
  BY ONLY StoreInv, <1>2, AgentSteps DEF AsPostgres!Next
<1>3. CASE focus = "models" /\ ModelCalls
  BY ONLY StoreInv, <1>3, ModelSteps DEF AsPostgres!Next
<1>4. CASE focus = "manifests" /\ ManifestCalls
  BY ONLY StoreInv, <1>4, ManifestSteps DEF AsPostgres!Next
<1>5. CASE focus = "identities" /\ IdentityCalls
  BY ONLY StoreInv, <1>5, IdentitySteps DEF AsPostgres!Next
<1>6. CASE focus = "settings" /\ SettingCalls
  BY ONLY StoreInv, <1>6, SettingSteps DEF AsPostgres!Next
<1> QED
  BY ONLY Next, <1>1, <1>2, <1>3, <1>4, <1>5, <1>6 DEF Next

\* The store is left alone.
LEMMA Untouched ==
  ASSUME StoreInv, UNCHANGED vars
  PROVE  Kept /\ PgView' = PgView /\ ans' = ans
<1>1. backend' = backend /\ db' = db /\ fresh' = fresh /\ ans' = ans
  BY DEF vars
<1>2. PgView' = PgView
  BY ONLY <1>1 DEF PgView
<1>3. StoreInv'
  BY ONLY <1>1, <1>2, StoreInv DEF StoreInv
<1>4. TablesInv(PgView, fresh)
  BY ONLY StoreInv DEF StoreInv
<1>5. StayPut(PgView, PgView)
  BY ONLY <1>4, SameTables DEF Step
<1> QED
  BY ONLY <1>1, <1>2, <1>3, <1>5 DEF Kept

\* On both backends, in every behaviour, the tables or their image keep their
\* keys, and the slices and maps are the ones a view can be taken of.
LEMMA StoreInvariant == Spec => []StoreInv
<1>1. Init => StoreInv
  BY Opened
<1>2. StoreInv /\ [Next]_vars => StoreInv'
  BY Called, Untouched DEF Kept
<1> QED
  BY <1>1, <1>2, PTL DEF Spec
-----------------------------------------------------------------------------
(* The theorems *)

\* On both backends no two users share a name, no two rows of identities,
\* connections or switches share their key, and no slice holds a row twice,
\* however CreateUser, CreateUserAndIdentity, LinkIdentityToUser, BootstrapAdmin
\* and the upserts follow each other, for any names and any number of ids.
THEOREM UniqueKeys == Spec => []KeysAreUnique
<1>1. StoreInv => KeysAreUnique
  <2> SUFFICES ASSUME StoreInv PROVE KeysAreUnique
    OBVIOUS
  <2>1. PICK t, d, f : Held(t, d, f)
    BY ONLY StoreInv, Now
  <2>2. TablesInv(t, f) /\ t = PgView /\ d = db /\ (backend = "memory" => MemoryInv(d))
    BY ONLY <2>1 DEF Held
  <2>3. \A u, v \in t.users : u.name = v.name => u = v
    BY ONLY <2>2 DEF TablesInv, UsersInv
  <2>4. \A i, j \in t.user_identities :
          i.provider = j.provider /\ i.subject = j.subject => i = j
    BY ONLY <2>2 DEF TablesInv, IdentitiesInv
  <2>5. \A c, e \in t.integration_connections :
          c.user = e.user /\ c.provider = e.provider => c = e
    BY ONLY <2>2 DEF TablesInv, ConnectionsInv
  <2>6. \A r, q \in t.agent_integrations :
          r.agent = q.agent /\ r.provider = q.provider => r = q
    BY ONLY <2>2 DEF TablesInv, SwitchesInv
  <2>7. ASSUME backend = "memory"
        PROVE  /\ Cardinality(Rows(d.users)) = Len(d.users)
               /\ Cardinality(Rows(d.userIdentities)) = Len(d.userIdentities)
               /\ Cardinality(Rows(d.integrations)) = Len(d.integrations)
               /\ Cardinality(Rows(d.agentIntegrations)) = Len(d.agentIntegrations)
    <3>1. /\ Slice(d.users) /\ Slice(d.userIdentities) /\ Slice(d.integrations)
          /\ Slice(d.agentIntegrations)
      BY ONLY <2>2, <2>7 DEF MemoryInv, AccountsInv
    <3> QED
      BY ONLY <3>1, SliceCardinality
  <2> QED
    BY ONLY <2>2, <2>3, <2>4, <2>5, <2>6, <2>7 DEF KeysAreUnique
<1> QED
  BY <1>1, StoreInvariant, PTL

\* An identity never changes hands: no sequence of LinkIdentityToUser,
\* CreateUserAndIdentity and UnlinkIdentity gives the row of an identity that
\* exists to another user, or leaves it to nobody.
THEOREM SettledIdentities == Spec => IdentitiesStayPut
<1>1. StoreInv /\ [Next]_vars => StayPut(PgView, PgView')
  BY Called, Untouched DEF Kept
<1>2. StayPut(PgView, PgView') =>
        \A i \in PgView.user_identities, j \in PgView'.user_identities :
          i.provider = j.provider /\ i.subject = j.subject =>
            i.user = j.user /\ \E u \in PgView'.users : u.id = i.user
  BY ONLY TRUE DEF StayPut
<1> QED
  BY <1>1, <1>2, StoreInvariant, PTL DEF Spec, IdentitiesStayPut

\* Seen through PgView, every step of the in-memory store is a step of the SQL
\* store, with its reply, or one of the five named differences.
THEOREM MemoryRefines == Spec => MemoryImplementsPostgres
<1>1. Init => AsPostgres!Init
  BY Opened
<1>2. StoreInv /\ [Next]_vars => [AsPostgres!Next \/ KnownDifference]_<<PgView, ans>>
  BY Called, Untouched
<1> QED
  BY <1>1, <1>2, StoreInvariant, PTL DEF Spec, MemoryImplementsPostgres

\* What the invariant says of the in-memory store.
LEMMA InMemory ==
  ASSUME StoreInv, backend = "memory"
  PROVE  \E t, d, f : /\ t = PgView /\ d = db /\ f = fresh /\ f \in Nat /\ TablesInv(t, f)
                      /\ MemoryInv(d) /\ View(d) = t
<1>1. PICK t, d, f : Held(t, d, f)
  BY ONLY StoreInv, Now
<1> QED
  BY ONLY <1>1, backend = "memory" DEF Held


\* The methods on users.
LEMMA AccountsAgreeAlways ==
  ASSUME StoreInv, backend = "memory"
  PROVE  AccountsAgree
<1>1. PICK t, d, f : /\ t = PgView /\ d = db /\ f = fresh /\ f \in Nat /\ TablesInv(t, f)
                     /\ MemoryInv(d) /\ View(d) = t
  BY ONLY StoreInv, backend = "memory", InMemory
<1>2. ASSUME NEW n \in Names, NEW h \in Hashes \cup {None}, NEW r \in Roles
      PROVE  SameReply(Mem!CreateUser(d, f, n, h, r), Pg!CreateUser(t, f, n, h, r))
  <2>1. Agree(Mem!CreateUser(d, f, n, h, r), Pg!CreateUser(t, f, n, h, r))
    BY ONLY <1>1, n \in Names, CreateUserCall
  <2> QED
    BY ONLY <2>1 DEF Agree
<1>3. ASSUME NEW id \in Ids
      PROVE  SameReply(Mem!GetUser(d, id), Pg!GetUser(t, id))
  <2>1. Agree(Mem!GetUser(d, id), Pg!GetUser(t, id))
    BY ONLY <1>1, GetUserCall
  <2> QED
    BY ONLY <2>1 DEF Agree
<1>4. ASSUME NEW n \in Names
      PROVE  SameReply(Mem!GetUserByUsername(d, n), Pg!GetUserByUsername(t, n))
  <2>1. Agree(Mem!GetUserByUsername(d, n), Pg!GetUserByUsername(t, n))
    BY ONLY <1>1, GetUserByUsernameCall
  <2> QED
    BY ONLY <2>1 DEF Agree
<1>5. ASSUME NEW n \in Names
      PROVE  NoHash(n) \/ SameReply(Mem!GetPasswordHash(d, n), Pg!GetPasswordHash(t, n))
  <2>1. (\E u \in t.users : u.name = n /\ u.hash = None) \/ Agree(Mem!GetPasswordHash(d, n),
            Pg!GetPasswordHash(t, n))
    BY ONLY <1>1, n \in Names, GetPasswordHashCall
  <2>2. NoHash(n) <=> \E u \in t.users : u.name = n /\ u.hash = None
    BY ONLY <1>1, Differences
  <2> QED
    BY ONLY <2>1, <2>2 DEF Agree
<1>6. SameReply(Mem!ListUsers(d), Pg!ListUsers(t))
  <2>1. Agree(Mem!ListUsers(d), Pg!ListUsers(t))
    BY ONLY <1>1, ListUsersCall
  <2> QED
    BY ONLY <2>1 DEF Agree
<1>7. ASSUME NEW id \in Ids, NEW c \in BOOLEAN \cup {None}, NEW r \in Roles \cup {None}
      PROVE  SameReply(Mem!UpdateUser(d, id, c, r), Pg!UpdateUser(t, id, c, r))
  <2>1. Agree(Mem!UpdateUser(d, id, c, r), Pg!UpdateUser(t, id, c, r))
    BY ONLY <1>1, UpdateUserCall
  <2> QED
    BY ONLY <2>1 DEF Agree
<1>8. ASSUME NEW n \in Names, NEW h \in Hashes
      PROVE  KnownName(n) => SameReply(Mem!SetPasswordHash(d, n, h), Pg!SetPasswordHash(t, n, h))
  <2>1. OfName(t.users, n) # {} => Agree(Mem!SetPasswordHash(d, n, h),
            Pg!SetPasswordHash(t, n, h))
    BY ONLY <1>1, SetPasswordHashCall
  <2>2. KnownName(n) => OfName(t.users, n) # {}
    BY ONLY <1>1, StoreInv, Known
  <2> QED
    BY ONLY <2>1, <2>2 DEF Agree
<1>9. ASSUME NEW n \in Names, NEW h \in Hashes
      PROVE  SameReply(Mem!BootstrapAdmin(d, f, n, h), Pg!BootstrapAdmin(t, f, n, h))
  <2>1. Agree(Mem!BootstrapAdmin(d, f, n, h), Pg!BootstrapAdmin(t, f, n, h))
    BY ONLY <1>1, n \in Names, BootstrapAdminCall
  <2> QED
    BY ONLY <2>1 DEF Agree
<1> QED
  BY ONLY <1>1, <1>2, <1>3, <1>4, <1>5, <1>6, <1>7, <1>8, <1>9 DEF AccountsAgree

\* The methods on agents.
LEMMA AgentsAgreeAlways ==
  ASSUME StoreInv, backend = "memory"
  PROVE  AgentsAgree
<1>1. PICK t, d, f : /\ t = PgView /\ d = db /\ f = fresh /\ f \in Nat /\ TablesInv(t, f)
                     /\ MemoryInv(d) /\ View(d) = t
  BY ONLY StoreInv, backend = "memory", InMemory
<1>2. ASSUME NEW u \in Ids
      PROVE  KnownUser(u) => SameReply(Mem!CreateAgent(d, f, u), Pg!CreateAgent(t, f, u))
  <2> SUFFICES ASSUME KnownUser(u) PROVE SameReply(Mem!CreateAgent(d, f, u),
            Pg!CreateAgent(t, f, u))
    OBVIOUS
  <2>1. OfId(t.users, u) # {}
    BY ONLY <1>1, StoreInv, KnownUser(u), Known
  <2>2. \E x \in t.users : x.id = u
    BY ONLY <2>1 DEF OfId
  <2>3. Agree(Mem!CreateAgent(d, f, u), Pg!CreateAgent(t, f, u))
    BY ONLY <1>1, <2>2, CreateAgentCall
  <2> QED
    BY ONLY <2>3 DEF Agree
<1>3. ASSUME NEW u \in Ids
      PROVE  SameReply(Mem!ListAgents(d, u), Pg!ListAgents(t, u))
  <2>1. Agree(Mem!ListAgents(d, u), Pg!ListAgents(t, u))
    BY ONLY <1>1, ListAgentsCall
  <2> QED
    BY ONLY <2>1 DEF Agree
<1>4. ASSUME NEW u \in Ids
      PROVE  SameReply(Mem!ListUserIntegrationProviderIDs(d, u),
                Pg!ListUserIntegrationProviderIDs(t, u))
  <2>1. Agree(Mem!ListUserIntegrationProviderIDs(d, u), Pg!ListUserIntegrationProviderIDs(t, u))
    BY ONLY <1>1, ListUserIntegrationProviderIDsCall
  <2> QED
    BY ONLY <2>1 DEF Agree
<1>5. ASSUME NEW a \in Ids
      PROVE  SameReply(Mem!GetAgent(d, a), Pg!GetAgent(t, a))
  <2>1. Agree(Mem!GetAgent(d, a), Pg!GetAgent(t, a))
    BY ONLY <1>1, GetAgentCall
  <2> QED
    BY ONLY <2>1 DEF Agree
<1>6. ASSUME NEW a \in Ids
      PROVE  LeftSwitches(a) \/ SameReply(Mem!DeleteAgent(d, a), Pg!DeleteAgent(t, a))
  <2>1. OfId(t.agents, a) # {} \/ SwitchesOfAgent(t.agent_integrations, a) = {} =>
          Agree(Mem!DeleteAgent(d, a), Pg!DeleteAgent(t, a))
    BY ONLY <1>1, DeleteAgentCall
  <2>2. \/ LeftSwitches(a) \/ OfId(t.agents, a) # {}
        \/ SwitchesOfAgent(t.agent_integrations, a) = {}
    BY ONLY <1>1, Differences
  <2> QED
    BY ONLY <2>1, <2>2 DEF Agree
<1>7. ASSUME NEW a \in Ids
      PROVE  SameReply(Mem!ListAgentIntegrations(d, a), Pg!ListAgentIntegrations(t, a))
  <2>1. Agree(Mem!ListAgentIntegrations(d, a), Pg!ListAgentIntegrations(t, a))
    BY ONLY <1>1, ListAgentIntegrationsCall
  <2> QED
    BY ONLY <2>1 DEF Agree
<1>8. ASSUME NEW a \in Ids
      PROVE  SameReply(Mem!UpdateAgentState(d, a, "running"),
                Pg!UpdateAgentState(t, a, "running"))
  <2>1. Agree(Mem!UpdateAgentState(d, a, "running"), Pg!UpdateAgentState(t, a, "running"))
    BY ONLY <1>1, UpdateAgentStateCall
  <2> QED
    BY ONLY <2>1 DEF Agree
<1>9. ASSUME NEW a \in Ids
      PROVE  SameReply(Mem!UpdateAgentError(d, a, ""), Pg!UpdateAgentError(t, a, ""))
  <2>1. Agree(Mem!UpdateAgentError(d, a, ""), Pg!UpdateAgentError(t, a, ""))
    BY ONLY <1>1, UpdateAgentErrorCall
  <2> QED
    BY ONLY <2>1 DEF Agree
<1> QED
  BY ONLY <1>1, <1>2, <1>3, <1>4, <1>5, <1>6, <1>7, <1>8, <1>9 DEF AgentsAgree

\* The methods on connections and switches.
LEMMA IntegrationsAgreeAlways ==
  ASSUME StoreInv, backend = "memory"
  PROVE  IntegrationsAgree
<1>1. PICK t, d, f : /\ t = PgView /\ d = db /\ f = fresh /\ f \in Nat /\ TablesInv(t, f)
                     /\ MemoryInv(d) /\ View(d) = t
  BY ONLY StoreInv, backend = "memory", InMemory
<1>2. ASSUME NEW i \in Ids, NEW p \in Providers
      PROVE  SameReply(Mem!GetIntegrationConnection(d, i, p),
                Pg!GetIntegrationConnection(t, i, p))
  <2>1. Agree(Mem!GetIntegrationConnection(d, i, p), Pg!GetIntegrationConnection(t, i, p))
    BY ONLY <1>1, GetIntegrationConnectionCall
  <2> QED
    BY ONLY <2>1 DEF Agree
<1>3. ASSUME NEW i \in Ids, NEW p \in Providers
      PROVE  DisconnectDiffers(i, p) \/ SameReply(Mem!DeleteIntegrationConnection(d, i, p),
                Pg!DeleteIntegrationConnection(t, i, p))
  <2>1. /\ OfConnection(t.integration_connections, i, p) # {}
        /\ SwitchesOfProvider(t.agent_integrations, p) = SwitchesOfOwner(t, i, p)
        => Agree(Mem!DeleteIntegrationConnection(d, i, p),
                  Pg!DeleteIntegrationConnection(t, i, p))
    BY ONLY <1>1, DeleteIntegrationConnectionCall
  <2>2. \/ DisconnectDiffers(i, p)
        \/ /\ OfConnection(t.integration_connections, i, p) # {}
           /\ SwitchesOfProvider(t.agent_integrations, p) = SwitchesOfOwner(t, i, p)
    BY ONLY <1>1, Differences
  <2> QED
    BY ONLY <2>1, <2>2 DEF Agree
<1>4. ASSUME NEW i \in Ids, NEW p \in Providers
      PROVE  SameReply(Mem!GetAgentIntegration(d, i, p), Pg!GetAgentIntegration(t, i, p))
  <2>1. Agree(Mem!GetAgentIntegration(d, i, p), Pg!GetAgentIntegration(t, i, p))
    BY ONLY <1>1, GetAgentIntegrationCall
  <2> QED
    BY ONLY <2>1 DEF Agree
<1>5. ASSUME NEW i \in Ids, NEW p \in Providers
      PROVE  KnownUser(i) => SameReply(Mem!UpsertIntegrationConnection(d, i, p, "token", 0),
                Pg!UpsertIntegrationConnection(t, i, p, "token", 0))
  <2>1. PICK z : z = UpsertedConnection(t, i, p, "token")
    OBVIOUS
  <2>2. /\ Pg!UpsertIntegrationConnection(t, i, p, "token", 0) =
            IF \A r \in t.users : r.id # i THEN Pg!Fail(t, "reference")
             ELSE UpsertedConnection(t, i, p, "token")
        /\ Agree(Mem!UpsertIntegrationConnection(d, i, p, "token", 0), UpsertedConnection(t, i, p, "token"))
    BY ONLY <1>1, UpsertIntegrationConnectionCall
  <2>3. KnownUser(i) => ~ (\A r \in t.users : r.id # i)
    <3>1. KnownUser(i) => OfId(t.users, i) # {}
      BY ONLY <1>1, StoreInv, Known
    <3> QED
      BY ONLY <3>1 DEF OfId
  <2> QED
    BY ONLY <2>1, <2>2, <2>3 DEF Agree
<1>6. ASSUME NEW i \in Ids, NEW p \in Providers, NEW e \in BOOLEAN
      PROVE  NoAgent(i) \/ SameReply(Mem!UpsertAgentIntegration(d, i, p, e, 0),
                Pg!UpsertAgentIntegration(t, i, p, e, 0))
  <2>1. PICK z : z = UpsertedSwitch(t, i, p, e)
    OBVIOUS
  <2>2. /\ Pg!UpsertAgentIntegration(t, i, p, e, 0) =
            IF \A r \in t.agents : r.id # i THEN Pg!Fail(t, "reference")
             ELSE UpsertedSwitch(t, i, p, e)
        /\ Agree(Mem!UpsertAgentIntegration(d, i, p, e, 0), UpsertedSwitch(t, i, p, e))
    BY ONLY <1>1, UpsertAgentIntegrationCall
  <2>3. NoAgent(i) <=> \A r \in t.agents : r.id # i
    BY ONLY <1>1, Differences
  <2> QED
    BY ONLY <2>1, <2>2, <2>3 DEF Agree
<1> QED
  BY ONLY <1>1, <1>2, <1>3, <1>4, <1>5, <1>6 DEF IntegrationsAgree

\* The methods on models and gateway settings.
LEMMA ModelsAgreeAlways ==
  ASSUME StoreInv, backend = "memory"
  PROVE  ModelsAgree
<1>1. PICK t, d, f : /\ t = PgView /\ d = db /\ f = fresh /\ f \in Nat /\ TablesInv(t, f)
                     /\ MemoryInv(d) /\ View(d) = t
  BY ONLY StoreInv, backend = "memory", InMemory
<1>2. ASSUME NEW e \in BOOLEAN
      PROVE  SameReply(Mem!CreateLLMModel(d, f, "d", "p", e),
                Pg!CreateLLMModel(t, f, "d", "p", e))
  <2>1. Agree(Mem!CreateLLMModel(d, f, "d", "p", e), Pg!CreateLLMModel(t, f, "d", "p", e))
    BY ONLY <1>1, CreateLLMModelCall
  <2> QED
    BY ONLY <2>1 DEF Agree
<1>3. ASSUME NEW id \in Ids
      PROVE  SameReply(Mem!GetLLMModel(d, id), Pg!GetLLMModel(t, id))
  <2>1. Agree(Mem!GetLLMModel(d, id), Pg!GetLLMModel(t, id))
    BY ONLY <1>1, GetLLMModelCall
  <2> QED
    BY ONLY <2>1 DEF Agree
<1>4. ASSUME NEW id \in Ids, NEW c \in {"e", None}, NEW p \in {"q", None}, NEW e \in BOOLEAN \cup {None}
      PROVE  SameReply(Mem!UpdateLLMModel(d, id, c, p, e), Pg!UpdateLLMModel(t, id, c, p, e))
  <2>1. Agree(Mem!UpdateLLMModel(d, id, c, p, e), Pg!UpdateLLMModel(t, id, c, p, e))
    BY ONLY <1>1, UpdateLLMModelCall
  <2> QED
    BY ONLY <2>1 DEF Agree
<1>5. SameReply(Mem!ListLLMModels(d), Pg!ListLLMModels(t))
  <2>1. Agree(Mem!ListLLMModels(d), Pg!ListLLMModels(t))
    BY ONLY <1>1, ListLLMModelsCall
  <2> QED
    BY ONLY <2>1 DEF Agree
<1>6. SameReply(Mem!GetLLMGatewaySettings(d), Pg!GetLLMGatewaySettings(t))
  <2>1. Agree(Mem!GetLLMGatewaySettings(d), Pg!GetLLMGatewaySettings(t))
    BY ONLY <1>1, GetLLMGatewaySettingsCall
  <2> QED
    BY ONLY <2>1 DEF Agree
<1>7. ASSUME NEW e \in BOOLEAN, NEW s \in {"s", None}
      PROVE  ZeroGateway(e, s) \/ SameReply(Mem!UpsertLLMGatewaySettings(d, e, s),
                Pg!UpsertLLMGatewaySettings(t, e, s))
  <2>1. ~ ZeroGateway(e, s) => Agree(Mem!UpsertLLMGatewaySettings(d, e, s),
            Pg!UpsertLLMGatewaySettings(t, e, s))
    BY ONLY <1>1, UpsertLLMGatewaySettingsCall
  <2> QED
    BY ONLY <2>1 DEF Agree
<1> QED
  BY ONLY <1>1, <1>2, <1>3, <1>4, <1>5, <1>6, <1>7 DEF ModelsAgree

\* The methods on plugin manifests.
LEMMA ManifestsAgreeAlways ==
  ASSUME StoreInv, backend = "memory"
  PROVE  ManifestsAgree
<1>1. PICK t, d, f : /\ t = PgView /\ d = db /\ f = fresh /\ f \in Nat /\ TablesInv(t, f)
                     /\ MemoryInv(d) /\ View(d) = t
  BY ONLY StoreInv, backend = "memory", InMemory
<1>2. ASSUME NEW b \in BOOLEAN
      PROVE  SameReply(Mem!ListPluginManifests(d, b), Pg!ListPluginManifests(t, b))
  <2>1. Agree(Mem!ListPluginManifests(d, b), Pg!ListPluginManifests(t, b))
    BY ONLY <1>1, ListPluginManifestsCall
  <2> QED
    BY ONLY <2>1 DEF Agree
<1>3. ASSUME NEW id \in PluginIds
      PROVE  SameReply(Mem!GetPluginManifest(d, id), Pg!GetPluginManifest(t, id))
  <2>1. Agree(Mem!GetPluginManifest(d, id), Pg!GetPluginManifest(t, id))
    BY ONLY <1>1, id \in PluginIds, GetPluginManifestCall
  <2> QED
    BY ONLY <2>1 DEF Agree
<1>4. ASSUME NEW id \in PluginIds
      PROVE  SameReply(Mem!DeletePluginManifest(d, id), Pg!DeletePluginManifest(t, id))
  <2>1. Agree(Mem!DeletePluginManifest(d, id), Pg!DeletePluginManifest(t, id))
    BY ONLY <1>1, id \in PluginIds, DeletePluginManifestCall
  <2> QED
    BY ONLY <2>1 DEF Agree
<1>5. ASSUME NEW id \in PluginIds, NEW y \in Yamls, NEW e \in BOOLEAN
      PROVE  SameReply(Mem!UpsertPluginManifest(d, id, y, e),
                Pg!UpsertPluginManifest(t, id, y, e))
  <2>1. Agree(Mem!UpsertPluginManifest(d, id, y, e), Pg!UpsertPluginManifest(t, id, y, e))
    BY ONLY <1>1, id \in PluginIds, y \in Yamls, e \in BOOLEAN, UpsertPluginManifestCall
  <2> QED
    BY ONLY <2>1 DEF Agree
<1> QED
  BY ONLY <1>1, <1>2, <1>3, <1>4, <1>5 DEF ManifestsAgree

\* The methods on identities.
LEMMA IdentitiesAgreeAlways ==
  ASSUME StoreInv, backend = "memory"
  PROVE  IdentitiesAgree
<1>1. PICK t, d, f : /\ t = PgView /\ d = db /\ f = fresh /\ f \in Nat /\ TablesInv(t, f)
                     /\ MemoryInv(d) /\ View(d) = t
  BY ONLY StoreInv, backend = "memory", InMemory
<1>2. ASSUME NEW p \in Providers, NEW s \in Subjects
      PROVE  SameReply(Mem!GetUserIDByIdentity(d, p, s), Pg!GetUserIDByIdentity(t, p, s))
  <2>1. Agree(Mem!GetUserIDByIdentity(d, p, s), Pg!GetUserIDByIdentity(t, p, s))
    BY ONLY <1>1, GetUserIDByIdentityCall
  <2> QED
    BY ONLY <2>1 DEF Agree
<1>3. ASSUME NEW p \in Providers, NEW s \in Subjects
      PROVE  SameReply(Mem!TouchIdentityLogin(d, p, s), Pg!TouchIdentityLogin(t, p, s))
  <2>1. Agree(Mem!TouchIdentityLogin(d, p, s), Pg!TouchIdentityLogin(t, p, s))
    BY ONLY <1>1, TouchIdentityLoginCall
  <2> QED
    BY ONLY <2>1 DEF Agree
<1>4. ASSUME NEW p \in Providers, NEW s \in Subjects, NEW n \in Names
      PROVE  SameReply(Mem!CreateUserAndIdentity(d, f, n, "user", p, s),
                Pg!CreateUserAndIdentity(t, f, n, "user", p, s))
  <2>1. Agree(Mem!CreateUserAndIdentity(d, f, n, "user", p, s),
            Pg!CreateUserAndIdentity(t, f, n, "user", p, s))
    BY ONLY <1>1, n \in Names, CreateUserAndIdentityCall
  <2> QED
    BY ONLY <2>1 DEF Agree
<1>5. ASSUME NEW p \in Providers, NEW s \in Subjects, NEW u \in Ids
      PROVE  SameReply(Mem!LinkIdentityToUser(d, u, p, s), Pg!LinkIdentityToUser(t, u, p, s))
  <2>1. Agree(Mem!LinkIdentityToUser(d, u, p, s), Pg!LinkIdentityToUser(t, u, p, s))
    BY ONLY <1>1, LinkIdentityToUserCall
  <2> QED
    BY ONLY <2>1 DEF Agree
<1>6. ASSUME NEW p \in Providers, NEW s \in Subjects, NEW u \in Ids
      PROVE  SameReply(Mem!UnlinkIdentity(d, u, p, s), Pg!UnlinkIdentity(t, u, p, s))
  <2>1. Agree(Mem!UnlinkIdentity(d, u, p, s), Pg!UnlinkIdentity(t, u, p, s))
    BY ONLY <1>1, UnlinkIdentityCall
  <2> QED
    BY ONLY <2>1 DEF Agree
<1>7. ASSUME NEW u \in Ids
      PROVE  SameReply(Mem!ListUserIdentities(d, u), Pg!ListUserIdentities(t, u))
  <2>1. Agree(Mem!ListUserIdentities(d, u), Pg!ListUserIdentities(t, u))
    BY ONLY <1>1, ListUserIdentitiesCall
  <2> QED
    BY ONLY <2>1 DEF Agree
<1> QED
  BY ONLY <1>1, <1>2, <1>3, <1>4, <1>5, <1>6, <1>7 DEF IdentitiesAgree

\* The methods on settings.
LEMMA SettingsAgreeAlways ==
  ASSUME StoreInv, backend = "memory"
  PROVE  SettingsAgree
<1>1. PICK t, d, f : /\ t = PgView /\ d = db /\ f = fresh /\ f \in Nat /\ TablesInv(t, f)
                     /\ MemoryInv(d) /\ View(d) = t
  BY ONLY StoreInv, backend = "memory", InMemory
<1>2. ASSUME NEW k \in Keys
      PROVE  SameReply(Mem!GetAppSetting(d, k), Pg!GetAppSetting(t, k))
  <2>1. Agree(Mem!GetAppSetting(d, k), Pg!GetAppSetting(t, k))
    BY ONLY <1>1, k \in Keys, GetAppSettingCall
  <2> QED
    BY ONLY <2>1 DEF Agree
<1>3. ASSUME NEW k \in Keys, NEW v \in {"local", "sso"}
      PROVE  SameReply(Mem!SetAppSetting(d, k, v), Pg!SetAppSetting(t, k, v))
  <2>1. v # ""
    OBVIOUS
  <2>2. Agree(Mem!SetAppSetting(d, k, v), Pg!SetAppSetting(t, k, v))
    BY ONLY <1>1, k \in Keys, <2>1, SetAppSettingCall
  <2> QED
    BY ONLY <2>2 DEF Agree
<1>4. ASSUME NEW ks \in SUBSET Keys
      PROVE  SameReply(Mem!ListAppSettings(d, ks), Pg!ListAppSettings(t, ks))
  <2>1. ks \subseteq Keys
    OBVIOUS
  <2>2. Agree(Mem!ListAppSettings(d, ks), Pg!ListAppSettings(t, ks))
    BY ONLY <1>1, <2>1, ListAppSettingsCall
  <2> QED
    BY ONLY <2>2 DEF Agree
<1> QED
  BY ONLY <1>1, <1>2, <1>3, <1>4 DEF SettingsAgree

\* In every state the in-memory store can get to, every method answers and
\* leaves the data as the same method of the SQL store would, but for the five
\* named differences.
THEOREM AgreeingCalls == Spec => []CallsAgree
<1>1. StoreInv => CallsAgree
  BY AccountsAgreeAlways, AgentsAgreeAlways, IntegrationsAgreeAlways, ModelsAgreeAlways,
     ManifestsAgreeAlways, IdentitiesAgreeAlways, SettingsAgreeAlways DEF CallsAgree
<1> QED
  BY <1>1, StoreInvariant, PTL
===============================================================================
