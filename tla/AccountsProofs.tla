--------------------------- MODULE AccountsProofs ---------------------------
(***************************************************************************)
(* Proofs about Accounts, for any users, providers, people and requests    *)
(* and any number of crashes and store errors.                             *)
(***************************************************************************)
EXTENDS Accounts, TLAPS, FiniteSetTheorems

USE AccountsAssumption

\* The tables, as a record.
Tables(d) ==
  d = [users |-> d.users, agents |-> d.agents, llm_models |-> d.llm_models,
       gateway |-> d.gateway, integration_connections |-> d.integration_connections,
       agent_integrations |-> d.agent_integrations,
       plugin_manifests |-> d.plugin_manifests,
       user_identities |-> d.user_identities, app_settings |-> d.app_settings]

\* A request, as a record.
IsRequest(x) ==
  x = [pc |-> x.pc, caller |-> x.caller, flow |-> x.flow, set |-> x.set,
       out |-> x.out, low |-> x.low]

\* The sign-in attempts, as a function to records.
IsFlows(fl) == fl = [f \in Flows |-> [stage |-> fl[f].stage, provider |-> fl[f].provider,
                                      subject |-> fl[f].subject]]

Shape ==
  /\ Tables(db)
  /\ req = [r \in Reqs |-> req[r]] /\ \A r \in Reqs : IsRequest(req[r])
  /\ IsFlows(flow)
  /\ snapshot = [p \in Providers |-> [status |-> snapshot[p].status,
                                      enabled |-> snapshot[p].enabled]]
  /\ sessions = [t \in Tokens |-> sessions[t]]
  /\ ~ up => \A r \in Reqs : req[r] = Idle

\* Whom a request still has to refuse is disabled, or plain, to this moment.
Entitled(x, users) ==
  /\ x.out \subseteq Disabled(users) /\ x.low \subseteq Plain(users)
  /\ x.pc \in Served =>
       /\ x.caller.id \notin x.out
       /\ x.caller.role = "admin" => x.caller.id \notin x.low

EntitledInv == \A r \in Reqs : Entitled(req[r], db.users)

\* Every link of the table was made by this identity or an administrator,
\* and so was the one a sign-in has found; its flow can change no more.
IsLink(i) == i = [provider |-> i.provider, subject |-> i.subject, user |-> i.user,
                  seen |-> i.seen]
LinkOwned(i, own) == IsLink(i) /\ <<<<i.provider, i.subject>>, i.user>> \in own

SignIn == {"find", "touch", "user", "lookup", "create", "issue"}

Owner(x, fl, own) ==
  x.pc \in SignIn =>
    /\ x.flow \in Flows /\ fl[x.flow].stage = "spent"
    /\ LET identity == <<fl[x.flow].provider, fl[x.flow].subject>>
       IN  /\ x.pc \in {"touch", "user"} => <<identity, x.set>> \in own
           /\ x.pc = "issue" => <<identity, x.caller.id>> \in own

OwnedInv ==
  /\ \A i \in db.user_identities : LinkOwned(i, owned)
  /\ \A r \in Reqs : Owner(req[r], flow, owned)
  /\ SessionsAreOwned

\* What a Reload has read is what is stored, or another patch is under way:
\* the first of the two to apply counts as overlapped.
PatchSteps == {"provider", "patched", "read", "apply"}
Other(r) == \E q \in Reqs \ {r} : Patching(q)

Settled ==
  /\ mode = ModeOf(StoredMode)
  /\ \A p \in Providers : snapshot[p].enabled = EnabledBy(StoredOverlay, p)

Reloading(r) ==
  req[r].pc \in {"read", "apply"} =>
    /\ req[r].set = [mode |-> req[r].set.mode, overlay |-> req[r].set.overlay]
    /\ req[r].set.mode = StoredMode \/ Other(r)
    /\ req[r].pc = "apply" => req[r].set.overlay = StoredOverlay \/ Other(r)

SettingsInv ==
  up /\ past = {} =>
    /\ (\A r \in Reqs : ~ Patching(r)) => Settled
    /\ \A r \in Reqs : Reloading(r)

Inv == Shape /\ EntitledInv /\ OwnedInv /\ SettingsInv
-----------------------------------------------------------------------------
(* The tables *)

\* Membership in Disabled and Plain, and what a row more does to them.
LEMMA OneMore ==
  ASSUME NEW U, NEW w, \A u \in U : u.id # w.id
  PROVE  Disabled(U) \subseteq Disabled(U \cup {w}) /\ Plain(U) \subseteq Plain(U \cup {w})
<1>1. ASSUME NEW x \in Disabled(U) PROVE x \in Disabled(U \cup {w})
  <2>1. PICK u \in U : u.id = x
    BY DEF Disabled
  <2>2. \A v \in U \cup {w} : ~ v.disabled => v.id # x
    BY <2>1 DEF Disabled
  <2> QED
    BY <2>1, <2>2 DEF Disabled
<1>2. ASSUME NEW x \in Plain(U) PROVE x \in Plain(U \cup {w})
  <2>1. PICK u \in U : u.id = x
    BY DEF Plain
  <2>2. \A v \in U \cup {w} : v.role = "admin" => v.id # x
    BY <2>1 DEF Plain
  <2> QED
    BY <2>1, <2>2 DEF Plain
<1> QED
  BY <1>1, <1>2

\* A new user has an id nobody has: it makes nobody enabled or an administrator.
LEMMA NewUser ==
  ASSUME NEW d, Tables(d), NEW id, NEW name, NEW hash, NEW role,
         Pg!CreateUser(d, id, name, hash, role).err = ""
  PROVE  LET e == Pg!CreateUser(d, id, name, hash, role).db
         IN  /\ Tables(e) /\ e.user_identities = d.user_identities
             /\ e.app_settings = d.app_settings
             /\ Disabled(d.users) \subseteq Disabled(e.users)
             /\ Plain(d.users) \subseteq Plain(e.users)
<1> DEFINE e == Pg!CreateUser(d, id, name, hash, role).db
<1>1. /\ \A u \in d.users : u.id # id
      /\ e = [d EXCEPT !["users"] = @ \cup {Pg!UserRow(id, name, hash, role)}]
  BY DEF Tables, Pg!CreateUser, Pg!PublicReply, Pg!InsertRow, Pg!Fail, Pg!Ok
<1>2. /\ Tables(e) /\ e.user_identities = d.user_identities
      /\ e.app_settings = d.app_settings
      /\ e.users = d.users \cup {Pg!UserRow(id, name, hash, role)}
  BY <1>1 DEF Tables
<1>3. Pg!UserRow(id, name, hash, role).id = id
  BY DEF Tables, Pg!UserRow
<1>4. Disabled(d.users) \subseteq Disabled(e.users) /\ Plain(d.users) \subseteq Plain(e.users)
  <2> DEFINE w == Pg!UserRow(id, name, hash, role)
  <2>1. \A u \in d.users : u.id # w.id
    BY <1>1, <1>3
  <2>2. e.users = d.users \cup {w}
    BY <1>2
  <2> HIDE DEF e, w
  <2>3. /\ Disabled(d.users) \subseteq Disabled(d.users \cup {w})
        /\ Plain(d.users) \subseteq Plain(d.users \cup {w})
    BY ONLY <2>1, OneMore
  <2> QED
    BY ONLY <2>2, <2>3
<1> QED
  BY <1>2, <1>4

\* What an administrator or bootstrapAdmin changes of users is in that table.
LEMMA ChangedUser ==
  ASSUME NEW d, Tables(d), NEW id, NEW disabled, NEW role
  PROVE  LET e == Pg!UpdateUser(d, id, disabled, role).db
         IN  /\ Tables(e) /\ e.user_identities = d.user_identities
             /\ e.app_settings = d.app_settings
  BY DEF Tables, Pg!UpdateUser, Pg!PublicReply, Pg!UpdateWhere, Pg!Where, Pg!Fail, Pg!Ok

\* bootstrapAdmin leaves links and settings alone.
LEMMA BootstrappedTables ==
  ASSUME NEW id, Tables(db)
  PROVE  LET e == Bootstrapped(id)
         IN  /\ Tables(e) /\ e.user_identities = db.user_identities
             /\ e.app_settings = db.app_settings
<1> DEFINE Same(e) == /\ Tables(e) /\ e.user_identities = db.user_identities
                      /\ e.app_settings = db.app_settings
           made == Pg!BootstrapAdmin(db, id, Admin, Password).db
           given == Pg!UpsertLLMGatewaySettings(made, TRUE, GatewaySecret).db
<1>1. Same(made)
  BY DEF Tables, Pg!BootstrapAdmin, Pg!OnConflict, Pg!UpdateWhere, Pg!InsertRow, Pg!Where, Pg!Fail, Pg!Ok
<1>2. Same(given)
  <2>1. \/ given = made
        \/ \E t : given = [made EXCEPT !["gateway"] = t]
    BY DEF Tables, Pg!UpsertLLMGatewaySettings, Pg!OnConflict, Pg!UpdateWhere, Pg!InsertRow, Pg!Where,
       Pg!Fail, Pg!Ok
  <2> HIDE DEF made, given
  <2> QED
    BY <1>1, <2>1 DEF Tables
<1>3. ASSUME NEW d, Same(d)
      PROVE  Same(Pg!SetPasswordHash(d, Admin, Password).db)
  BY <1>3 DEF Tables, Pg!SetPasswordHash, Pg!UpdateWhere, Pg!Where, Pg!Fail, Pg!Ok
<1> QED
  BY <1>1, <1>2, <1>3 DEF Bootstrapped

\* A user who signs in for the first time, and the link to them.
LEMMA NewUserAndLink ==
  ASSUME NEW d, Tables(d), NEW id, NEW name, NEW role, NEW p, NEW s
  PROVE  LET made == Pg!CreateUserAndIdentity(d, id, name, role, p, s)
             e == made.db
         IN  /\ made.err # "" => e = d
             /\ made.err = "" =>
                  /\ Row(made).id = id
                  /\ Tables(e) /\ e.app_settings = d.app_settings
                  /\ e.user_identities = d.user_identities \cup {Pg!IdentityRow(p, s, id)}
                  /\ Disabled(d.users) \subseteq Disabled(e.users)
                  /\ Plain(d.users) \subseteq Plain(e.users)
<1> DEFINE made == Pg!CreateUserAndIdentity(d, id, name, role, p, s)
           user == Pg!CreateUser(d, id, name, None, role)
           link == Pg!InsertIdentity(user.db, p, s, id)
<1>1. CASE user.err # ""
  BY <1>1 DEF Tables, Pg!CreateUserAndIdentity, Pg!CreateUser, Pg!PublicReply, Pg!InsertRow, Pg!Fail, Pg!Ok
<1>2. CASE user.err = "" /\ link.err # ""
  BY <1>2 DEF Tables, Pg!CreateUserAndIdentity, Pg!Fail
<1>3. CASE user.err = "" /\ link.err = ""
  <2>1. made.db = link.db /\ made.rows = user.rows /\ made.err = ""
    BY <1>3 DEF Tables, Pg!CreateUserAndIdentity, Pg!Ok
  <2>2. user.rows = {Pg!Public(Pg!UserRow(id, name, None, role))}
    BY <1>3 DEF Tables, Pg!CreateUser, Pg!PublicReply, Pg!InsertRow, Pg!Fail, Pg!Ok
  <2>3. Row(made).id = id
    <3> HIDE DEF made, user
    <3>1. Row(made) \in made.rows
      BY <2>1, <2>2 DEF Row
    <3>2. Row(made) = Pg!Public(Pg!UserRow(id, name, None, role))
      BY <2>1, <2>2, <3>1
    <3> QED
      BY <3>2 DEF Tables, Pg!Public, Pg!UserRow
  <2>4. /\ Tables(user.db) /\ user.db.user_identities = d.user_identities
        /\ user.db.app_settings = d.app_settings
        /\ Disabled(d.users) \subseteq Disabled(user.db.users)
        /\ Plain(d.users) \subseteq Plain(user.db.users)
    BY <1>3, NewUser
  <2>5. /\ Tables(link.db) /\ link.db.users = user.db.users
        /\ link.db.app_settings = user.db.app_settings
        /\ link.db.user_identities = user.db.user_identities \cup {Pg!IdentityRow(p, s, id)}
    <3> HIDE DEF user
    <3> QED
      BY <1>3, <2>4 DEF Tables, Pg!InsertIdentity, Pg!InsertRow, Pg!Fail, Pg!Ok
  <2> QED
    BY <2>1, <2>3, <2>4, <2>5
<1> QED
  BY <1>1, <1>2, <1>3

\* TouchIdentityLogin changes only when a link was last seen.
LEMMA Touched ==
  ASSUME NEW d, Tables(d), NEW p, NEW s
  PROVE  LET e == Pg!TouchIdentityLogin(d, p, s).db
         IN  /\ Tables(e) /\ e.users = d.users /\ e.app_settings = d.app_settings
             /\ \A i \in e.user_identities : \E j \in d.user_identities :
                  i = j \/ i = [j EXCEPT !.seen = TRUE]
  BY DEF Tables, Pg!TouchIdentityLogin, Pg!UpdateWhere, Pg!Where, Pg!Fail, Pg!Ok

\* UnlinkIdentity only removes links.
LEMMA Unlinked ==
  ASSUME NEW d, Tables(d), NEW p, NEW s, NEW id
  PROVE  LET e == Pg!UnlinkIdentity(d, id, p, s).db
         IN  /\ Tables(e) /\ e.users = d.users /\ e.app_settings = d.app_settings
             /\ e.user_identities \subseteq d.user_identities
  BY DEF Tables, Pg!UnlinkIdentity, Pg!DeleteWhere, Pg!Where, Pg!Fail, Pg!Ok

\* SetAppSetting leaves users and links alone.
LEMMA SettingSet ==
  ASSUME NEW d, Tables(d), NEW k, NEW v
  PROVE  LET e == Pg!SetAppSetting(d, k, v).db
         IN  /\ Tables(e) /\ e.users = d.users /\ e.user_identities = d.user_identities
  BY DEF Tables, Pg!SetAppSetting, Pg!OnConflict, Pg!UpdateWhere, Pg!InsertRow, Pg!Where, Pg!Fail, Pg!Ok

\* The user a query has found.
LEMMA FoundUser ==
  ASSUME NEW d, NEW id, Pg!GetUser(d, id).err = ""
  PROVE  \E u \in d.users : u.id = id /\ Row(Pg!GetUser(d, id)) = Pg!Public(u)
<1>1. /\ Pg!GetUser(d, id).rows # {}
      /\ \A v \in Pg!GetUser(d, id).rows : \E u \in d.users : u.id = id /\ v = Pg!Public(u)
  BY DEF Tables, Pg!GetUser, Pg!PublicReply, Pg!SelectRow, Pg!Where, Pg!Fail, Pg!Ok
<1> QED
  BY <1>1 DEF Row

\* The link a query has found.
LEMMA FoundLink ==
  ASSUME NEW d, NEW p, NEW s, Pg!GetUserIDByIdentity(d, p, s).rows # {}
  PROVE  \E i \in d.user_identities : /\ i.provider = p /\ i.subject = s
                                      /\ Row(Pg!GetUserIDByIdentity(d, p, s)).user = i.user
<1>1. \A v \in Pg!GetUserIDByIdentity(d, p, s).rows :
        \E i \in d.user_identities : i.provider = p /\ i.subject = s /\ v.user = i.user
  BY DEF Tables, Pg!GetUserIDByIdentity, Pg!Where, Pg!Ok
<1> QED
  BY <1>1 DEF Row
-----------------------------------------------------------------------------
(* Steps that change one request *)

\* The login settings are as before.
LEMMA SameSettings ==
  ASSUME db'.app_settings = db.app_settings
  PROVE  StoredMode' = StoredMode /\ StoredOverlay' = StoredOverlay
  BY DEF StoredMode, StoredOverlay, Pg!GetAppSetting, Pg!ListAppSettings, Pg!Where, Pg!Ok

\* One request changes, to another request.
LEMMA OneRequest ==
  ASSUME Shape, NEW r \in Reqs, NEW x, IsRequest(x), req' = [req EXCEPT ![r] = x]
  PROVE  /\ req'[r] = x /\ \A q \in Reqs \ {r} : req'[q] = req[q]
         /\ req' = [q \in Reqs |-> req'[q]] /\ \A q \in Reqs : IsRequest(req'[q])
<1>1. req = [q \in Reqs |-> req[q]] /\ \A q \in Reqs : IsRequest(req[q])
  BY DEF Shape
<1> QED
  BY <1>1

\* Nothing happens to the settings and the registry.
LEMMA SettingsFrame ==
  ASSUME SettingsInv, UNCHANGED <<up, mode, past>>,
         \A p \in Providers : snapshot'[p].enabled = snapshot[p].enabled,
         db'.app_settings = db.app_settings,
         \A r \in Reqs : \/ req[r].pc \notin PatchSteps /\ req'[r].pc \notin PatchSteps
                         \/ req'[r].pc = req[r].pc /\ req'[r].set = req[r].set
  PROVE  SettingsInv'
<1>1. StoredMode' = StoredMode /\ StoredOverlay' = StoredOverlay
  BY SameSettings
<1>2. \A r \in Reqs : /\ Patching(r)' <=> Patching(r)
                      /\ Patching(r) => req'[r].pc = req[r].pc /\ req'[r].set = req[r].set
  BY DEF Patching, PatchSteps
<1>3. \A r \in Reqs : Other(r)' <=> Other(r)
  BY <1>2 DEF Other
<1>4. Settled => Settled'
  <2> SUFFICES ASSUME Settled PROVE Settled'
    OBVIOUS
  <2>1. mode' = ModeOf(StoredMode')
    BY <1>1 DEF Settled
  <2>2. \A p \in Providers : snapshot'[p].enabled = EnabledBy(StoredOverlay', p)
    BY <1>1 DEF Settled
  <2> QED
    BY ONLY <2>1, <2>2 DEF Settled, ModeOf, EnabledBy
<1>5. \A r \in Reqs : Reloading(r) => Reloading(r)'
  BY <1>1, <1>2, <1>3 DEF Reloading, Patching, PatchSteps
<1> QED
  BY <1>2, <1>4, <1>5 DEF SettingsInv

\* A step of one request that is not about the settings.
LEMMA StepInv ==
  ASSUME Inv, NEW r \in Reqs, NEW x, IsRequest(x), up, up' = up,
         req' = [req EXCEPT ![r] = x],
         Tables(db'), db'.app_settings = db.app_settings,
         Disabled(db.users) \subseteq Disabled(db'.users),
         Plain(db.users) \subseteq Plain(db'.users),
         Entitled(x, db'.users),
         owned \subseteq owned',
         \A i \in db'.user_identities : LinkOwned(i, owned'),
         IsFlows(flow'),
         \A f \in Flows : flow[f].stage = "spent" => flow'[f] = flow[f],
         Owner(x, flow', owned'),
         sessions' = [t \in Tokens |-> sessions'[t]], SessionsAreOwned',
         UNCHANGED <<mode, snapshot, past>>,
         req[r].pc \notin PatchSteps, x.pc \notin PatchSteps
  PROVE  Inv'
<1>1. /\ req'[r] = x /\ \A q \in Reqs \ {r} : req'[q] = req[q]
      /\ req' = [q \in Reqs |-> req'[q]] /\ \A q \in Reqs : IsRequest(req'[q])
  BY OneRequest DEF Inv
<1>2. Shape'
  BY <1>1 DEF Inv, Shape
<1>3. EntitledInv'
  BY <1>1 DEF Inv, EntitledInv, Entitled
<1>4. OwnedInv'
  <2>1. ASSUME NEW q \in Reqs PROVE Owner(req'[q], flow', owned')
    <3>1. CASE q = r
      BY <1>1, <3>1
    <3>2. CASE q # r
      <4>1. PICK x1 : x1 = req[q] /\ x1 = req'[q] /\ Owner(x1, flow, owned)
        BY <1>1, <3>2 DEF Inv, OwnedInv
      <4>2. \A f \in Flows : flow[f].stage = "spent" => flow'[f] = flow[f]
        OBVIOUS
      <4>3. owned \subseteq owned'
        OBVIOUS
      <4>4. Owner(x1, flow', owned')
        BY ONLY <4>1, <4>2, <4>3 DEF Owner
      <4> QED
        BY ONLY <4>1, <4>4
    <3> QED
      BY <3>1, <3>2
  <2> QED
    BY <2>1 DEF OwnedInv
<1>5. SettingsInv'
  BY <1>1, SettingsFrame DEF Inv
<1> QED
  BY <1>2, <1>3, <1>4, <1>5 DEF Inv

\* Two fields of a request are changed.
LEMMA Forgets ==
  ASSUME NEW x, IsRequest(x), NEW D, NEW P
  PROVE  [x EXCEPT !.out = @ \cap D, !.low = @ \cap P] =
           [pc |-> x.pc, caller |-> x.caller, flow |-> x.flow, set |-> x.set,
            out |-> x.out \cap D, low |-> x.low \cap P]
<1>1. PICK pc, caller, f, set, out, low :
        x = [pc |-> pc, caller |-> caller, flow |-> f, set |-> set, out |-> out, low |-> low]
  BY DEF IsRequest
<1>2. [x EXCEPT !.out = x.out \cap D] =
        [pc |-> pc, caller |-> caller, flow |-> f, set |-> set, out |-> out \cap D, low |-> low]
  BY ONLY <1>1
<1>3. [x EXCEPT !.out = @ \cap D, !.low = @ \cap P] =
        [[x EXCEPT !.out = x.out \cap D] EXCEPT !.low = @ \cap P]
  OBVIOUS
<1>4. [[pc |-> pc, caller |-> caller, flow |-> f, set |-> set, out |-> out \cap D, low |-> low]
         EXCEPT !.low = @ \cap P] =
        [pc |-> pc, caller |-> caller, flow |-> f, set |-> set,
         out |-> out \cap D, low |-> low \cap P]
  <2>1. PICK o, l : o = out \cap D /\ l = low \cap P
    OBVIOUS
  <2>2. [pc |-> pc, caller |-> caller, flow |-> f, set |-> set, out |-> o, low |-> low].low = low
    BY ONLY TRUE
  <2>3. [[pc |-> pc, caller |-> caller, flow |-> f, set |-> set, out |-> o, low |-> low]
           EXCEPT !.low = l] =
          [pc |-> pc, caller |-> caller, flow |-> f, set |-> set, out |-> o, low |-> l]
    BY ONLY TRUE
  <2> QED
    BY ONLY <2>1, <2>2, <2>3
<1> QED
  BY ONLY <1>1, <1>2, <1>3, <1>4

\* Watched is a function of the requests.
LEMMA WatchedIsFunction ==
  \A requests, users :
    Watched(requests, users) = [q \in Reqs |-> Watched(requests, users)[q]]
  BY DEF Watched

\* A step that changes users: every request forgets who is disabled or plain
\* no longer.
LEMMA WatchedInv ==
  ASSUME Inv, NEW r \in Reqs, NEW x, IsRequest(x), up, up' = up,
         req' = Watched([req EXCEPT ![r] = x], db'.users),
         x.pc \notin Served \cup SignIn \cup PatchSteps, req[r].pc \notin PatchSteps,
         Tables(db'), db'.app_settings = db.app_settings,
         db'.user_identities = db.user_identities,
         UNCHANGED <<owned, flow, sessions, mode, snapshot, past>>
  PROVE  Inv'
<1>0. req = [q \in Reqs |-> req[q]] /\ \A q \in Reqs : IsRequest(req[q])
  BY DEF Inv, Shape
<1> DEFINE y(q) == IF q = r THEN x ELSE req[q]
<1>1. ASSUME NEW q \in Reqs
      PROVE  /\ req'[q].pc = y(q).pc /\ req'[q].caller = y(q).caller
             /\ req'[q].flow = y(q).flow /\ req'[q].set = y(q).set
             /\ req'[q].out = y(q).out \cap Disabled(db'.users)
             /\ req'[q].low = y(q).low \cap Plain(db'.users)
             /\ IsRequest(req'[q])
  <2>1. req'[q] = [[req EXCEPT ![r] = x][q] EXCEPT !.out = @ \cap Disabled(db'.users),
                                                  !.low = @ \cap Plain(db'.users)]
    BY DEF Watched
  <2>2. [req EXCEPT ![r] = x][q] = y(q)
    BY <1>0
  <2>3. IsRequest(y(q))
    BY <1>0
  <2>4. PICK z : z = y(q)
    OBVIOUS
  <2>5. /\ IsRequest(z)
        /\ req'[q] = [z EXCEPT !.out = @ \cap Disabled(db'.users),
                                !.low = @ \cap Plain(db'.users)]
    BY <2>1, <2>2, <2>3, <2>4
  <2> HIDE DEF y
  <2>6. req'[q] = [pc |-> z.pc, caller |-> z.caller, flow |-> z.flow, set |-> z.set,
                   out |-> z.out \cap Disabled(db'.users),
                   low |-> z.low \cap Plain(db'.users)]
    BY ONLY <2>5, Forgets
  <2> QED
    BY ONLY <2>4, <2>6 DEF IsRequest
<1>2. req' = [q \in Reqs |-> req'[q]] /\ \A q \in Reqs : IsRequest(req'[q])
  <2>1. req' = [q \in Reqs |-> req'[q]]
    BY ONLY req' = Watched([req EXCEPT ![r] = x], db'.users), WatchedIsFunction
  <2> QED
    BY <1>1, <2>1
<1>3. Shape'
  BY <1>2 DEF Inv, Shape
<1>4. EntitledInv'
  <2>1. ASSUME NEW q \in Reqs PROVE Entitled(req'[q], db'.users)
    <3>1. y(q).pc \in Served =>
            /\ y(q).caller.id \notin y(q).out
            /\ y(q).caller.role = "admin" => y(q).caller.id \notin y(q).low
      BY DEF Inv, EntitledInv, Entitled
    <3> HIDE DEF y
    <3>2. PICK z : z = y(q)
      OBVIOUS
    <3>3. PICK w, U : w = req'[q] /\ U = db'.users
      OBVIOUS
    <3>4. /\ w.pc = z.pc /\ w.caller = z.caller
          /\ w.out = z.out \cap Disabled(U) /\ w.low = z.low \cap Plain(U)
      BY ONLY <1>1, <3>2, <3>3, q \in Reqs
    <3>5. Entitled(w, U)
      BY ONLY <3>1, <3>2, <3>4 DEF Entitled
    <3> QED
      BY ONLY <3>3, <3>5
  <2> QED
    BY <2>1 DEF EntitledInv
<1>5. OwnedInv'
  <2>1. ASSUME NEW q \in Reqs PROVE Owner(req'[q], flow', owned')
    <3>1. Owner(y(q), flow, owned)
      BY DEF Inv, OwnedInv, Owner
    <3> HIDE DEF y
    <3> QED
      BY <1>1, <3>1 DEF Owner
  <2> QED
    BY <2>1 DEF Inv, OwnedInv, SessionsAreOwned
<1>6. SettingsInv'
  <2>1. \A q \in Reqs : \/ req[q].pc \notin PatchSteps /\ req'[q].pc \notin PatchSteps
                        \/ req'[q].pc = req[q].pc /\ req'[q].set = req[q].set
    BY <1>1
  <2> QED
    BY <2>1, SettingsFrame DEF Inv
<1> QED
  BY <1>3, <1>4, <1>5, <1>6 DEF Inv

\* The records of requests that handlers put together.
LEMMA Records ==
  /\ IsRequest(Idle) /\ Idle.pc = "idle" /\ Idle.out = {} /\ Idle.low = {}
  /\ \A pc : /\ IsRequest(Fresh(pc)) /\ Fresh(pc).pc = pc
             /\ Fresh(pc).out = Disabled(db.users) /\ Fresh(pc).low = Plain(db.users)
  /\ \A pc, f : LET x == [Fresh(pc) EXCEPT !.flow = f]
                IN  /\ IsRequest(x) /\ x.pc = pc /\ x.flow = f
                    /\ x.out = Disabled(db.users) /\ x.low = Plain(db.users)
  /\ \A pc, u : LET x == [Fresh(pc) EXCEPT !.caller = u]
                IN  /\ IsRequest(x) /\ x.pc = pc /\ x.caller = u
                    /\ x.out = Disabled(db.users) /\ x.low = Plain(db.users)
<1>1. \A pc : Fresh(pc) = [pc |-> pc, caller |-> None, flow |-> None, set |-> None,
                           out |-> Disabled(db.users), low |-> Plain(db.users)]
  <2> SUFFICES ASSUME NEW pc, NEW D, NEW P
               PROVE  [Idle EXCEPT !.pc = pc, !.out = D, !.low = P] =
                        [pc |-> pc, caller |-> None, flow |-> None, set |-> None,
                         out |-> D, low |-> P]
    BY DEF Fresh
  <2>1. [Idle EXCEPT !.pc = pc] = [pc |-> pc, caller |-> None, flow |-> None, set |-> None,
                                   out |-> {}, low |-> {}]
    BY DEF Idle
  <2>2. [[pc |-> pc, caller |-> None, flow |-> None, set |-> None,
          out |-> {}, low |-> {}] EXCEPT !.out = D] =
          [pc |-> pc, caller |-> None, flow |-> None, set |-> None, out |-> D, low |-> {}]
    OBVIOUS
  <2>3. [[pc |-> pc, caller |-> None, flow |-> None, set |-> None,
          out |-> D, low |-> {}] EXCEPT !.low = P] =
          [pc |-> pc, caller |-> None, flow |-> None, set |-> None, out |-> D, low |-> P]
    OBVIOUS
  <2>4. [Idle EXCEPT !.pc = pc, !.out = D, !.low = P] =
          [[[Idle EXCEPT !.pc = pc] EXCEPT !.out = D] EXCEPT !.low = P]
    OBVIOUS
  <2> QED
    BY ONLY <2>1, <2>2, <2>3, <2>4
<1>2. IsRequest(Idle) /\ Idle.pc = "idle" /\ Idle.out = {} /\ Idle.low = {}
  BY DEF Idle, IsRequest
<1>3. \A pc, f : [Fresh(pc) EXCEPT !.flow = f] =
        [pc |-> pc, caller |-> None, flow |-> f, set |-> None,
         out |-> Disabled(db.users), low |-> Plain(db.users)]
  BY <1>1
<1>4. \A pc, u : [Fresh(pc) EXCEPT !.caller = u] =
        [pc |-> pc, caller |-> u, flow |-> None, set |-> None,
         out |-> Disabled(db.users), low |-> Plain(db.users)]
  BY <1>1
<1> QED
  BY <1>1, <1>2, <1>3, <1>4 DEF IsRequest

\* The fields of a request that a step changes.
LEMMA Fields1 ==
  ASSUME NEW x, IsRequest(x), NEW p, NEW u, NEW v
  PROVE  /\ [x EXCEPT !.pc = p] = [pc |-> p, caller |-> x.caller, flow |-> x.flow,
                                    set |-> x.set, out |-> x.out, low |-> x.low]
         /\ [[x EXCEPT !.pc = p] EXCEPT !.caller = u] =
              [pc |-> p, caller |-> u, flow |-> x.flow,
               set |-> x.set, out |-> x.out, low |-> x.low]
         /\ [[x EXCEPT !.pc = p] EXCEPT !.set = v] =
              [pc |-> p, caller |-> x.caller, flow |-> x.flow,
               set |-> v, out |-> x.out, low |-> x.low]
<1>1. PICK pc, caller, f, set, out, low :
        x = [pc |-> pc, caller |-> caller, flow |-> f, set |-> set, out |-> out, low |-> low]
  BY DEF IsRequest
<1>2. [x EXCEPT !.pc = p] = [pc |-> p, caller |-> caller, flow |-> f,
                             set |-> set, out |-> out, low |-> low]
  BY ONLY <1>1
<1>3. [[pc |-> p, caller |-> caller, flow |-> f, set |-> set, out |-> out, low |-> low]
         EXCEPT !.caller = u] =
        [pc |-> p, caller |-> u, flow |-> f, set |-> set, out |-> out, low |-> low]
  OBVIOUS
<1>4. [[pc |-> p, caller |-> caller, flow |-> f, set |-> set, out |-> out, low |-> low]
         EXCEPT !.set = v] =
        [pc |-> p, caller |-> caller, flow |-> f, set |-> v, out |-> out, low |-> low]
  OBVIOUS
<1> QED
  BY ONLY <1>1, <1>2, <1>3, <1>4

\* Where a request goes.
LEMMA GoesTo ==
  ASSUME Shape, NEW r \in Reqs, NEW p, Goto(r, p)
  PROVE  \E x : /\ IsRequest(x) /\ req' = [req EXCEPT ![r] = x]
               /\ x.pc = p /\ x.caller = req[r].caller /\ x.flow = req[r].flow
               /\ x.set = req[r].set /\ x.out = req[r].out /\ x.low = req[r].low
<1>0. PICK y : y = req[r]
  OBVIOUS
<1>1. IsRequest(y) /\ req = [q \in Reqs |-> req[q]]
  BY <1>0 DEF Shape
<1> DEFINE x == [pc |-> p, caller |-> y.caller, flow |-> y.flow,
                 set |-> y.set, out |-> y.out, low |-> y.low]
<1>2. req' = [req EXCEPT ![r] = [y EXCEPT !.pc = p]]
  BY <1>0, <1>1 DEF Goto
<1>3. [y EXCEPT !.pc = p] = x
  BY <1>1, Fields1
<1>4. /\ IsRequest(x) /\ x.pc = p /\ x.caller = y.caller /\ x.flow = y.flow
      /\ x.set = y.set /\ x.out = y.out /\ x.low = y.low
  BY DEF IsRequest
<1> HIDE DEF x
<1>5. req' = [req EXCEPT ![r] = x]
  BY ONLY <1>2, <1>3
<1> QED
  BY ONLY <1>0, <1>4, <1>5

\* The same, with the user a query has found.
LEMMA GoesAs ==
  ASSUME Shape, NEW r \in Reqs, NEW p, NEW u, GotoAs(r, p, u)
  PROVE  \E x : /\ IsRequest(x) /\ req' = [req EXCEPT ![r] = x]
               /\ x.pc = p /\ x.caller = u /\ x.flow = req[r].flow
               /\ x.set = req[r].set /\ x.out = req[r].out /\ x.low = req[r].low
<1>0. PICK y : y = req[r]
  OBVIOUS
<1>1. IsRequest(y) /\ req = [q \in Reqs |-> req[q]]
  BY <1>0 DEF Shape
<1> DEFINE x == [pc |-> p, caller |-> u, flow |-> y.flow,
                 set |-> y.set, out |-> y.out, low |-> y.low]
<1>2. req' = [req EXCEPT ![r] = [[y EXCEPT !.pc = p] EXCEPT !.caller = u]]
  BY <1>0, <1>1 DEF GotoAs
<1>3. [[y EXCEPT !.pc = p] EXCEPT !.caller = u] = x
  BY <1>1, Fields1
<1>4. /\ IsRequest(x) /\ x.pc = p /\ x.caller = u /\ x.flow = y.flow
      /\ x.set = y.set /\ x.out = y.out /\ x.low = y.low
  BY DEF IsRequest
<1> HIDE DEF x
<1>5. req' = [req EXCEPT ![r] = x]
  BY ONLY <1>2, <1>3
<1> QED
  BY ONLY <1>0, <1>4, <1>5

\* A request goes on with what it has read.
GotoWith(r, p, v) == req' = [req EXCEPT ![r].pc = p, ![r].set = v]

\* The same, with what a query has read.
LEMMA GoesWith ==
  ASSUME Shape, NEW r \in Reqs, NEW p, NEW v, GotoWith(r, p, v)
  PROVE  \E x : /\ IsRequest(x) /\ req' = [req EXCEPT ![r] = x]
               /\ x.pc = p /\ x.caller = req[r].caller /\ x.flow = req[r].flow
               /\ x.set = v /\ x.out = req[r].out /\ x.low = req[r].low
<1>0. PICK y : y = req[r]
  OBVIOUS
<1>1. IsRequest(y) /\ req = [q \in Reqs |-> req[q]]
  BY <1>0 DEF Shape
<1> DEFINE x == [pc |-> p, caller |-> y.caller, flow |-> y.flow,
                 set |-> v, out |-> y.out, low |-> y.low]
<1>2. req' = [req EXCEPT ![r] = [[y EXCEPT !.pc = p] EXCEPT !.set = v]]
  BY <1>0, <1>1 DEF GotoWith
<1>3. [[y EXCEPT !.pc = p] EXCEPT !.set = v] = x
  BY <1>1, Fields1
<1>4. /\ IsRequest(x) /\ x.pc = p /\ x.caller = y.caller /\ x.flow = y.flow
      /\ x.set = v /\ x.out = y.out /\ x.low = y.low
  BY DEF IsRequest
<1> HIDE DEF x
<1>5. req' = [req EXCEPT ![r] = x]
  BY ONLY <1>2, <1>3
<1> QED
  BY ONLY <1>0, <1>4, <1>5

\* A request goes on with the overlay it has read.
TakesOverlay(r, o) == req' = [req EXCEPT ![r].pc = "apply", ![r].set.overlay = o]

\* Such a step is one of GotoWith.
LEMMA OverlayRead ==
  ASSUME Shape, NEW r \in Reqs, NEW o, TakesOverlay(r, o)
  PROVE  \E x : /\ IsRequest(x) /\ req' = [req EXCEPT ![r] = x] /\ x.pc = "apply"
               /\ x.set = [req[r].set EXCEPT !.overlay = o]
               /\ x.caller = req[r].caller /\ x.out = req[r].out /\ x.low = req[r].low
<1>1. PICK y, v : y = req[r] /\ v = [y.set EXCEPT !.overlay = o]
  OBVIOUS
<1>2. IsRequest(y) /\ req = [q \in Reqs |-> req[q]]
  BY <1>1 DEF Shape
<1>3. req' = [req EXCEPT ![r] = [[y EXCEPT !.pc = "apply"] EXCEPT !.set.overlay = o]]
  BY ONLY TakesOverlay(r, o), <1>1, <1>2 DEF TakesOverlay
<1>4. [y EXCEPT !.pc = "apply"].set = y.set
  <2>1. [y EXCEPT !.pc = "apply"] = [pc |-> "apply", caller |-> y.caller, flow |-> y.flow,
                                      set |-> y.set, out |-> y.out, low |-> y.low]
    BY ONLY <1>2, Fields1
  <2> QED
    BY ONLY <2>1
<1>5. [[y EXCEPT !.pc = "apply"] EXCEPT !.set.overlay = o] =
        [[y EXCEPT !.pc = "apply"] EXCEPT !.set = v]
  BY ONLY <1>1, <1>4
<1>6. [req EXCEPT ![r].pc = "apply", ![r].set = v] =
        [req EXCEPT ![r] = [[y EXCEPT !.pc = "apply"] EXCEPT !.set = v]]
  BY ONLY <1>1, <1>2
<1>7. GotoWith(r, "apply", v)
  BY ONLY <1>3, <1>5, <1>6 DEF GotoWith
<1> QED
  BY ONLY <1>1, <1>7, Shape, r \in Reqs, GoesWith

\* A request that has begun runs in a process that is up.
LEMMA Running ==
  ASSUME Shape, NEW r \in Reqs, req[r].pc # "idle"
  PROVE  up
  BY Records DEF Shape

\* A step of one request that changes only it.
LEMMA QuietStep ==
  ASSUME Inv, NEW r \in Reqs, NEW x, IsRequest(x), up,
         req' = [req EXCEPT ![r] = x],
         UNCHANGED <<db, up, sessions, flow, owned, mode, snapshot, past>>,
         Entitled(x, db.users), Owner(x, flow, owned),
         req[r].pc \notin PatchSteps, x.pc \notin PatchSteps
  PROVE  Inv'
<1>1. /\ Tables(db') /\ IsFlows(flow') /\ sessions' = [t \in Tokens |-> sessions'[t]]
      /\ SessionsAreOwned' /\ \A i \in db'.user_identities : LinkOwned(i, owned')
  BY DEF Inv, Shape, OwnedInv, SessionsAreOwned
<1> QED
  BY <1>1, StepInv

\* Steps of the process and of others, between requests.
LEMMA WorldInv ==
  ASSUME Inv, UNCHANGED <<db, up, req, owned, mode, past>>,
         snapshot' = [p \in Providers |-> [status |-> snapshot'[p].status,
                                           enabled |-> snapshot'[p].enabled]],
         \A p \in Providers : snapshot'[p].enabled = snapshot[p].enabled,
         IsFlows(flow'),
         \A f \in Flows : flow[f].stage = "spent" => flow'[f] = flow[f],
         sessions' = [t \in Tokens |-> sessions'[t]], SessionsAreOwned'
  PROVE  Inv'
<1>1. Shape'
  BY DEF Inv, Shape
<1>2. EntitledInv'
  BY DEF Inv, EntitledInv
<1>3. OwnedInv'
  BY DEF Inv, OwnedInv, Owner
<1>4. SettingsInv'
  BY SettingsFrame DEF Inv
<1> QED
  BY <1>1, <1>2, <1>3, <1>4 DEF Inv
-----------------------------------------------------------------------------
(* The process, the registry and the browser *)

\* No user, no link, no session, no request.
LEMMA InitInv == Init => Inv
<1> SUFFICES ASSUME Init PROVE Inv
  OBVIOUS
<1>1. Shape
  <2>1. Tables(db)
    BY DEF Init, Tables, Pg!EmptyTables
  <2>2. IsFlows(flow)
    BY DEF Init, IsFlows, NoFlow
  <2> QED
    BY <2>1, <2>2, Records DEF Init, Shape
<1>2. EntitledInv
  BY Records DEF Init, EntitledInv, Entitled, Served
<1>3. OwnedInv
  BY Records DEF Init, OwnedInv, Owner, SignIn, SessionsAreOwned, Pg!EmptyTables
<1>4. SettingsInv
  BY DEF Init, SettingsInv
<1> QED
  BY <1>1, <1>2, <1>3, <1>4 DEF Inv

\* The registry of a new process is the settings', or the read has failed.
LEMMA BootStep ==
  ASSUME Inv, Boot
  PROVE  Inv'
<1>0. /\ ~ up /\ \A r \in Reqs : req'[r] = Idle
      /\ UNCHANGED <<db, sessions, flow, req, owned>>
  BY DEF Inv, Shape, Boot, service
<1>1. snapshot' = [p \in Providers |-> [status |-> snapshot'[p].status,
                                       enabled |-> snapshot'[p].enabled]]
  BY DEF Boot
<1>2. past' = {} => Settled'
  <2>1. StoredMode' = StoredMode /\ StoredOverlay' = StoredOverlay
    BY <1>0, SameSettings
  <2>2. past' = {} =>
          /\ mode' = ModeOf(StoredMode)
          /\ \A p \in Providers : snapshot'[p].enabled = EnabledBy(StoredOverlay, p)
    <3> SUFFICES ASSUME past' = {} PROVE <2>2!2
      OBVIOUS
    <3> DEFINE found == [p \in Providers |->
                          [status |-> IF issuerUp[p] THEN "ready" ELSE "degraded",
                           enabled |-> FALSE]]
    <3>1. /\ mode' = ModeOf(StoredMode)
          /\ snapshot' = [p \in Providers |->
                             [found[p] EXCEPT !.enabled = EnabledBy(StoredOverlay, p)]]
      BY DEF Boot
    <3>2. ASSUME NEW p \in Providers
          PROVE  snapshot'[p].enabled = EnabledBy(StoredOverlay, p)
      <4>1. PICK st : found[p] = [status |-> st, enabled |-> FALSE]
        OBVIOUS
      <4> HIDE DEF found
      <4> QED
        BY <3>1, <4>1
    <3> QED
      BY <3>1, <3>2
  <2>3. past' = {} =>
          /\ mode' = ModeOf(StoredMode')
          /\ \A p \in Providers : snapshot'[p].enabled = EnabledBy(StoredOverlay', p)
    BY ONLY <2>1, <2>2
  <2> QED
    BY ONLY <2>3 DEF Settled, ModeOf, EnabledBy
<1>3. Shape'
  BY <1>0, <1>1 DEF Inv, Shape, Boot
<1>4. EntitledInv'
  BY <1>0 DEF Inv, EntitledInv
<1>5. OwnedInv'
  BY <1>0 DEF Inv, OwnedInv, Owner, SessionsAreOwned
<1>6. SettingsInv'
  BY <1>0, <1>2, Records DEF SettingsInv, Reloading
<1> QED
  BY <1>3, <1>4, <1>5, <1>6 DEF Inv

\* Sessions and requests die with the process.
LEMMA CrashStep ==
  ASSUME Inv, Crash
  PROVE  Inv'
<1>0. /\ ~ up' /\ UNCHANGED <<db, snapshot, owned>>
      /\ req' = [r \in Reqs |-> Idle] /\ sessions' = [t \in Tokens |-> None]
  BY DEF Crash
<1>1. IsFlows(flow')
  <2>1. IsFlows(flow)
    BY DEF Inv, Shape
  <2>2. CASE CookieKey
    BY <2>1, <2>2 DEF Crash
  <2>3. CASE ~ CookieKey
    <3>1. /\ flow' = [f \in Flows |-> flow'[f]]
          /\ \A f \in Flows : \/ flow'[f] = flow[f]
                               \/ flow'[f] = [flow[f] EXCEPT !.stage = "spent"]
      BY <2>3 DEF Crash
    <3>2. \A f \in Flows : flow[f] = [stage |-> flow[f].stage, provider |-> flow[f].provider,
                                      subject |-> flow[f].subject]
      BY <2>1 DEF IsFlows
    <3>3. \A f \in Flows : flow'[f] = [stage |-> flow'[f].stage, provider |-> flow'[f].provider,
                                       subject |-> flow'[f].subject]
      <4> SUFFICES ASSUME NEW f \in Flows
                   PROVE  flow'[f] = [stage |-> flow'[f].stage, provider |-> flow'[f].provider,
                                      subject |-> flow'[f].subject]
        OBVIOUS
      <4>1. PICK a, b, c : flow[f] = [stage |-> a, provider |-> b, subject |-> c]
        BY <3>2
      <4>2. flow'[f] = flow[f] \/ flow'[f] = [flow[f] EXCEPT !.stage = "spent"]
        BY <3>1
      <4>3. PICK x : x = flow'[f]
        OBVIOUS
      <4>4. x = [stage |-> x.stage, provider |-> x.provider, subject |-> x.subject]
        BY ONLY <4>1, <4>2, <4>3
      <4> QED
        BY ONLY <4>3, <4>4
    <3> QED
      BY <3>1, <3>3 DEF IsFlows
  <2> QED
    BY <2>2, <2>3
<1>2. Shape'
  BY <1>0, <1>1, Records DEF Inv, Shape
<1>3. EntitledInv'
  BY <1>0, Records DEF EntitledInv, Entitled, Served
<1>4. OwnedInv'
  BY <1>0, Records DEF Inv, OwnedInv, Owner, SignIn, SessionsAreOwned
<1>5. SettingsInv'
  BY <1>0 DEF SettingsInv
<1> QED
  BY <1>2, <1>3, <1>4, <1>5 DEF Inv

\* A retry changes the status of providers, not whether they are enabled.
LEMMA RetryStep ==
  ASSUME Inv, Retry
  PROVE  Inv'
<1>0. UNCHANGED <<db, up, req, owned, mode, past, flow, sessions>>
  BY DEF Retry, RetryDegraded, RetryProvider, service
<1>1. snapshot = [p \in Providers |-> [status |-> snapshot[p].status,
                                      enabled |-> snapshot[p].enabled]]
  BY DEF Inv, Shape
<1>2. /\ snapshot' = [p \in Providers |-> [status |-> snapshot'[p].status,
                                           enabled |-> snapshot'[p].enabled]]
      /\ \A p \in Providers : snapshot'[p].enabled = snapshot[p].enabled
  <2>1. CASE UNCHANGED snapshot
    BY <1>1, <2>1
  <2>2. ASSUME NEW p \in Providers, snapshot' = [snapshot EXCEPT ![p].status = "ready"]
        PROVE  <1>2!2
    BY <1>1, <2>2
  <2>3. ASSUME NEW p \in Providers, snapshot' = [snapshot EXCEPT ![p].status = "ready"]
        PROVE  <1>2!1
    BY <1>1, <2>3
  <2> QED
    BY <2>1, <2>2, <2>3 DEF Retry, RetryDegraded, RetryProvider
<1>3. IsFlows(flow') /\ sessions' = [t \in Tokens |-> sessions'[t]] /\ SessionsAreOwned'
  BY <1>0 DEF Inv, Shape, OwnedInv, SessionsAreOwned
<1> QED
  BY <1>0, <1>2, <1>3, WorldInv

\* A sign-in attempt goes on at the provider.
LEMMA FlowStep ==
  ASSUME Inv, UNCHANGED <<db, up, req, owned, mode, snapshot, past, sessions>>,
         IsFlows(flow'),
         \A f \in Flows : flow[f].stage = "spent" => flow'[f] = flow[f]
  PROVE  Inv'
<1>1. /\ snapshot' = [p \in Providers |-> [status |-> snapshot'[p].status,
                                           enabled |-> snapshot'[p].enabled]]
      /\ sessions' = [t \in Tokens |-> sessions'[t]] /\ SessionsAreOwned'
  BY DEF Inv, Shape, OwnedInv, SessionsAreOwned
<1> QED
  BY <1>1, WorldInv

\* An attempt that is not spent changes, and only that one.
LEMMA FlowChange ==
  ASSUME IsFlows(flow), NEW f \in Flows, flow[f].stage # "spent", NEW p, NEW v,
         \/ flow' = [flow EXCEPT ![f].stage = p]
         \/ flow' = [flow EXCEPT ![f].stage = p, ![f].provider = v]
         \/ flow' = [flow EXCEPT ![f].stage = p, ![f].subject = v]
  PROVE  /\ IsFlows(flow')
         /\ \A g \in Flows : flow[g].stage = "spent" => flow'[g] = flow[g]
         /\ flow'[f].stage = p
<1>1. PICK a, b, c : flow[f] = [stage |-> a, provider |-> b, subject |-> c]
  BY DEF IsFlows
<1>2. \/ flow' = [flow EXCEPT ![f] = [flow[f] EXCEPT !.stage = p]]
      \/ flow' = [flow EXCEPT ![f] = [[flow[f] EXCEPT !.stage = p] EXCEPT !.provider = v]]
      \/ flow' = [flow EXCEPT ![f] = [[flow[f] EXCEPT !.stage = p] EXCEPT !.subject = v]]
  BY DEF IsFlows
<1>3. [flow[f] EXCEPT !.stage = p] = [stage |-> p, provider |-> b, subject |-> c]
  BY <1>1
<1>4. \/ flow' = [flow EXCEPT ![f] = [stage |-> p, provider |-> b, subject |-> c]]
      \/ flow' = [flow EXCEPT ![f] = [stage |-> p, provider |-> v, subject |-> c]]
      \/ flow' = [flow EXCEPT ![f] = [stage |-> p, provider |-> b, subject |-> v]]
  <2>1. PICK y : y = [flow[f] EXCEPT !.stage = p]
    OBVIOUS
  <2>2. /\ [y EXCEPT !.provider = v] = [stage |-> p, provider |-> v, subject |-> c]
        /\ [y EXCEPT !.subject = v] = [stage |-> p, provider |-> b, subject |-> v]
    <3>1. y = [stage |-> p, provider |-> b, subject |-> c]
      BY ONLY <1>3, <2>1
    <3> QED
      BY ONLY <3>1
  <2> QED
    BY ONLY <1>2, <1>3, <2>1, <2>2
<1>5. PICK d, e : flow' = [flow EXCEPT ![f] = [stage |-> p, provider |-> d, subject |-> e]]
  BY ONLY <1>4
<1>6. /\ flow'[f] = [stage |-> p, provider |-> d, subject |-> e]
      /\ \A g \in Flows \ {f} : flow'[g] = flow[g]
      /\ flow' = [g \in Flows |-> flow'[g]]
  BY <1>5 DEF IsFlows
<1>7. \A g \in Flows : flow'[g] = [stage |-> flow'[g].stage, provider |-> flow'[g].provider,
                                   subject |-> flow'[g].subject]
  BY <1>6 DEF IsFlows
<1>8. IsFlows(flow')
  BY ONLY <1>6, <1>7 DEF IsFlows
<1> QED
  BY <1>6, <1>8
-----------------------------------------------------------------------------
(* Logging in *)

\* bootstrapAdmin may change a user, so requests look again.
LEMMA HandleLoginStep ==
  ASSUME Inv, NEW r \in Reqs, HandleLogin(r)
  PROVE  Inv'
<1>0. /\ up /\ req[r] = Idle
      /\ UNCHANGED <<up, owned, flow, sessions, mode, snapshot, past>>
      /\ db' = Bootstrapped(NewID) \/ db' = db
  BY DEF HandleLogin, CanBegin, registry
<1>1. /\ Tables(db') /\ db'.app_settings = db.app_settings
      /\ db'.user_identities = db.user_identities
  BY <1>0, BootstrappedTables DEF Inv, Shape
<1>2. PICK x : /\ IsRequest(x) /\ x.pc \in {"idle", "password"}
               /\ req' = Watched([req EXCEPT ![r] = x], db'.users)
  BY Records DEF HandleLogin
<1>3. x.pc \notin Served \cup SignIn \cup PatchSteps /\ req[r].pc \notin PatchSteps
  BY <1>0, <1>2, Records DEF Served, SignIn, PatchSteps
<1> QED
  BY <1>0, <1>1, <1>2, <1>3, WatchedInv

\* Ending a request, or going to a step that nothing is known about.
LEMMA PlainStep ==
  ASSUME Inv, NEW r \in Reqs, up,
         UNCHANGED <<db, up, sessions, flow, owned, mode, snapshot, past>>,
         req[r].pc \notin PatchSteps,
         \/ End(r)
         \/ \E u : \E p \in {"password", "hash"} : GotoAs(r, p, u)
  PROVE  Inv'
<1>1. CASE End(r)
  <2>1. Entitled(Idle, db.users) /\ Owner(Idle, flow, owned) /\ Idle.pc \notin PatchSteps
    BY Records DEF Entitled, Owner, Served, SignIn, PatchSteps
  <2> QED
    BY <1>1, <2>1, QuietStep, Records DEF End
<1>2. ASSUME NEW p \in {"password", "hash"}, NEW u, GotoAs(r, p, u)
      PROVE  Inv'
  <2>1. PICK x : /\ IsRequest(x) /\ req' = [req EXCEPT ![r] = x]
                 /\ x.pc = p /\ x.out = req[r].out /\ x.low = req[r].low
    BY <1>2, GoesAs DEF Inv
  <2>2. Entitled(x, db.users) /\ Owner(x, flow, owned) /\ x.pc \notin PatchSteps
    BY <2>1 DEF Inv, EntitledInv, Entitled, Owner, Served, SignIn, PatchSteps
  <2> QED
    BY <2>1, <2>2, QuietStep
<1> QED
  BY <1>1, <1>2

\* Login reads the user.
LEMMA LoginUserStep ==
  ASSUME Inv, NEW r \in Reqs, NEW n, LoginUser(r, n)
  PROVE  Inv'
<1>1. /\ UNCHANGED <<db, up, sessions, flow, owned, mode, snapshot, past>>
      /\ req[r].pc = "password"
      /\ End(r) \/ \E u : GotoAs(r, "hash", u)
  BY DEF LoginUser, At, service, registry
<1>2. up /\ req[r].pc \notin PatchSteps
  BY <1>1, Running DEF Inv, PatchSteps
<1> QED
  BY <1>1, <1>2, PlainStep

\* A request ends and may leave a session.
LEMMA SessionStep ==
  ASSUME Inv, NEW r \in Reqs, up, End(r),
         UNCHANGED <<db, up, flow, owned, mode, snapshot, past>>,
         req[r].pc \notin PatchSteps,
         \/ sessions' = sessions
         \/ \E u, i : /\ StoreToken(u, i)
                      /\ i # None => <<i, u.id>> \in owned
  PROVE  Inv'
<1>1. /\ sessions' = [t \in Tokens |-> sessions'[t]]
      /\ SessionsAreOwned'
  <2>1. CASE sessions' = sessions
    BY <2>1 DEF Inv, Shape, OwnedInv, SessionsAreOwned
  <2>2. ASSUME NEW u, NEW i, StoreToken(u, i), i # None => <<i, u.id>> \in owned
        PROVE  <1>1
    <3>1. /\ sessions' = [t \in Tokens |-> sessions'[t]]
          /\ \A t \in Tokens : sessions'[t] = sessions[t]
                               \/ sessions'[t] = [user |-> u, identity |-> i]
      BY <2>2 DEF Inv, Shape, StoreToken
    <3> QED
      BY <2>2, <3>1 DEF Inv, OwnedInv, SessionsAreOwned
  <2> QED
    BY <2>1, <2>2
<1>2. /\ Entitled(Idle, db'.users) /\ Owner(Idle, flow', owned') /\ Idle.pc \notin PatchSteps
      /\ IsRequest(Idle)
  BY Records DEF Entitled, Owner, Served, SignIn, PatchSteps
<1>3. /\ Tables(db') /\ IsFlows(flow') /\ \A i \in db'.user_identities : LinkOwned(i, owned')
  BY DEF Inv, Shape, OwnedInv
<1>4. req' = [req EXCEPT ![r] = Idle]
  BY DEF End
<1> QED
  BY <1>1, <1>2, <1>3, <1>4, StepInv

\* Login compares the hash; a local session has no identity.
LEMMA LoginPasswordStep ==
  ASSUME Inv, NEW r \in Reqs, LoginPassword(r)
  PROVE  Inv'
<1>1. /\ UNCHANGED <<db, up, flow, owned, mode, snapshot, past>>
      /\ req[r].pc = "hash" /\ End(r)
      /\ sessions' = sessions \/ StoreToken(req[r].caller, None)
  BY DEF LoginPassword, At, registry
<1>2. up /\ req[r].pc \notin PatchSteps
  BY <1>1, Running DEF Inv, PatchSteps
<1> QED
  BY <1>1, <1>2, SessionStep
-----------------------------------------------------------------------------
(* Single sign-on *)

\* The callback spends the flow and begins a request.
LEMMA CallbackStep ==
  ASSUME Inv, NEW r \in Reqs, NEW f \in Flows, HandleOIDCCallback(r, f)
  PROVE  Inv'
<1>0. /\ up /\ flow[f].stage = "granted" /\ flow' = [flow EXCEPT ![f].stage = "spent"]
      /\ UNCHANGED <<db, up, sessions, owned, mode, snapshot, past>>
  BY DEF HandleOIDCCallback, service, registry
<1>1. /\ IsFlows(flow') /\ flow'[f].stage = "spent"
      /\ \A g \in Flows : flow[g].stage = "spent" => flow'[g] = flow[g]
  BY <1>0, FlowChange DEF Inv, Shape
<1>2. CASE UNCHANGED req
  BY <1>0, <1>1, <1>2, FlowStep
<1>3. CASE Begin(r, [Fresh("find") EXCEPT !.flow = f])
  <2>1. PICK x : x = [Fresh("find") EXCEPT !.flow = f]
    OBVIOUS
  <2>2. /\ IsRequest(x) /\ x.pc = "find" /\ x.flow = f
        /\ x.out = Disabled(db.users) /\ x.low = Plain(db.users)
    BY <2>1, Records
  <2>3. req[r] = Idle /\ req' = [req EXCEPT ![r] = x]
    BY <1>3, <2>1 DEF Begin, CanBegin
  <2>4. /\ Entitled(x, db'.users) /\ Owner(x, flow', owned')
        /\ x.pc \notin PatchSteps /\ req[r].pc \notin PatchSteps
    BY <1>0, <1>1, <2>2, <2>3, Records DEF Entitled, Owner, Served, SignIn, PatchSteps
  <2>5. /\ Tables(db') /\ sessions' = [t \in Tokens |-> sessions'[t]] /\ SessionsAreOwned'
        /\ \A i \in db'.user_identities : LinkOwned(i, owned')
    BY <1>0 DEF Inv, Shape, OwnedInv, SessionsAreOwned
  <2> QED
    BY <1>0, <1>1, <2>2, <2>3, <2>4, <2>5, StepInv
<1> QED
  BY <1>2, <1>3 DEF HandleOIDCCallback

\* The flow of a sign-in.
LEMMA SigningIn ==
  ASSUME Inv, NEW r \in Reqs, req[r].pc \in SignIn
  PROVE  /\ up /\ req[r].flow \in Flows /\ flow[req[r].flow].stage = "spent"
         /\ req[r].pc \notin PatchSteps /\ req[r].pc \notin Served
         /\ req[r].out \subseteq Disabled(db.users) /\ req[r].low \subseteq Plain(db.users)
<1>1. up
  BY Running DEF Inv, SignIn
<1> QED
  BY <1>1 DEF Inv, OwnedInv, Owner, EntitledInv, Entitled, SignIn, PatchSteps, Served

\* A link that is found is one of the table.
LEMMA FindStep ==
  ASSUME Inv, NEW r \in Reqs, FindIdentity(r),
         UNCHANGED <<up, sessions, flow, mode, snapshot, past>>
  PROVE  Inv'
<1> DEFINE f == req[r].flow
           found == Pg!GetUserIDByIdentity(db, flow[f].provider, flow[f].subject)
<1>0. req[r].pc = "find" /\ UNCHANGED <<db, owned>>
  BY DEF FindIdentity, At
<1>1. /\ up /\ f \in Flows /\ flow[f].stage = "spent" /\ req[r].pc \notin PatchSteps
      /\ req[r].out \subseteq Disabled(db.users) /\ req[r].low \subseteq Plain(db.users)
  BY <1>0, SigningIn DEF SignIn
<1>2. CASE found.rows = {}
  <2>1. Goto(r, "lookup")
    BY <1>2 DEF FindIdentity
  <2>2. PICK x : /\ IsRequest(x) /\ req' = [req EXCEPT ![r] = x] /\ x.pc = "lookup"
                 /\ x.flow = f /\ x.out = req[r].out /\ x.low = req[r].low
    BY <2>1, GoesTo DEF Inv
  <2>3. Entitled(x, db.users) /\ Owner(x, flow, owned) /\ x.pc \notin PatchSteps
    BY <1>1, <2>2 DEF Entitled, Owner, Served, PatchSteps
  <2> QED
    BY <1>0, <1>1, <2>2, <2>3, QuietStep
<1>3. CASE found.rows # {}
  <2>0. PICK u : u = Row(found).user
    OBVIOUS
  <2>1. GotoWith(r, "touch", u)
    BY <1>3, <2>0 DEF FindIdentity, GotoWith
  <2>2. PICK x : /\ IsRequest(x) /\ req' = [req EXCEPT ![r] = x] /\ x.pc = "touch"
                 /\ x.flow = f /\ x.set = u /\ x.out = req[r].out /\ x.low = req[r].low
    <3>1. Shape
      BY DEF Inv
    <3> QED
      BY ONLY <2>1, <3>1, GoesWith
  <2>3. <<<<flow[f].provider, flow[f].subject>>, u>> \in owned
    <3>1. PICK i \in db.user_identities :
            i.provider = flow[f].provider /\ i.subject = flow[f].subject /\ u = i.user
      BY <1>3, <2>0, FoundLink
    <3> QED
      BY <3>1 DEF Inv, OwnedInv, LinkOwned
  <2>4. Entitled(x, db.users) /\ Owner(x, flow, owned) /\ x.pc \notin PatchSteps
    BY <1>1, <2>2, <2>3 DEF Entitled, Owner, Served, PatchSteps
  <2> QED
    BY <1>0, <1>1, <2>2, <2>4, QuietStep
<1> QED
  BY <1>2, <1>3

\* The link is marked as seen.
LEMMA TouchStep ==
  ASSUME Inv, NEW r \in Reqs, TouchIdentity(r),
         UNCHANGED <<up, sessions, flow, mode, snapshot, past>>
  PROVE  Inv'
<1> DEFINE f == req[r].flow
<1>0. /\ req[r].pc = "touch" /\ owned' = owned /\ Goto(r, "user")
      /\ db' = Pg!TouchIdentityLogin(db, flow[f].provider, flow[f].subject).db
  BY DEF TouchIdentity, At
<1>1. /\ up /\ f \in Flows /\ flow[f].stage = "spent" /\ req[r].pc \notin PatchSteps
      /\ req[r].out \subseteq Disabled(db.users) /\ req[r].low \subseteq Plain(db.users)
  BY <1>0, SigningIn DEF SignIn
<1>2. /\ Tables(db') /\ db'.users = db.users /\ db'.app_settings = db.app_settings
      /\ \A i \in db'.user_identities : \E j \in db.user_identities :
           i = j \/ i = [j EXCEPT !.seen = TRUE]
  BY <1>0, Touched DEF Inv, Shape
<1>3. \A i \in db'.user_identities : LinkOwned(i, owned')
  <2> SUFFICES ASSUME NEW i \in db'.user_identities PROVE LinkOwned(i, owned)
    BY <1>0
  <2>1. PICK j \in db.user_identities : i = j \/ i = [j EXCEPT !.seen = TRUE]
    BY <1>2
  <2>2. LinkOwned(j, owned)
    BY DEF Inv, OwnedInv
  <2>3. PICK a, b, c, d : j = [provider |-> a, subject |-> b, user |-> c, seen |-> d]
    BY <2>2 DEF LinkOwned, IsLink
  <2>4. i = j \/ i = [provider |-> a, subject |-> b, user |-> c, seen |-> TRUE]
    BY ONLY <2>1, <2>3
  <2> QED
    BY <2>2, <2>3, <2>4 DEF LinkOwned, IsLink
<1>4. PICK x : /\ IsRequest(x) /\ req' = [req EXCEPT ![r] = x] /\ x.pc = "user"
               /\ x.flow = f /\ x.set = req[r].set /\ x.out = req[r].out /\ x.low = req[r].low
  BY <1>0, GoesTo DEF Inv
<1>5. <<<<flow[f].provider, flow[f].subject>>, x.set>> \in owned
  BY <1>0, <1>4 DEF Inv, OwnedInv, Owner, SignIn
<1>6. Entitled(x, db'.users) /\ Owner(x, flow', owned') /\ x.pc \notin PatchSteps
  BY <1>0, <1>1, <1>2, <1>4, <1>5 DEF Entitled, Owner, Served, PatchSteps
<1>7. /\ IsFlows(flow') /\ sessions' = [t \in Tokens |-> sessions'[t]] /\ SessionsAreOwned'
  BY <1>0 DEF Inv, Shape, OwnedInv, SessionsAreOwned
<1> QED
  BY <1>0, <1>1, <1>2, <1>3, <1>4, <1>6, <1>7, StepInv

\* The user of the link is read.
LEMMA IdentityUserStep ==
  ASSUME Inv, NEW r \in Reqs, IdentityUser(r),
         UNCHANGED <<up, sessions, flow, mode, snapshot, past>>
  PROVE  Inv'
<1> DEFINE f == req[r].flow
           found == Pg!GetUser(db, req[r].set)
<1>0. req[r].pc = "user" /\ UNCHANGED <<db, owned>>
  BY DEF IdentityUser, At
<1>1. /\ up /\ f \in Flows /\ flow[f].stage = "spent" /\ req[r].pc \notin PatchSteps
      /\ req[r].out \subseteq Disabled(db.users) /\ req[r].low \subseteq Plain(db.users)
  BY <1>0, SigningIn DEF SignIn
<1>2. CASE End(r)
  BY <1>0, <1>1, <1>2, PlainStep
<1>3. CASE found.err = "" /\ GotoAs(r, "issue", Row(found))
  <2>0. PICK u : u = Row(found)
    OBVIOUS
  <2>1. PICK x : /\ IsRequest(x) /\ req' = [req EXCEPT ![r] = x] /\ x.pc = "issue"
                 /\ x.flow = f /\ x.caller = u /\ x.out = req[r].out /\ x.low = req[r].low
    <3>1. Shape /\ GotoAs(r, "issue", u)
      BY <1>3, <2>0 DEF Inv
    <3> QED
      BY ONLY <3>1, GoesAs
  <2>2. u.id = req[r].set
    <3>1. PICK v \in db.users : v.id = req[r].set /\ u = Pg!Public(v)
      BY <1>3, <2>0, FoundUser
    <3> QED
      BY <3>1 DEF Pg!Public
  <2>3. <<<<flow[f].provider, flow[f].subject>>, x.caller.id>> \in owned
    BY <1>0, <2>1, <2>2 DEF Inv, OwnedInv, Owner, SignIn
  <2>4. Entitled(x, db.users) /\ Owner(x, flow, owned) /\ x.pc \notin PatchSteps
    BY <1>1, <2>1, <2>3 DEF Entitled, Owner, Served, PatchSteps
  <2> QED
    BY <1>0, <1>1, <2>1, <2>4, QuietStep
<1> QED
  BY <1>2, <1>3 DEF IdentityUser

\* A local account of that name ends the sign-in.
LEMMA LookupStep ==
  ASSUME Inv, NEW r \in Reqs, At(r, "lookup"), LookupEmail(r) \/ Goto(r, "create"),
         UNCHANGED <<db, owned, up, sessions, flow, mode, snapshot, past>>
  PROVE  Inv'
<1>0. req[r].pc = "lookup" /\ (End(r) \/ Goto(r, "create"))
  BY DEF LookupEmail, At
<1>1. /\ up /\ req[r].flow \in Flows /\ flow[req[r].flow].stage = "spent"
      /\ req[r].pc \notin PatchSteps
      /\ req[r].out \subseteq Disabled(db.users) /\ req[r].low \subseteq Plain(db.users)
  BY <1>0, SigningIn DEF SignIn
<1>2. CASE End(r)
  BY <1>1, <1>2, PlainStep
<1>3. CASE Goto(r, "create")
  <2>1. PICK x : /\ IsRequest(x) /\ req' = [req EXCEPT ![r] = x] /\ x.pc = "create"
                 /\ x.flow = req[r].flow /\ x.out = req[r].out /\ x.low = req[r].low
    BY <1>3, GoesTo DEF Inv
  <2>2. Entitled(x, db.users) /\ Owner(x, flow, owned) /\ x.pc \notin PatchSteps
    BY <1>1, <2>1 DEF Entitled, Owner, Served, PatchSteps
  <2> QED
    BY <1>1, <2>1, <2>2, QuietStep
<1> QED
  BY <1>0, <1>2, <1>3

\* A new account is owned by the identity that created it.
LEMMA CreateStep ==
  ASSUME Inv, NEW r \in Reqs, CreateIdentity(r),
         UNCHANGED <<up, sessions, flow, mode, snapshot, past>>
  PROVE  Inv'
<1> DEFINE f == req[r].flow
           made == Pg!CreateUserAndIdentity(db, NewID, Email[flow[f].subject], "user",
                                            flow[f].provider, flow[f].subject)
<1>0. req[r].pc = "create" /\ db' = made.db
  BY DEF CreateIdentity, At
<1>1. /\ up /\ f \in Flows /\ flow[f].stage = "spent" /\ req[r].pc \notin PatchSteps
      /\ req[r].out \subseteq Disabled(db.users) /\ req[r].low \subseteq Plain(db.users)
  BY <1>0, SigningIn DEF SignIn
<1>2. /\ made.err # "" => made.db = db
      /\ made.err = "" =>
           /\ Row(made).id = NewID
           /\ Tables(made.db) /\ made.db.app_settings = db.app_settings
           /\ made.db.user_identities = db.user_identities
                \cup {Pg!IdentityRow(flow[f].provider, flow[f].subject, NewID)}
           /\ Disabled(db.users) \subseteq Disabled(made.db.users)
           /\ Plain(db.users) \subseteq Plain(made.db.users)
  BY NewUserAndLink DEF Inv, Shape
<1>3. CASE made.err # ""
  <2>1. End(r) /\ UNCHANGED <<owned, db>>
    BY <1>0, <1>2, <1>3 DEF CreateIdentity
  <2> QED
    BY <1>1, <2>1, PlainStep
<1>4. CASE made.err = ""
  <2>0. PICK u : u = Row(made)
    OBVIOUS
  <2>1. /\ GotoAs(r, "issue", u)
        /\ owned' = owned \cup {<<Identity(f), u.id>>}
    BY <1>4, <2>0 DEF CreateIdentity
  <2>2. PICK x : /\ IsRequest(x) /\ req' = [req EXCEPT ![r] = x] /\ x.pc = "issue"
                 /\ x.flow = f /\ x.caller = u /\ x.out = req[r].out /\ x.low = req[r].low
    BY <2>1, GoesAs DEF Inv
  <2>3. u.id = NewID /\ Identity(f) = <<flow[f].provider, flow[f].subject>>
    BY <1>2, <1>4, <2>0 DEF Identity
  <2>4. \A i \in db'.user_identities : LinkOwned(i, owned')
    <3> SUFFICES ASSUME NEW i \in db'.user_identities PROVE LinkOwned(i, owned')
      OBVIOUS
    <3>1. CASE i \in db.user_identities
      BY <2>1, <3>1 DEF Inv, OwnedInv, LinkOwned
    <3>2. CASE i = Pg!IdentityRow(flow[f].provider, flow[f].subject, NewID)
      <4>1. i = [provider |-> flow[f].provider, subject |-> flow[f].subject,
                 user |-> NewID, seen |-> FALSE]
        BY <3>2 DEF Pg!IdentityRow
      <4>2. IsLink(i) /\ i.provider = flow[f].provider /\ i.subject = flow[f].subject
            /\ i.user = NewID
        BY <4>1 DEF IsLink
      <4> QED
        BY <2>1, <2>3, <4>2 DEF LinkOwned
    <3> QED
      BY <1>0, <1>2, <1>4, <3>1, <3>2
  <2>5. Entitled(x, db'.users) /\ Owner(x, flow', owned') /\ x.pc \notin PatchSteps
    <3>1. x.out \subseteq Disabled(db'.users) /\ x.low \subseteq Plain(db'.users)
      BY <1>0, <1>1, <1>2, <1>4, <2>2
    <3> QED
      BY <1>1, <2>1, <2>2, <2>3, <3>1 DEF Entitled, Owner, Served, PatchSteps
  <2>6. /\ IsFlows(flow') /\ sessions' = [t \in Tokens |-> sessions'[t]] /\ SessionsAreOwned'
    BY <2>1 DEF Inv, Shape, OwnedInv, SessionsAreOwned
  <2>7. /\ Tables(db') /\ db'.app_settings = db.app_settings
        /\ Disabled(db.users) \subseteq Disabled(db'.users)
        /\ Plain(db.users) \subseteq Plain(db'.users) /\ owned \subseteq owned'
    BY <1>0, <1>2, <1>4, <2>1
  <2> HIDE DEF made
  <2> QED
    BY <1>1, <2>2, <2>4, <2>5, <2>6, <2>7, StepInv
<1> QED
  BY <1>3, <1>4

\* The session is of the account the sign-in has arrived at.
LEMMA IssueStep ==
  ASSUME Inv, NEW r \in Reqs, IssueToken(r)
  PROVE  Inv'
<1> DEFINE f == req[r].flow
<1>0. /\ req[r].pc = "issue" /\ End(r) /\ StoreToken(req[r].caller, Identity(f))
      /\ UNCHANGED <<db, up, flow, owned, mode, snapshot, past>>
  BY DEF IssueToken, At, registry
<1>1. up /\ req[r].pc \notin PatchSteps
  BY <1>0, SigningIn DEF SignIn
<1>2. <<Identity(f), req[r].caller.id>> \in owned
  BY <1>0 DEF Inv, OwnedInv, Owner, SignIn, Identity
<1> QED
  BY <1>0, <1>1, <1>2, SessionStep
-----------------------------------------------------------------------------
(* Requests with a session *)

\* A request begins with the session's copy of the user.
LEMMA ResolveStep ==
  ASSUME Inv, NEW r \in Reqs, NEW t \in Tokens, Resolve(r, t)
  PROVE  Inv'
<1>0. /\ up /\ req[r] = Idle
      /\ UNCHANGED <<db, up, sessions, flow, owned, mode, snapshot, past>>
  BY DEF Resolve, Begin, CanBegin, service, registry
<1>1. PICK x : x = [Fresh("resolved") EXCEPT !.caller = sessions[t].user]
  OBVIOUS
<1>2. /\ IsRequest(x) /\ x.pc = "resolved"
      /\ x.out = Disabled(db.users) /\ x.low = Plain(db.users)
  BY <1>1, Records
<1>3. req' = [req EXCEPT ![r] = x]
  BY <1>1 DEF Resolve, Begin
<1>4. /\ Entitled(x, db.users) /\ Owner(x, flow, owned)
      /\ x.pc \notin PatchSteps /\ req[r].pc \notin PatchSteps
  BY <1>0, <1>2, Records DEF Entitled, Owner, Served, SignIn, PatchSteps
<1> QED
  BY <1>0, <1>2, <1>3, <1>4, QuietStep

\* The row of this moment is neither disabled nor plain, whoever was before.
LEMMA RequireUserStep ==
  ASSUME Inv, NEW r \in Reqs, RequireUser(r)
  PROVE  Inv'
<1> DEFINE found == Pg!GetUser(db, req[r].caller.id)
<1>0. /\ req[r].pc = "resolved" /\ EnforceCurrentUser(r)
      /\ UNCHANGED <<db, up, sessions, flow, owned, mode, snapshot, past>>
  BY DEF RequireUser, At, service, registry
<1>1. up /\ req[r].pc \notin PatchSteps
  BY <1>0, Running DEF Inv, PatchSteps
<1>2. CASE End(r)
  BY <1>0, <1>1, <1>2, PlainStep
<1>3. CASE found.err = "" /\ ~ Row(found).disabled /\ GotoAs(r, "current", Row(found))
  <2>0. PICK u : u = Row(found)
    OBVIOUS
  <2>1. PICK x : /\ IsRequest(x) /\ req' = [req EXCEPT ![r] = x] /\ x.pc = "current"
                 /\ x.caller = u /\ x.out = req[r].out /\ x.low = req[r].low
    <3>1. Shape /\ GotoAs(r, "current", u)
      BY <1>3, <2>0 DEF Inv
    <3> QED
      BY ONLY <3>1, GoesAs
  <2>2. PICK v \in db.users : v.id = req[r].caller.id /\ u = Pg!Public(v)
    <3>1. found.err = ""
      BY <1>3
    <3> QED
      BY ONLY <2>0, <3>1, FoundUser
  <2>3. u.id = v.id /\ u.role = v.role /\ ~ v.disabled
    <3>1. u.id = v.id /\ u.role = v.role /\ u.disabled = v.disabled
      BY <2>2 DEF Pg!Public
    <3>2. ~ u.disabled
      BY <1>3, <2>0
    <3> QED
      BY <3>1, <3>2
  <2>4. u.id \notin Disabled(db.users) /\ (u.role = "admin" => u.id \notin Plain(db.users))
    BY <2>3 DEF Disabled, Plain
  <2>5. req[r].out \subseteq Disabled(db.users) /\ req[r].low \subseteq Plain(db.users)
    BY DEF Inv, EntitledInv, Entitled
  <2>6. Entitled(x, db.users) /\ Owner(x, flow, owned) /\ x.pc \notin PatchSteps
    BY <2>1, <2>4, <2>5 DEF Entitled, Owner, SignIn, PatchSteps
  <2> QED
    BY <1>0, <1>1, <2>1, <2>6, QuietStep
<1> QED
  BY <1>0, <1>2, <1>3 DEF EnforceCurrentUser

\* A request ends.
LEMMA MeStep ==
  ASSUME Inv, NEW r \in Reqs, HandleMe(r)
  PROVE  Inv'
<1>0. /\ req[r].pc = "current" /\ End(r)
      /\ UNCHANGED <<db, up, sessions, flow, owned, mode, snapshot, past>>
  BY DEF HandleMe, At, service, registry
<1>1. up /\ req[r].pc \notin PatchSteps
  BY <1>0, Running DEF Inv, PatchSteps
<1> QED
  BY <1>0, <1>1, PlainStep

\* A session ends.
LEMMA LogoutStep ==
  ASSUME Inv, NEW t \in Tokens, HandleLogout(t)
  PROVE  Inv'
<1>0. /\ UNCHANGED <<db, up, req, flow, owned, mode, snapshot, past>>
      /\ sessions' = [sessions EXCEPT ![t] = None]
  BY DEF HandleLogout, registry
<1>1. /\ sessions' = [s \in Tokens |-> sessions'[s]]
      /\ \A s \in Tokens : sessions'[s] = sessions[s] \/ sessions'[s] = None
  BY <1>0 DEF Inv, Shape
<1>2. SessionsAreOwned'
  BY <1>0, <1>1 DEF Inv, OwnedInv, SessionsAreOwned
<1>3. /\ IsFlows(flow')
      /\ snapshot' = [p \in Providers |-> [status |-> snapshot'[p].status,
                                           enabled |-> snapshot'[p].enabled]]
  BY <1>0 DEF Inv, Shape
<1> QED
  BY <1>0, <1>1, <1>2, <1>3, WorldInv

\* An administrator's request changes links, or adds a user, and ends.
LEMMA TableStep ==
  ASSUME Inv, NEW r \in Reqs, AsAdmin(r), End(r),
         UNCHANGED <<up, sessions, flow, mode, snapshot, past>>,
         Tables(db'), db'.app_settings = db.app_settings,
         Disabled(db.users) \subseteq Disabled(db'.users),
         Plain(db.users) \subseteq Plain(db'.users),
         owned \subseteq owned',
         \A i \in db'.user_identities : LinkOwned(i, owned')
  PROVE  Inv'
<1>1. up /\ req[r].pc \notin PatchSteps
  BY Running DEF Inv, AsAdmin, At, PatchSteps
<1>2. /\ Entitled(Idle, db'.users) /\ Owner(Idle, flow', owned') /\ Idle.pc \notin PatchSteps
      /\ IsRequest(Idle) /\ req' = [req EXCEPT ![r] = Idle]
  BY Records DEF Entitled, Owner, Served, SignIn, PatchSteps, End
<1>3. /\ IsFlows(flow') /\ sessions' = [t \in Tokens |-> sessions'[t]] /\ SessionsAreOwned'
  BY DEF Inv, Shape, OwnedInv, SessionsAreOwned
<1> QED
  BY <1>1, <1>2, <1>3, StepInv

\* A new user has no session and no link.
LEMMA CreateUserStep ==
  ASSUME Inv, NEW r \in Reqs, NEW n, NEW role, HandleAdminCreateUser(r, n, role)
  PROVE  Inv'
<1>0. /\ AsAdmin(r) /\ End(r)
      /\ UNCHANGED <<up, sessions, flow, owned, mode, snapshot, past>>
      /\ Pg!CreateUser(db, NewID, n, Password, role).err = ""
      /\ db' = Pg!CreateUser(db, NewID, n, Password, role).db
  BY DEF HandleAdminCreateUser, service, registry
<1>1. /\ Tables(db') /\ db'.user_identities = db.user_identities
      /\ db'.app_settings = db.app_settings
      /\ Disabled(db.users) \subseteq Disabled(db'.users)
      /\ Plain(db.users) \subseteq Plain(db'.users)
  <2>1. Tables(db)
    BY DEF Inv, Shape
  <2>2. PICK i : i = NewID
    OBVIOUS
  <2>3. /\ Pg!CreateUser(db, i, n, Password, role).err = ""
        /\ db' = Pg!CreateUser(db, i, n, Password, role).db
    BY <1>0, <2>2
  <2>4. LET e == Pg!CreateUser(db, i, n, Password, role).db
        IN  /\ Tables(e) /\ e.user_identities = db.user_identities
            /\ e.app_settings = db.app_settings
            /\ Disabled(db.users) \subseteq Disabled(e.users)
            /\ Plain(db.users) \subseteq Plain(e.users)
    BY ONLY <2>1, <2>3, NewUser
  <2> QED
    BY ONLY <2>3, <2>4
<1>2. \A i \in db'.user_identities : LinkOwned(i, owned')
  BY <1>0, <1>1 DEF Inv, OwnedInv
<1> QED
  BY <1>0, <1>1, <1>2, TableStep

\* A user is disabled, enabled or gets another role.
LEMMA UpdateUserStep ==
  ASSUME Inv, NEW r \in Reqs, NEW id, NEW d, NEW role, HandleAdminUpdateUser(r, id, d, role)
  PROVE  Inv'
<1>0. /\ req[r].pc = "current" /\ UNCHANGED <<up, sessions, flow, owned, mode, snapshot, past>>
      /\ db' = Pg!UpdateUser(db, id, d, role).db
      /\ req' = Watched([req EXCEPT ![r] = Idle], db'.users)
  BY DEF HandleAdminUpdateUser, AsAdmin, At, service, registry
<1>1. up /\ req[r].pc \notin PatchSteps
  BY <1>0, Running DEF Inv, PatchSteps
<1>2. /\ Tables(db') /\ db'.user_identities = db.user_identities
      /\ db'.app_settings = db.app_settings
  BY <1>0, ChangedUser DEF Inv, Shape
<1>3. IsRequest(Idle) /\ Idle.pc \notin Served \cup SignIn \cup PatchSteps
  BY Records DEF Served, SignIn, PatchSteps
<1> QED
  BY <1>0, <1>1, <1>2, <1>3, WatchedInv

\* An administrator makes a link.
LEMMA LinkStep ==
  ASSUME Inv, NEW r \in Reqs, NEW id, NEW p, NEW s, HandleAdminLinkIdentity(r, id, p, s)
  PROVE  Inv'
<1>0. /\ AsAdmin(r) /\ End(r)
      /\ UNCHANGED <<up, sessions, flow, mode, snapshot, past>>
      /\ owned' = owned \cup {<<<<p, s>>, id>>}
      /\ Pg!InsertIdentity(db, p, s, id).err = ""
      /\ db' = Pg!InsertIdentity(db, p, s, id).db
  BY DEF HandleAdminLinkIdentity, Pg!LinkIdentityToUser, Pg!Fail, service, registry
<1>1. /\ Tables(db') /\ db'.users = db.users /\ db'.app_settings = db.app_settings
      /\ db'.user_identities = db.user_identities \cup {Pg!IdentityRow(p, s, id)}
  <2>1. Tables(db)
    BY DEF Inv, Shape
  <2>2. LET e == Pg!InsertIdentity(db, p, s, id).db
        IN  /\ Tables(e) /\ e.users = db.users /\ e.app_settings = db.app_settings
            /\ e.user_identities = db.user_identities \cup {Pg!IdentityRow(p, s, id)}
    BY <1>0, <2>1 DEF Tables, Pg!InsertIdentity, Pg!InsertRow, Pg!Fail, Pg!Ok
  <2> QED
    BY ONLY <1>0, <2>2
<1>2. IsLink(Pg!IdentityRow(p, s, id)) /\ LinkOwned(Pg!IdentityRow(p, s, id), owned')
  <2>1. Pg!IdentityRow(p, s, id) = [provider |-> p, subject |-> s, user |-> id, seen |-> FALSE]
    BY DEF Pg!IdentityRow
  <2>2. PICK i : i = Pg!IdentityRow(p, s, id)
    OBVIOUS
  <2>3. i.provider = p /\ i.subject = s /\ i.user = id /\ i.seen = FALSE
    BY <2>1, <2>2
  <2>4. IsLink(i)
    BY <2>1, <2>2, <2>3 DEF IsLink
  <2>5. <<<<i.provider, i.subject>>, i.user>> \in owned'
    BY <1>0, <2>3
  <2> QED
    BY <2>2, <2>4, <2>5 DEF LinkOwned
<1>3. \A i \in db'.user_identities : LinkOwned(i, owned')
  BY <1>0, <1>1, <1>2 DEF Inv, OwnedInv, LinkOwned
<1>4. owned \subseteq owned'
  BY <1>0
<1> QED
  BY <1>0, <1>1, <1>3, <1>4, TableStep

\* An administrator removes a link.
LEMMA UnlinkStep ==
  ASSUME Inv, NEW r \in Reqs, NEW id, NEW p, NEW s, HandleAdminUnlinkIdentity(r, id, p, s)
  PROVE  Inv'
<1>0. /\ AsAdmin(r) /\ End(r)
      /\ UNCHANGED <<up, sessions, flow, owned, mode, snapshot, past>>
      /\ db' = Pg!UnlinkIdentity(db, id, p, s).db
  BY DEF HandleAdminUnlinkIdentity, service, registry
<1>1. /\ Tables(db') /\ db'.users = db.users /\ db'.app_settings = db.app_settings
      /\ db'.user_identities \subseteq db.user_identities
  BY <1>0, Unlinked DEF Inv, Shape
<1>2. \A i \in db'.user_identities : LinkOwned(i, owned')
  BY <1>0, <1>1 DEF Inv, OwnedInv
<1> QED
  BY <1>0, <1>1, <1>2, TableStep
-----------------------------------------------------------------------------
(* Patching the settings *)

\* A step of a patch: the tables' users and links, sessions and flows stay.
LEMMA PatchFrame ==
  ASSUME Inv, NEW r \in Reqs, NEW x, IsRequest(x), up, up' = up,
         req' = [req EXCEPT ![r] = x],
         Tables(db'), db'.users = db.users, db'.user_identities = db.user_identities,
         snapshot' = [p \in Providers |-> [status |-> snapshot'[p].status,
                                           enabled |-> snapshot'[p].enabled]],
         UNCHANGED <<owned, flow, sessions>>,
         Entitled(x, db.users), x.pc \notin SignIn,
         SettingsInv'
  PROVE  Inv'
<1>1. /\ req'[r] = x /\ \A q \in Reqs \ {r} : req'[q] = req[q]
      /\ req' = [q \in Reqs |-> req'[q]] /\ \A q \in Reqs : IsRequest(req'[q])
  BY OneRequest DEF Inv
<1>2. Shape'
  BY <1>1 DEF Inv, Shape
<1>3. EntitledInv'
  BY <1>1 DEF Inv, EntitledInv
<1>4. OwnedInv'
  <2>1. ASSUME NEW q \in Reqs PROVE Owner(req'[q], flow', owned')
    BY <1>1 DEF Inv, OwnedInv, Owner
  <2> QED
    BY <2>1 DEF Inv, OwnedInv, SessionsAreOwned
<1> QED
  BY <1>2, <1>3, <1>4 DEF Inv

\* Who goes on serving keeps the caller that was checked.
LEMMA StillEntitled ==
  ASSUME Inv, NEW r \in Reqs, req[r].pc \in Served, NEW x,
         x.caller = req[r].caller, x.out = req[r].out, x.low = req[r].low
  PROVE  Entitled(x, db.users)
  BY DEF Inv, EntitledInv, Entitled

\* While a patch goes on, what others have read may be old, and nothing is
\* claimed of the registry.
LEMMA StillPatching ==
  ASSUME Inv, NEW r \in Reqs, NEW x, IsRequest(x), req' = [req EXCEPT ![r] = x],
         UNCHANGED <<up, mode, snapshot, past>>,
         x.pc \in PatchSteps,
         req[r].pc \in PatchSteps \/ x.pc \notin {"read", "apply"},
         db'.app_settings = db.app_settings \/ x.pc \notin {"read", "apply"},
         up /\ past = {} /\ x.pc \in {"read", "apply"} =>
           /\ x.set = [mode |-> x.set.mode, overlay |-> x.set.overlay]
           /\ x.set.mode = StoredMode \/ Other(r)
           /\ x.pc = "apply" => x.set.overlay = StoredOverlay
  PROVE  SettingsInv'
<1>1. /\ req'[r] = x /\ \A q \in Reqs \ {r} : req'[q] = req[q]
  BY OneRequest DEF Inv
<1>2. Patching(r)'
  BY <1>1 DEF Patching, PatchSteps
<1>3. ASSUME NEW q \in Reqs \ {r}, up, past = {} PROVE Reloading(q)'
  <2>1. Other(q)'
    BY <1>2 DEF Other
  <2>2. Reloading(q)
    BY <1>3 DEF Inv, SettingsInv
  <2> QED
    BY <1>1, <2>1, <2>2 DEF Reloading
<1>4. ASSUME up, past = {} PROVE Reloading(r)'
  <2>1. Other(r)' <=> Other(r)
    BY <1>1 DEF Other, Patching
  <2>2. CASE x.pc \notin {"read", "apply"}
    BY <1>1, <2>2 DEF Reloading
  <2>3. CASE x.pc \in {"read", "apply"}
    <3>1. StoredMode' = StoredMode /\ StoredOverlay' = StoredOverlay
      BY <2>3, SameSettings
    <3> QED
      BY <1>1, <1>4, <2>1, <2>3, <3>1 DEF Reloading
  <2> QED
    BY <2>2, <2>3
<1> QED
  BY <1>2, <1>3, <1>4 DEF SettingsInv

\* After a failure nothing is claimed until the next start.
LEMMA AfterFailure ==
  past' # {} => SettingsInv'
  BY DEF SettingsInv

\* A patch begins, and may store the mode.
LEMMA PatchSettingsStep ==
  ASSUME Inv, NEW r \in Reqs, NEW m, NEW p, NEW on, PatchSettings(r, m, p, on)
  PROVE  Inv'
<1>0. /\ req[r].pc = "current"
      /\ UNCHANGED <<up, sessions, flow, owned, mode, snapshot, past>>
      /\ db' = IF m = None THEN db ELSE Pg!SetAppSetting(db, "auth.mode", m).db
  BY DEF PatchSettings, AsAdmin, At, service, registry
<1>1. up /\ req[r].pc \in Served
  BY <1>0, Running DEF Inv, Served
<1>2. /\ Tables(db') /\ db'.users = db.users /\ db'.user_identities = db.user_identities
  BY <1>0, SettingSet DEF Inv, Shape
<1>3. PICK x : /\ IsRequest(x) /\ req' = [req EXCEPT ![r] = x] /\ x.pc \in {"provider", "patched"}
               /\ x.caller = req[r].caller /\ x.out = req[r].out /\ x.low = req[r].low
  <2>1. Shape
    BY DEF Inv
  <2>2. CASE Goto(r, "patched")
    BY ONLY <2>1, <2>2, GoesTo
  <2>3. CASE GotoWith(r, "provider", [key |-> p, value |-> on])
    BY ONLY <2>1, <2>3, GoesWith
  <2> QED
    BY <2>2, <2>3 DEF PatchSettings, GotoWith
<1>4. SettingsInv'
  BY <1>0, <1>3, StillPatching DEF PatchSteps
<1>5. Entitled(x, db.users) /\ x.pc \notin SignIn
  BY <1>1, <1>3, StillEntitled DEF SignIn
<1>6. snapshot' = [q \in Providers |-> [status |-> snapshot'[q].status,
                                       enabled |-> snapshot'[q].enabled]]
  BY <1>0 DEF Inv, Shape
<1> QED
  BY <1>0, <1>1, <1>2, <1>3, <1>4, <1>5, <1>6, PatchFrame

\* A patch ends, with a failure or because it has been applied.
LEMMA PatchEnds ==
  ASSUME Inv, NEW r \in Reqs, req[r].pc \in PatchSteps, End(r),
         UNCHANGED <<db, up, sessions, flow, owned>>,
         snapshot' = [p \in Providers |-> [status |-> snapshot'[p].status,
                                           enabled |-> snapshot'[p].enabled]],
         SettingsInv'
  PROVE  Inv'
<1>1. up
  BY Running DEF Inv, PatchSteps
<1>2. /\ IsRequest(Idle) /\ Entitled(Idle, db.users) /\ Idle.pc \notin SignIn
      /\ req' = [req EXCEPT ![r] = Idle]
  BY Records DEF Entitled, Served, SignIn, End
<1>3. Tables(db')
  BY DEF Inv, Shape
<1> QED
  BY <1>1, <1>2, <1>3, PatchFrame

\* A patch stores a provider's switch, or fails.
LEMMA PatchProviderStep ==
  ASSUME Inv, NEW r \in Reqs, PatchProvider(r)
  PROVE  Inv'
<1>0. /\ req[r].pc = "provider" /\ req[r].pc \in Served /\ req[r].pc \in PatchSteps
      /\ UNCHANGED <<up, sessions, flow, owned, mode, snapshot>>
  BY DEF PatchProvider, At, service, registry, Served, PatchSteps
<1>1. up
  BY <1>0, Running DEF Inv
<1>2. snapshot' = [p \in Providers |-> [status |-> snapshot'[p].status,
                                       enabled |-> snapshot'[p].enabled]]
  BY <1>0 DEF Inv, Shape
<1>3. CASE End(r) /\ past' = past \cup {"failed"} /\ UNCHANGED db
  BY <1>0, <1>2, <1>3, AfterFailure, PatchEnds
<1>4. CASE /\ db' = Pg!SetAppSetting(db, req[r].set.key, req[r].set.value).db
           /\ Goto(r, "patched") /\ past' = past
  <2>1. /\ Tables(db') /\ db'.users = db.users /\ db'.user_identities = db.user_identities
    BY <1>4, SettingSet DEF Inv, Shape
  <2>2. PICK x : /\ IsRequest(x) /\ req' = [req EXCEPT ![r] = x] /\ x.pc = "patched"
                 /\ x.caller = req[r].caller /\ x.out = req[r].out /\ x.low = req[r].low
    BY <1>4, GoesTo DEF Inv
  <2>3. SettingsInv'
    BY <1>0, <1>4, <2>2, StillPatching DEF PatchSteps
  <2>4. Entitled(x, db.users) /\ x.pc \notin SignIn
    BY <1>0, <2>2, StillEntitled DEF SignIn
  <2> QED
    BY <1>0, <1>1, <1>2, <2>1, <2>2, <2>3, <2>4, PatchFrame
<1> QED
  BY <1>3, <1>4 DEF PatchProvider

\* Reload has read the mode.
LEMMA ReloadModeStep ==
  ASSUME Inv, NEW r \in Reqs, ReloadMode(r),
         UNCHANGED <<db, up, sessions, flow, owned>>
  PROVE  Inv'
<1>0. /\ req[r].pc = "patched" /\ req[r].pc \in Served /\ req[r].pc \in PatchSteps
      /\ UNCHANGED <<mode, snapshot, past>>
      /\ GotoWith(r, "read", [mode |-> StoredMode, overlay |-> {}])
  BY DEF ReloadMode, GotoWith, At, Served, PatchSteps
<1>1. up
  BY <1>0, Running DEF Inv
<1>2. Shape
  BY DEF Inv
<1>3. PICK v : v = [mode |-> StoredMode, overlay |-> {}]
  OBVIOUS
<1>4. GotoWith(r, "read", v)
  BY ONLY <1>0, <1>3
<1>5. PICK x : /\ IsRequest(x) /\ req' = [req EXCEPT ![r] = x] /\ x.pc = "read" /\ x.set = v
               /\ x.caller = req[r].caller /\ x.out = req[r].out /\ x.low = req[r].low
  BY ONLY <1>2, <1>4, GoesWith
<1>6. x.set = [mode |-> x.set.mode, overlay |-> x.set.overlay] /\ x.set.mode = StoredMode
  BY ONLY <1>3, <1>5
<1>7. SettingsInv'
  BY <1>0, <1>5, <1>6, StillPatching DEF PatchSteps
<1>8. Entitled(x, db.users) /\ x.pc \notin SignIn
  BY <1>0, <1>5, StillEntitled DEF SignIn
<1>9. /\ Tables(db')
      /\ snapshot' = [q \in Providers |-> [status |-> snapshot'[q].status,
                                          enabled |-> snapshot'[q].enabled]]
  BY <1>0 DEF Inv, Shape
<1> QED
  BY <1>1, <1>5, <1>7, <1>8, <1>9, PatchFrame

\* Reload has read the overlay too, or that read has failed.
LEMMA ReloadOverlayStep ==
  ASSUME Inv, NEW r \in Reqs, ReloadOverlay(r),
         UNCHANGED <<db, up, sessions, flow, owned>>
  PROVE  Inv'
<1>0. /\ req[r].pc = "read" /\ req[r].pc \in Served /\ req[r].pc \in PatchSteps
      /\ UNCHANGED <<mode, snapshot>>
  BY DEF ReloadOverlay, At, Served, PatchSteps
<1>1. up
  BY <1>0, Running DEF Inv
<1>2. Shape
  BY DEF Inv
<1>3. /\ Tables(db')
      /\ snapshot' = [q \in Providers |-> [status |-> snapshot'[q].status,
                                          enabled |-> snapshot'[q].enabled]]
  BY <1>0 DEF Inv, Shape
<1>4. CASE End(r) /\ past' = past \cup {"failed"}
  BY <1>0, <1>3, <1>4, AfterFailure, PatchEnds
<1>5. CASE /\ req' = [req EXCEPT ![r].pc = "apply", ![r].set.overlay = StoredOverlay]
           /\ past' = past
  <2>1. PICK o : o = StoredOverlay
    OBVIOUS
  <2>2. PICK v : v = [req[r].set EXCEPT !.overlay = o]
    OBVIOUS
  <2>3. TakesOverlay(r, o)
    BY ONLY <1>5, <2>1 DEF TakesOverlay
  <2>4. PICK x : /\ IsRequest(x) /\ req' = [req EXCEPT ![r] = x] /\ x.pc = "apply"
                 /\ x.set = v
                 /\ x.caller = req[r].caller /\ x.out = req[r].out /\ x.low = req[r].low
    BY ONLY <1>2, <2>2, <2>3, r \in Reqs, OverlayRead
  <2>5. ASSUME up, past = {}
        PROVE  /\ x.set = [mode |-> x.set.mode, overlay |-> x.set.overlay]
               /\ x.set.mode = StoredMode \/ Other(r)
               /\ x.set.overlay = StoredOverlay
    <3>1. Reloading(r)
      BY <2>5 DEF Inv, SettingsInv
    <3>2. PICK s : s = req[r].set
      OBVIOUS
    <3>3. /\ s = [mode |-> s.mode, overlay |-> s.overlay]
          /\ s.mode = StoredMode \/ Other(r)
      BY <1>0, <3>1, <3>2 DEF Reloading
    <3>4. v = [s EXCEPT !.overlay = o]
      BY ONLY <2>2, <3>2
    <3>5. v = [mode |-> s.mode, overlay |-> o]
      BY ONLY <3>3, <3>4
    <3>6. v = [mode |-> v.mode, overlay |-> v.overlay] /\ v.mode = s.mode /\ v.overlay = o
      BY ONLY <3>5
    <3> QED
      BY ONLY <2>1, <2>4, <3>3, <3>6
  <2>6. SettingsInv'
    BY <1>0, <1>5, <2>4, <2>5, StillPatching DEF PatchSteps
  <2>7. Entitled(x, db.users) /\ x.pc \notin SignIn
    BY <1>0, <2>4, StillEntitled DEF SignIn
  <2> QED
    BY <1>1, <1>3, <2>4, <2>6, <2>7, PatchFrame
<1> QED
  BY <1>4, <1>5 DEF ReloadOverlay

\* Reload applies what it has read: alone, that is what is stored.
LEMMA ReloadApplyStep ==
  ASSUME Inv, NEW r \in Reqs, ReloadApply(r),
         UNCHANGED <<db, up, sessions, flow, owned>>
  PROVE  Inv'
<1>0. /\ req[r].pc = "apply" /\ req[r].pc \in PatchSteps /\ End(r)
      /\ mode' = ModeOf(req[r].set.mode)
      /\ snapshot' = Overlaid(req[r].set.overlay)
      /\ past' = IF Other(r) THEN past \cup {"overlapped"} ELSE past
  BY DEF ReloadApply, ApplyOverlay, At, PatchSteps, Other
<1>1. up
  BY <1>0, Running DEF Inv, PatchSteps
<1>2. PICK o : o = req[r].set.overlay
  OBVIOUS
<1>3. ASSUME NEW p \in Providers
      PROVE  snapshot'[p] = [status |-> snapshot[p].status, enabled |-> EnabledBy(o, p)]
  <2>1. snapshot'[p] = [snapshot[p] EXCEPT !.enabled = EnabledBy(o, p)]
    BY <1>0, <1>2 DEF Overlaid
  <2>2. PICK y : y = snapshot[p]
    OBVIOUS
  <2>3. y = [status |-> y.status, enabled |-> y.enabled]
    BY <2>2 DEF Inv, Shape
  <2>4. PICK b : b = EnabledBy(o, p)
    OBVIOUS
  <2>5. [y EXCEPT !.enabled = b] = [status |-> y.status, enabled |-> b]
    BY ONLY <2>3
  <2> QED
    BY ONLY <2>1, <2>2, <2>4, <2>5
<1>4. snapshot' = [q \in Providers |-> [status |-> snapshot'[q].status,
                                       enabled |-> snapshot'[q].enabled]]
  <2>1. snapshot' = [q \in Providers |-> snapshot'[q]]
    BY <1>0 DEF Overlaid
  <2>2. ASSUME NEW q \in Providers
        PROVE  snapshot'[q] = [status |-> snapshot'[q].status, enabled |-> snapshot'[q].enabled]
    <3>1. PICK y, b : y = snapshot[q].status /\ b = EnabledBy(o, q)
      OBVIOUS
    <3>2. snapshot'[q] = [status |-> y, enabled |-> b]
      BY ONLY <1>3, <3>1, q \in Providers
    <3> QED
      BY ONLY <3>2
  <2> QED
    BY ONLY <2>1, <2>2
<1>5. SettingsInv'
  <2>1. CASE past' # {}
    BY <2>1, AfterFailure
  <2>2. CASE past' = {}
    <3>1. past = {} /\ ~ Other(r)
      BY <1>0, <2>2
    <3>2. Reloading(r)
      BY <1>1, <3>1 DEF Inv, SettingsInv
    <3>3. req[r].set.mode = StoredMode /\ o = StoredOverlay
      BY <1>0, <1>2, <3>1, <3>2 DEF Reloading
    <3>4. StoredMode' = StoredMode /\ StoredOverlay' = StoredOverlay
      BY SameSettings
    <3>5. Settled'
      <4>1. mode' = ModeOf(StoredMode')
        BY <1>0, <3>3, <3>4
      <4>2. \A p \in Providers : snapshot'[p].enabled = EnabledBy(StoredOverlay', p)
        <5> SUFFICES ASSUME NEW p \in Providers
                     PROVE  snapshot'[p].enabled = EnabledBy(StoredOverlay', p)
          OBVIOUS
        <5>1. PICK y, b : y = snapshot[p].status /\ b = EnabledBy(o, p)
          OBVIOUS
        <5>2. snapshot'[p] = [status |-> y, enabled |-> b]
          BY ONLY <1>3, <5>1, p \in Providers
        <5>3. snapshot'[p].enabled = b
          BY ONLY <5>2
        <5>4. StoredOverlay' = o
          BY <3>3, <3>4
        <5> QED
          BY ONLY <5>1, <5>3, <5>4
      <4> QED
        BY <4>1, <4>2 DEF Settled, ModeOf, EnabledBy
    <3>6. /\ req'[r] = Idle /\ \A q \in Reqs \ {r} : req'[q] = req[q]
      BY <1>0, OneRequest, Records DEF Inv, End
    <3>7. \A q \in Reqs : req'[q].pc \notin PatchSteps
      BY <3>1, <3>6, Records DEF Other, Patching, PatchSteps
    <3>8. \A q \in Reqs : Reloading(q)'
      BY <3>7 DEF Reloading, PatchSteps
    <3> QED
      BY <3>5, <3>8 DEF SettingsInv
  <2> QED
    BY <2>1, <2>2
<1> QED
  BY <1>0, <1>4, <1>5, PatchEnds
-----------------------------------------------------------------------------
(* The theorems *)

\* The flow of an attempt that has not been answered yet may still change.
LEMMA AttemptStep ==
  ASSUME Inv, NEW f \in Flows, NEW v, HandleOIDCLogin(f, v) \/ ProviderGrants(f, v)
  PROVE  Inv'
<1>1. /\ flow[f].stage # "spent"
      /\ UNCHANGED <<db, up, req, owned, mode, snapshot, past, sessions>>
      /\ \/ flow' = [flow EXCEPT ![f].stage = "sent", ![f].provider = v]
         \/ flow' = [flow EXCEPT ![f].stage = "granted", ![f].subject = v]
  BY DEF HandleOIDCLogin, ProviderGrants, service, registry
<1>2. IsFlows(flow)
  BY DEF Inv, Shape
<1>3. /\ IsFlows(flow')
      /\ \A g \in Flows : flow[g].stage = "spent" => flow'[g] = flow[g]
  <2>1. CASE flow' = [flow EXCEPT ![f].stage = "sent", ![f].provider = v]
    BY ONLY <1>1, <1>2, <2>1, f \in Flows, FlowChange
  <2>2. CASE flow' = [flow EXCEPT ![f].stage = "granted", ![f].subject = v]
    BY ONLY <1>1, <1>2, <2>2, f \in Flows, FlowChange
  <2> QED
    BY ONLY <1>1, <2>1, <2>2
<1> QED
  BY <1>1, <1>3, FlowStep

\* Steps that touch nothing the invariant speaks of.
LEMMA Stutter ==
  ASSUME Inv, UNCHANGED <<db, up, req, owned, mode, snapshot, past, sessions, flow>>
  PROVE  Inv'
<1>1. IsFlows(flow') /\ \A f \in Flows : flow'[f] = flow[f]
  BY DEF Inv, Shape
<1> QED
  BY <1>1, FlowStep

\* The steps of linkOrCreateUser.
LEMMA LinkOrCreateUserStep ==
  ASSUME Inv, NEW r \in Reqs, LinkOrCreateUser(r)
  PROVE  Inv'
<1>1. CASE FindIdentity(r)
  BY <1>1, FindStep DEF LinkOrCreateUser, service, registry
<1>2. CASE TouchIdentity(r)
  BY <1>2, TouchStep DEF LinkOrCreateUser, service, registry
<1>3. CASE IdentityUser(r)
  BY <1>3, IdentityUserStep DEF LinkOrCreateUser, service, registry
<1>4. CASE CreateIdentity(r)
  BY <1>4, CreateStep DEF LinkOrCreateUser, service, registry
<1>5. CASE At(r, "lookup") /\ LookupEmail(r) /\ UNCHANGED <<db, owned>>
  BY <1>5, LookupStep DEF LinkOrCreateUser, service, registry
<1> QED
  BY <1>1, <1>2, <1>3, <1>4, <1>5 DEF LinkOrCreateUser, service, registry

\* The steps of administrators.
LEMMA AdministrationStep ==
  ASSUME Inv, NEW r \in Reqs, Administration(r)
  PROVE  Inv'
<1>1. CASE \E n \in Names, role \in {"admin", "user"} : HandleAdminCreateUser(r, n, role)
  BY <1>1, CreateUserStep
<1>2. CASE \E u \in db.users, d \in BOOLEAN \cup {None},
             role \in {"admin", "user", None} : HandleAdminUpdateUser(r, u.id, d, role)
  BY <1>2, UpdateUserStep
<1>3. CASE \E u \in db.users, p \in Providers, s \in Subjects :
             \/ HandleAdminLinkIdentity(r, u.id, p, s)
             \/ HandleAdminUnlinkIdentity(r, u.id, p, s)
  BY <1>3, LinkStep, UnlinkStep
<1>4. CASE \E m \in Modes \cup {None}, p \in Providers \cup {None},
             on \in {"true", "false"} : PatchSettings(r, m, p, on)
  BY <1>4, PatchSettingsStep
<1> QED
  BY <1>1, <1>2, <1>3, <1>4 DEF Administration

\* The steps of Reload.
LEMMA ReloadStep ==
  ASSUME Inv, NEW r \in Reqs, Reload(r)
  PROVE  Inv'
<1>1. UNCHANGED <<db, up, sessions, flow, owned>>
  BY DEF Reload, service
<1> QED
  BY <1>1, ReloadModeStep, ReloadOverlayStep, ReloadApplyStep DEF Reload

\* Every step keeps the invariant.
LEMMA NextInv ==
  ASSUME Inv, [Next]_vars
  PROVE  Inv'
<1>1. CASE Boot
  BY <1>1, BootStep
<1>2. CASE Crash
  BY <1>2, CrashStep
<1>3. CASE Retry
  BY <1>3, RetryStep
<1>4. ASSUME NEW p \in Providers, IssuerChanges(p) PROVE Inv'
  BY <1>4, Stutter DEF IssuerChanges, service, registry
<1>5. ASSUME NEW f \in Flows, NEW p \in Providers, HandleOIDCLogin(f, p) PROVE Inv'
  BY <1>5, AttemptStep
<1>6. ASSUME NEW f \in Flows, NEW s \in Subjects, ProviderGrants(f, s) PROVE Inv'
  BY <1>6, AttemptStep
<1>7. ASSUME NEW t \in Tokens, HandleLogout(t) PROVE Inv'
  BY <1>7, LogoutStep
<1>8. ASSUME NEW r \in Reqs, Request(r) PROVE Inv'
  <2>1. CASE HandleLogin(r)
    BY <2>1, HandleLoginStep
  <2>2. CASE LoginPassword(r)
    BY <2>2, LoginPasswordStep
  <2>3. CASE \E n \in Names \cup {Admin} : LoginUser(r, n)
    BY <2>3, LoginUserStep
  <2>4. CASE \E f \in Flows : HandleOIDCCallback(r, f)
    BY <2>4, CallbackStep
  <2>5. CASE LinkOrCreateUser(r) \/ LookupFails(r)
    <3>1. CASE LookupFails(r)
      BY <3>1, LookupStep DEF LookupFails, service, registry
    <3> QED
      BY <2>5, <3>1, LinkOrCreateUserStep
  <2>6. CASE IssueToken(r)
    BY <2>6, IssueStep
  <2>7. CASE \E t \in Tokens : Resolve(r, t)
    BY <2>7, ResolveStep
  <2>8. CASE RequireUser(r)
    BY <2>8, RequireUserStep
  <2>9. CASE HandleMe(r)
    BY <2>9, MeStep
  <2>10. CASE Administration(r)
    BY <2>10, AdministrationStep
  <2>11. CASE PatchProvider(r)
    BY <2>11, PatchProviderStep
  <2>12. CASE Reload(r)
    BY <2>12, ReloadStep
  <2> QED
    BY <1>8, <2>1, <2>2, <2>3, <2>4, <2>5, <2>6, <2>7, <2>8, <2>9, <2>10, <2>11, <2>12
       DEF Request
<1>9. CASE UNCHANGED vars
  BY <1>9, Stutter DEF vars, service, registry
<1> QED
  BY <1>1, <1>2, <1>3, <1>4, <1>5, <1>6, <1>7, <1>8, <1>9 DEF Next

\* The inductive invariant holds always.
LEMMA Always == Spec => []Inv
<1>1. Init => Inv
  BY InitInv
<1>2. Inv /\ [Next]_vars => Inv'
  BY NextInv
<1> QED
  BY <1>1, <1>2, PTL DEF Spec

(***************************************************************************)
(* enforceCurrentUser: no request is served for a user who was disabled,   *)
(* or as an administrator for one who was none, ever since it began.       *)
(***************************************************************************)
THEOREM OnlyTheEntitledAreServed == Spec => []ServedOnlyIfEntitled
<1>1. Inv => ServedOnlyIfEntitled
  BY DEF Inv, EntitledInv, Entitled, ServedOnlyIfEntitled
<1> QED
  BY <1>1, Always, PTL

(***************************************************************************)
(* linkOrCreateUser: a single sign-on session is of an account that this   *)
(* identity created or an administrator linked to it.                      *)
(***************************************************************************)
THEOREM AccountsAreNotTakenOver == Spec => []SessionsAreOwned
<1>1. Inv => SessionsAreOwned
  BY DEF Inv, OwnedInv
<1> QED
  BY <1>1, Always, PTL

(***************************************************************************)
(* idpRegistry.Reload: with no patch under way the registry has the stored *)
(* mode and switches, but after a failed read or overlapping patches.      *)
(***************************************************************************)
THEOREM RegistryIsSettled == Spec => []RegistryFollowsSettings
<1>1. Inv => RegistryFollowsSettings
  BY DEF Inv, SettingsInv, Settled, RegistryFollowsSettings
<1> QED
  BY <1>1, Always, PTL
-----------------------------------------------------------------------------
(* Types: a strengthening of its own *)

\* A row of users.
IsUser(u) ==
  /\ u = [id |-> u.id, name |-> u.name, hash |-> u.hash, role |-> u.role,
          disabled |-> u.disabled]
  /\ u.id \in Ids /\ u.name \in UserNames
  /\ u.role \in {"admin", "user"} /\ u.disabled \in BOOLEAN

UsersTyped(users) == IsFiniteSet(users) /\ \A u \in users : IsUser(u)

\* Whoever comes back from a provider was sent there and has signed in.
FlowTyped(x) ==
  /\ x.stage \in {"new", "sent", "granted", "spent"}
  /\ x.provider \in Providers \cup {None} /\ x.subject \in Subjects \cup {None}
  /\ x.stage \in {"sent", "granted"} => x.provider \in Providers
  /\ x.stage = "granted" => x.subject \in Subjects

FlowsTyped == \A f \in Flows : FlowTyped(flow[f])

RequestTyped(x, fl) ==
  /\ x.pc \in PCs
  /\ x.pc \in Served \cup {"hash", "issue"} => x.caller \in Rows
  /\ x.pc \in SignIn => fl[x.flow].provider \in Providers /\ fl[x.flow].subject \in Subjects

Sessions == [user : Rows, identity : Identities \cup {None}] \cup {None}

ProcessTyped ==
  /\ up \in BOOLEAN /\ booted \in BOOLEAN
  /\ mode \in Modes \cup {""}
  /\ snapshot \in [Providers -> [status : {"ready", "degraded"}, enabled : BOOLEAN]]
  /\ retry \subseteq Providers
  /\ faults \in 0 .. MaxFaults

\* A request hands out one token at most and creates one user at most: what is
\* handed out and created, with the requests that may yet, is no more than
\* what has begun.  So a token is always one of Tokens, and NewID one of Ids.
Begun == PCs \ {"idle"}
MayCreate == {"find", "touch", "user", "lookup", "create", "resolved", "current"}
Among(requests, S) == {r \in Reqs : requests[r].pc \in S}

Counted ==
  /\ begun \in 0 .. MaxRequests /\ issued \in Nat
  /\ IsFiniteSet(Among(req, Begun)) /\ IsFiniteSet(Among(req, MayCreate))
  /\ issued + Cardinality(Among(req, Begun)) <= begun
  /\ Cardinality(db.users) + Cardinality(Among(req, MayCreate)) <= begun

TypeInv ==
  /\ ProcessTyped
  /\ sessions \in [Tokens -> Sessions]
  /\ FlowsTyped
  /\ UsersTyped(db.users)
  /\ \A r \in Reqs : RequestTyped(req[r], flow)
  /\ Counted
-----------------------------------------------------------------------------
(* Counting *)

\* What a request adds to a count.
Bit(pc, S) == IF pc \in S THEN 1 ELSE 0

\* One request has moved to x; the others are where they were.
Moved(r, x) ==
  \A q \in Reqs : LET y == IF q = r THEN x ELSE req[q]
                  IN  /\ req'[q].pc = y.pc /\ req'[q].caller = y.caller
                      /\ req'[q].flow = y.flow

\* A changed request has moved.
LEMMA OneMoved ==
  ASSUME Shape, NEW r \in Reqs, NEW x, IsRequest(x), req' = [req EXCEPT ![r] = x]
  PROVE  Moved(r, x)
  BY OneRequest DEF Moved

\* The count of the requests at certain steps.
LEMMA OneCounted ==
  ASSUME NEW r \in Reqs, NEW x, Moved(r, x), NEW S, IsFiniteSet(Among(req, S))
  PROVE  /\ IsFiniteSet(Among(req', S))
         /\ Cardinality(Among(req, S)) \in Nat
         /\ Cardinality(Among(req', S)) \in Nat
         /\ Cardinality(Among(req', S)) =
              Cardinality(Among(req, S)) - Bit(req[r].pc, S) + Bit(x.pc, S)
<1> DEFINE A == Among(req, S)
           B == Among(req', S)
<1>0. /\ r \in A <=> req[r].pc \in S
      /\ B = IF x.pc \in S THEN A \cup {r} ELSE A \ {r}
  BY DEF Among, Moved
<1>1. IsFiniteSet(A)
  OBVIOUS
<1> HIDE DEF A, B
<1>2. /\ Cardinality(A) \in Nat
      /\ IsFiniteSet(A \cup {r}) /\ IsFiniteSet(A \ {r})
      /\ Cardinality(A \cup {r}) = IF r \in A THEN Cardinality(A) ELSE Cardinality(A) + 1
      /\ Cardinality(A \ {r}) = IF r \in A THEN Cardinality(A) - 1 ELSE Cardinality(A)
  BY ONLY <1>1, FS_CardinalityType, FS_AddElement, FS_RemoveElement
<1>3. /\ Cardinality(A \cup {r}) \in Nat /\ Cardinality(A \ {r}) \in Nat
  BY ONLY <1>2, FS_CardinalityType
<1>4. CASE x.pc \in S
  BY ONLY <1>0, <1>2, <1>3, <1>4 DEF Bit, A, B
<1>5. CASE x.pc \notin S
  BY ONLY <1>0, <1>2, <1>3, <1>5 DEF Bit, A, B
<1> QED
  BY ONLY <1>4, <1>5

\* A step of one request, typed and counted.
LEMMA TypedStep ==
  ASSUME Inv, TypeInv, NEW r \in Reqs, NEW x, Moved(r, x), RequestTyped(x, flow'),
         ProcessTyped', sessions' \in [Tokens -> Sessions], FlowsTyped',
         UsersTyped(db'.users),
         \A f \in Flows : flow[f].stage = "spent" => flow'[f] = flow[f],
         begun' \in 0 .. MaxRequests, issued' \in Nat,
         issued' + Bit(x.pc, Begun) + begun <= issued + Bit(req[r].pc, Begun) + begun',
         Cardinality(db'.users) + Bit(x.pc, MayCreate) + begun
           <= Cardinality(db.users) + Bit(req[r].pc, MayCreate) + begun'
  PROVE  TypeInv'
<1>1. ASSUME NEW q \in Reqs PROVE RequestTyped(req'[q], flow')
  <2>1. CASE q = r
    <3>1. req'[q].pc = x.pc /\ req'[q].caller = x.caller /\ req'[q].flow = x.flow
      BY <2>1 DEF Moved
    <3> QED
      BY ONLY <3>1, RequestTyped(x, flow') DEF RequestTyped
  <2>2. CASE q # r
    <3>1. PICK y, z : y = req[q] /\ z = req'[q]
      OBVIOUS
    <3>2. z.pc = y.pc /\ z.caller = y.caller /\ z.flow = y.flow
      BY <2>2, <3>1 DEF Moved
    <3>3. RequestTyped(y, flow) /\ Owner(y, flow, owned)
      BY <3>1 DEF TypeInv, Inv, OwnedInv
    <3>4. RequestTyped(z, flow')
      BY ONLY <3>2, <3>3, \A f \in Flows : flow[f].stage = "spent" => flow'[f] = flow[f]
         DEF RequestTyped, Owner
    <3> QED
      BY ONLY <3>1, <3>4
  <2> QED
    BY <2>1, <2>2
<1>2. Counted'
  <2>1. Counted /\ UsersTyped(db.users)
    BY DEF TypeInv
  <2>2. PICK a, b, c, d : /\ a = Cardinality(Among(req, Begun))
                          /\ b = Cardinality(Among(req', Begun))
                          /\ c = Cardinality(Among(req, MayCreate))
                          /\ d = Cardinality(Among(req', MayCreate))
    OBVIOUS
  <2>3. /\ IsFiniteSet(Among(req', Begun)) /\ a \in Nat /\ b \in Nat
        /\ b = a - Bit(req[r].pc, Begun) + Bit(x.pc, Begun)
    BY ONLY <2>1, <2>2, r \in Reqs, Moved(r, x), OneCounted DEF Counted
  <2>4. /\ IsFiniteSet(Among(req', MayCreate)) /\ c \in Nat /\ d \in Nat
        /\ d = c - Bit(req[r].pc, MayCreate) + Bit(x.pc, MayCreate)
    BY ONLY <2>1, <2>2, r \in Reqs, Moved(r, x), OneCounted DEF Counted
  <2>5. PICK m, n : m = Cardinality(db.users) /\ n = Cardinality(db'.users)
    OBVIOUS
  <2>6. m \in Nat /\ n \in Nat
    BY ONLY <2>1, <2>5, UsersTyped(db'.users), FS_CardinalityType DEF UsersTyped
  <2>7. PICK i, j, k, l : /\ i = Bit(req[r].pc, Begun) /\ j = Bit(x.pc, Begun)
                          /\ k = Bit(req[r].pc, MayCreate) /\ l = Bit(x.pc, MayCreate)
    OBVIOUS
  <2>8. i \in 0 .. 1 /\ j \in 0 .. 1 /\ k \in 0 .. 1 /\ l \in 0 .. 1
    BY ONLY <2>7 DEF Bit
  <2>9. issued + a <= begun /\ m + c <= begun /\ issued \in Nat /\ begun \in Nat
    BY ONLY <2>1, <2>2, <2>5, AccountsAssumption DEF Counted
  <2>10. issued' + j + begun <= issued + i + begun' /\ n + l + begun <= m + k + begun'
    BY ONLY <2>5, <2>7,
         issued' + Bit(x.pc, Begun) + begun <= issued + Bit(req[r].pc, Begun) + begun',
         Cardinality(db'.users) + Bit(x.pc, MayCreate) + begun
           <= Cardinality(db.users) + Bit(req[r].pc, MayCreate) + begun'
  <2>11. begun' \in Nat /\ begun' \in 0 .. MaxRequests /\ issued' \in Nat
    BY AccountsAssumption
  <2>12. issued' + b <= begun' /\ n + d <= begun'
    BY ONLY <2>3, <2>4, <2>6, <2>7, <2>8, <2>9, <2>10, <2>11
  <2> QED
    BY ONLY <2>2, <2>3, <2>4, <2>5, <2>11, <2>12 DEF Counted
<1> QED
  BY <1>1, <1>2 DEF TypeInv

\* Steps of the process and of others, between requests.
LEMMA TypedWorld ==
  ASSUME Inv, TypeInv, UNCHANGED <<db, req, issued, begun>>,
         ProcessTyped', sessions' \in [Tokens -> Sessions], FlowsTyped',
         \A f \in Flows : flow[f].stage = "spent" => flow'[f] = flow[f]
  PROVE  TypeInv'
<1>1. ASSUME NEW q \in Reqs PROVE RequestTyped(req'[q], flow')
  <2>1. PICK y : y = req[q] /\ y = req'[q]
    OBVIOUS
  <2>2. RequestTyped(y, flow) /\ Owner(y, flow, owned)
    BY <2>1 DEF TypeInv, Inv, OwnedInv
  <2>3. RequestTyped(y, flow')
    BY ONLY <2>2, \A f \in Flows : flow[f].stage = "spent" => flow'[f] = flow[f]
       DEF RequestTyped, Owner
  <2> QED
    BY ONLY <2>1, <2>3
<1>2. Counted'
  BY DEF TypeInv, Counted
<1>3. UsersTyped(db'.users)
  BY DEF TypeInv
<1> QED
  BY <1>1, <1>2, <1>3 DEF TypeInv

\* A request goes on: no user, token or attempt is concerned.
LEMMA TypedOn ==
  ASSUME Inv, TypeInv, NEW r \in Reqs, NEW x, Moved(r, x), RequestTyped(x, flow),
         ProcessTyped', UNCHANGED <<sessions, issued, begun, flow>>, db'.users = db.users,
         req[r].pc \in Begun, x.pc \in MayCreate => req[r].pc \in MayCreate
  PROVE  TypeInv'
<1>1. /\ FlowsTyped' /\ sessions' \in [Tokens -> Sessions] /\ UsersTyped(db'.users)
      /\ issued \in Nat /\ begun \in 0 .. MaxRequests
  BY DEF TypeInv, FlowsTyped, Counted
<1>2. Bit(x.pc, Begun) <= Bit(req[r].pc, Begun)
  BY DEF Bit
<1>3. Bit(x.pc, MayCreate) <= Bit(req[r].pc, MayCreate)
  BY DEF Bit
<1>4. /\ Bit(x.pc, Begun) \in Nat /\ Bit(req[r].pc, Begun) \in Nat
      /\ Bit(x.pc, MayCreate) \in Nat /\ Bit(req[r].pc, MayCreate) \in Nat
  BY DEF Bit
<1>5. Cardinality(db.users) \in Nat /\ begun \in Nat /\ issued \in Nat
  BY <1>1, FS_CardinalityType, AccountsAssumption DEF TypeInv, UsersTyped
<1>6. /\ issued' + Bit(x.pc, Begun) + begun <= issued + Bit(req[r].pc, Begun) + begun'
      /\ Cardinality(db'.users) + Bit(x.pc, MayCreate) + begun
           <= Cardinality(db.users) + Bit(req[r].pc, MayCreate) + begun'
  <2>1. PICK i, j, k, l, c : /\ i = Bit(req[r].pc, Begun) /\ j = Bit(x.pc, Begun)
                             /\ k = Bit(req[r].pc, MayCreate) /\ l = Bit(x.pc, MayCreate)
                             /\ c = Cardinality(db.users) /\ c = Cardinality(db'.users)
    OBVIOUS
  <2>2. /\ i \in Nat /\ j \in Nat /\ k \in Nat /\ l \in Nat /\ c \in Nat /\ j <= i /\ l <= k
    BY ONLY <2>1, <1>2, <1>3, <1>4, <1>5
  <2>3. issued' + j + begun <= issued + i + begun' /\ c + l + begun <= c + k + begun'
    BY ONLY <2>2, <1>5, UNCHANGED <<issued, begun>>
  <2> QED
    BY ONLY <2>1, <2>3
<1>7. RequestTyped(x, flow') /\ \A f \in Flows : flow[f].stage = "spent" => flow'[f] = flow[f]
  OBVIOUS
<1>8. begun' \in 0 .. MaxRequests /\ issued' \in Nat
  BY <1>1
<1> QED
  BY ONLY Inv, TypeInv, r \in Reqs, Moved(r, x), ProcessTyped', <1>1, <1>6, <1>7, <1>8, TypedStep

\* A request ends; it may have handed out a token, or created a user if it could.
LEMMA TypedEnd ==
  ASSUME Inv, TypeInv, NEW r \in Reqs, NEW x, Moved(r, x), x.pc = "idle",
         ProcessTyped', UNCHANGED <<begun, flow>>,
         req[r].pc \in Begun,
         sessions' \in [Tokens -> Sessions], issued' \in {issued, issued + 1},
         UsersTyped(db'.users),
         \/ Cardinality(db'.users) <= Cardinality(db.users)
         \/ /\ Cardinality(db'.users) <= Cardinality(db.users) + 1
            /\ req[r].pc \in MayCreate
  PROVE  TypeInv'
<1>1. /\ FlowsTyped' /\ issued \in Nat /\ begun \in 0 .. MaxRequests
  BY DEF TypeInv, FlowsTyped, Counted
<1>2. Bit(x.pc, Begun) = 0 /\ Bit(x.pc, MayCreate) = 0 /\ Bit(req[r].pc, Begun) = 1
  BY DEF Bit, Begun, MayCreate
<1>3. Bit(req[r].pc, MayCreate) \in 0 .. 1 /\ (req[r].pc \in MayCreate => Bit(req[r].pc, MayCreate) = 1)
  BY DEF Bit
<1>4. Cardinality(db.users) \in Nat /\ Cardinality(db'.users) \in Nat /\ begun \in Nat
  BY <1>1, FS_CardinalityType, AccountsAssumption DEF TypeInv, UsersTyped
<1>5. /\ issued' + Bit(x.pc, Begun) + begun <= issued + Bit(req[r].pc, Begun) + begun'
      /\ issued' \in Nat
  BY <1>1, <1>2, <1>4
<1>6. Cardinality(db'.users) + Bit(x.pc, MayCreate) + begun
           <= Cardinality(db.users) + Bit(req[r].pc, MayCreate) + begun'
  <2>1. PICK c, d, k : /\ c = Cardinality(db.users) /\ d = Cardinality(db'.users)
                       /\ k = Bit(req[r].pc, MayCreate)
    OBVIOUS
  <2>2. c \in Nat /\ d \in Nat /\ k \in 0 .. 1 /\ (d <= c \/ (d <= c + 1 /\ k = 1))
    BY <2>1, <1>3, <1>4
  <2>3. d + 0 + begun <= c + k + begun'
    BY ONLY <2>2, <1>4, UNCHANGED begun
  <2> QED
    BY ONLY <2>1, <2>3, <1>2
<1>7. RequestTyped(x, flow')
  BY DEF RequestTyped, PCs, Served, SignIn
<1>8. \A f \in Flows : flow[f].stage = "spent" => flow'[f] = flow[f]
  OBVIOUS
<1>9. begun' \in 0 .. MaxRequests
  BY <1>1
<1> QED
  BY ONLY Inv, TypeInv, r \in Reqs, Moved(r, x), ProcessTyped', UsersTyped(db'.users),
     sessions' \in [Tokens -> Sessions], <1>1, <1>5, <1>6, <1>7, <1>8, <1>9, TypedStep

\* A request begins, and may already have created a user if it will not again.
LEMMA TypedBegin ==
  ASSUME Inv, TypeInv, NEW r \in Reqs, NEW x, Moved(r, x), RequestTyped(x, flow'),
         ProcessTyped', UNCHANGED <<sessions, issued>>, CanBegin(r), begun' = begun + 1,
         FlowsTyped', \A f \in Flows : flow[f].stage = "spent" => flow'[f] = flow[f],
         UsersTyped(db'.users),
         \/ Cardinality(db'.users) <= Cardinality(db.users)
         \/ /\ Cardinality(db'.users) <= Cardinality(db.users) + 1
            /\ x.pc \notin MayCreate
  PROVE  TypeInv'
<1>1. /\ issued \in Nat /\ begun \in Nat /\ begun < MaxRequests
      /\ sessions' \in [Tokens -> Sessions]
  BY AccountsAssumption DEF TypeInv, Counted, CanBegin
<1>2. req[r].pc = "idle"
  BY Records DEF CanBegin
<1>3. Bit(req[r].pc, MayCreate) = 0 /\ Bit(req[r].pc, Begun) = 0
  BY <1>2 DEF Bit, Begun, MayCreate
<1>4. Bit(x.pc, Begun) \in 0 .. 1 /\ Bit(x.pc, MayCreate) \in 0 .. 1
      /\ (x.pc \notin MayCreate => Bit(x.pc, MayCreate) = 0)
  BY DEF Bit
<1>5. Cardinality(db.users) \in Nat /\ Cardinality(db'.users) \in Nat
  BY FS_CardinalityType DEF TypeInv, UsersTyped
<1>6. PICK c, d, i, k : /\ c = Cardinality(db.users) /\ d = Cardinality(db'.users)
                        /\ i = Bit(x.pc, Begun) /\ k = Bit(x.pc, MayCreate)
  OBVIOUS
<1>7. /\ c \in Nat /\ d \in Nat /\ i \in 0 .. 1 /\ k \in 0 .. 1
      /\ d <= c \/ (d <= c + 1 /\ k = 0)
  BY <1>4, <1>5, <1>6
<1>8. issued' + i + begun <= issued + 0 + begun' /\ d + k + begun <= c + 0 + begun'
  BY ONLY <1>1, <1>7, UNCHANGED <<sessions, issued>>, begun' = begun + 1
<1>9. begun' \in 0 .. MaxRequests /\ issued' \in Nat
  BY <1>1, AccountsAssumption
<1>10. /\ issued' + Bit(x.pc, Begun) + begun <= issued + Bit(req[r].pc, Begun) + begun'
       /\ Cardinality(db'.users) + Bit(x.pc, MayCreate) + begun
           <= Cardinality(db.users) + Bit(req[r].pc, MayCreate) + begun'
  BY ONLY <1>3, <1>6, <1>8
<1> QED
  BY ONLY Inv, TypeInv, r \in Reqs, Moved(r, x), RequestTyped(x, flow'), ProcessTyped',
     FlowsTyped', \A f \in Flows : flow[f].stage = "spent" => flow'[f] = flow[f],
     UsersTyped(db'.users), <1>1, <1>9, <1>10, TypedStep
-----------------------------------------------------------------------------
(* The users table *)

\* A set some elements of which are rewritten has no more elements.
LEMMA Rewritten ==
  ASSUME NEW U, IsFiniteSet(U), NEW K, K \subseteq U, NEW N
  PROVE  LET V == (U \ K) \cup {N[u] : u \in K}
         IN  IsFiniteSet(V) /\ Cardinality(V) <= Cardinality(U)
<1> DEFINE I == {N[u] : u \in K}
           g == [u \in K |-> N[u]]
<1>1. IsFiniteSet(K) /\ IsFiniteSet(U \ K)
  BY FS_Subset, FS_Difference
<1>2. g \in Surjection(K, I)
  BY DEF Surjection
<1> HIDE DEF g
<1>3. IsFiniteSet(I) /\ Cardinality(I) <= Cardinality(K)
  BY ONLY <1>1, <1>2, FS_Surjection
<1>4. Cardinality(U \ K) = Cardinality(U) - Cardinality(K)
  <2>1. U \cap K = K
    OBVIOUS
  <2> QED
    BY ONLY <2>1, IsFiniteSet(U), FS_Difference
<1> HIDE DEF I
<1> DEFINE V == (U \ K) \cup I
           m == Cardinality((U \ K) \cap I)
<1>5. /\ IsFiniteSet(V)
      /\ Cardinality(V) = Cardinality(U \ K) + Cardinality(I) - m
  BY ONLY <1>1, <1>3, FS_Union
<1>6. m \in Nat
  <2>1. IsFiniteSet((U \ K) \cap I)
    BY ONLY <1>3, FS_Subset
  <2> QED
    BY ONLY <2>1, FS_CardinalityType
<1>7. /\ Cardinality(U) \in Nat /\ Cardinality(K) \in Nat /\ Cardinality(I) \in Nat
  BY ONLY <1>1, <1>3, IsFiniteSet(U), FS_CardinalityType
<1> HIDE DEF m, V
<1>8. Cardinality(V) <= Cardinality(U)
  BY ONLY <1>3, <1>4, <1>5, <1>6, <1>7
<1> QED
  BY ONLY <1>5, <1>8 DEF V, I

\* What the queries return of a row.
LEMMA PublicRow ==
  ASSUME NEW u, IsUser(u)
  PROVE  Pg!Public(u) \in Rows
<1>1. u.id \in Ids /\ u.name \in UserNames /\ u.role \in {"admin", "user"} /\ u.disabled \in BOOLEAN
  BY DEF IsUser
<1> QED
  BY ONLY <1>1 DEF Pg!Public, Rows

\* The table has n users, typed, or one more.
Grown(users, before) ==
  UsersTyped(users) /\ Cardinality(users) <= Cardinality(before) + 1

Kept(users, before) ==
  UsersTyped(users) /\ Cardinality(users) <= Cardinality(before)

\* Statements that rewrite users leave as many.
LEMMA UsersRewritten ==
  ASSUME NEW U, UsersTyped(U), NEW K, K \subseteq U, NEW N, \A u \in K : IsUser(N[u])
  PROVE  Kept((U \ K) \cup {N[u] : u \in K}, U)
<1> DEFINE V == (U \ K) \cup {N[u] : u \in K}
<1>1. IsFiniteSet(V) /\ Cardinality(V) <= Cardinality(U)
  BY Rewritten DEF UsersTyped
<1>2. \A u \in V : IsUser(u)
  BY DEF UsersTyped
<1> QED
  BY ONLY <1>1, <1>2 DEF Kept, UsersTyped, V

\* A statement that writes one user more.
LEMMA UserAdded ==
  ASSUME NEW U, UsersTyped(U), NEW w, IsUser(w)
  PROVE  Grown(U \cup {w}, U)
<1>1. IsFiniteSet(U) /\ Cardinality(U) \in Nat
  BY FS_CardinalityType DEF UsersTyped
<1>2. IsFiniteSet(U \cup {w}) /\ Cardinality(U \cup {w}) <= Cardinality(U) + 1
  BY ONLY <1>1, FS_AddElement
<1>3. \A u \in U \cup {w} : IsUser(u)
  BY DEF UsersTyped
<1> QED
  BY ONLY <1>2, <1>3 DEF Grown, UsersTyped

\* Users that are kept have grown by none.
LEMMA KeptIsGrown ==
  ASSUME NEW U, UsersTyped(U), NEW V, Kept(V, U)
  PROVE  Grown(V, U)
<1>1. Cardinality(U) \in Nat /\ Cardinality(V) \in Nat
  BY FS_CardinalityType DEF Kept, UsersTyped
<1> QED
  BY ONLY <1>1, Kept(V, U) DEF Kept, Grown

\* Unchanged users are kept.
LEMMA NoChange ==
  ASSUME NEW U, UsersTyped(U)
  PROVE  Kept(U, U)
<1>1. Cardinality(U) \in Nat
  BY FS_CardinalityType DEF UsersTyped
<1> QED
  BY ONLY <1>1, UsersTyped(U) DEF Kept

\* A new row of users is one.
LEMMA NewUserRow ==
  ASSUME NEW id \in Ids, NEW name \in UserNames, NEW hash, NEW role \in {"admin", "user"}
  PROVE  IsUser(Pg!UserRow(id, name, hash, role))
  BY DEF Pg!UserRow, IsUser

\* A reply of CreateUser to the tables d, with the row w.
UserReply(e, d, w) ==
  /\ Grown(e.db.users, d.users) /\ (e.err # "" => e.db = d)
  /\ e.err = "" => e.rows = {Pg!Public(w)}

\* CreateUser.
LEMMA CreatedUser ==
  ASSUME NEW d, Tables(d), UsersTyped(d.users), NEW id \in Ids, NEW name \in UserNames, NEW hash,
         NEW role \in {"admin", "user"}
  PROVE  UserReply(Pg!CreateUser(d, id, name, hash, role), d, Pg!UserRow(id, name, hash, role))
<1> DEFINE e == Pg!CreateUser(d, id, name, hash, role)
           w == Pg!UserRow(id, name, hash, role)
<1>1. CASE e.err # ""
  <2>1. e.db = d
    BY <1>1 DEF Pg!CreateUser, Pg!PublicReply, Pg!InsertRow, Pg!Fail, Pg!Ok
  <2>2. Grown(d.users, d.users)
    BY KeptIsGrown, NoChange
  <2> QED
    BY <1>1, <2>1, <2>2 DEF UserReply
<1>2. CASE e.err = ""
  <2>1. e.db = [d EXCEPT !["users"] = @ \cup {w}] /\ e.rows = {Pg!Public(w)}
    BY <1>2 DEF Tables, Pg!CreateUser, Pg!PublicReply, Pg!InsertRow, Pg!Fail, Pg!Ok
  <2>2. e.db.users = d.users \cup {w}
    BY <2>1 DEF Tables
  <2>3. IsUser(w)
    BY NewUserRow
  <2> HIDE DEF e, w
  <2>4. Grown(d.users \cup {w}, d.users)
    BY <2>3, UserAdded
  <2>5. Grown(e.db.users, d.users) /\ e.rows = {Pg!Public(w)}
    BY ONLY <2>1, <2>2, <2>4
  <2> QED
    BY ONLY <1>2, <2>5 DEF e, w, UserReply
<1> QED
  BY <1>1, <1>2

\* UpdateUser.
LEMMA UpdatedUsers ==
  ASSUME NEW d, Tables(d), UsersTyped(d.users), NEW id, NEW disabled \in BOOLEAN \cup {None},
         NEW role \in {"admin", "user", None}
  PROVE  Kept(Pg!UpdateUser(d, id, disabled, role).db.users, d.users)
<1>1. PICK U, K, N :
        /\ U = d.users /\ K = {u \in U : u.id = id}
        /\ N = [u \in K |-> [u EXCEPT !.disabled = Pg!Given(disabled, @),
                                      !.role = Pg!Given(role, @)]]
  OBVIOUS
<1>2. {[u EXCEPT !.disabled = Pg!Given(disabled, @), !.role = Pg!Given(role, @)] : u \in K} =
        {N[u] : u \in K}
  BY ONLY <1>1
<1>3. Pg!UpdateUser(d, id, disabled, role).db.users =
        IF {N[u] : u \in K} = {} THEN U ELSE (U \ K) \cup {N[u] : u \in K}
  <2>1. PICK I : I = {N[u] : u \in K}
    OBVIOUS
  <2>2. PICK e : e = [d EXCEPT !["users"] = (@ \ K) \cup I]
    OBVIOUS
  <2>3. Pg!UpdateUser(d, id, disabled, role).db = IF I = {} THEN d ELSE e
    BY ONLY <1>1, <1>2, <2>1, <2>2
       DEF Pg!UpdateUser, Pg!PublicReply, Pg!UpdateWhere, Pg!Where, Pg!Fail, Pg!Ok
  <2>4. e.users = (U \ K) \cup I
    BY ONLY <1>1, <2>2, Tables(d) DEF Tables
  <2> QED
    BY ONLY <1>1, <2>1, <2>3, <2>4
<1>4. ASSUME NEW u \in K PROVE IsUser(N[u])
  <2>1. IsUser(u)
    BY <1>1 DEF UsersTyped
  <2>2. Pg!Given(disabled, u.disabled) \in BOOLEAN /\ Pg!Given(role, u.role) \in {"admin", "user"}
    BY ONLY <2>1, disabled \in BOOLEAN \cup {None}, role \in {"admin", "user", None}
       DEF IsUser, Pg!Given
  <2>3. PICK b, p : b = Pg!Given(disabled, u.disabled) /\ p = Pg!Given(role, u.role)
    OBVIOUS
  <2>4. N[u] = [[u EXCEPT !.disabled = b] EXCEPT !.role = p]
    <3>1. N[u] = [u EXCEPT !.disabled = Pg!Given(disabled, u.disabled),
                           !.role = Pg!Given(role, u.role)]
      BY ONLY <1>1, <1>4, <2>1 DEF IsUser
    <3> QED
      BY ONLY <2>3, <3>1
  <2>5. N[u] = [id |-> u.id, name |-> u.name, hash |-> u.hash, role |-> p, disabled |-> b]
    <3>1. PICK i, n, h, r, c : /\ u = [id |-> i, name |-> n, hash |-> h, role |-> r, disabled |-> c]
      BY ONLY <2>1 DEF IsUser
    <3>2. [u EXCEPT !.disabled = b] =
            [id |-> i, name |-> n, hash |-> h, role |-> r, disabled |-> b]
      BY ONLY <3>1
    <3> QED
      BY ONLY <2>4, <3>1, <3>2
  <2> QED
    BY ONLY <2>1, <2>2, <2>3, <2>5 DEF IsUser
<1>5. K \subseteq U /\ UsersTyped(U)
  BY <1>1
<1>6. Kept((U \ K) \cup {N[u] : u \in K}, U) /\ Kept(U, U)
  BY ONLY <1>4, <1>5, UsersRewritten, NoChange
<1> QED
  BY ONLY <1>1, <1>3, <1>6

\* SetPasswordHash.
LEMMA HashSet ==
  ASSUME NEW d, Tables(d), UsersTyped(d.users), NEW name, NEW hash
  PROVE  Kept(Pg!SetPasswordHash(d, name, hash).db.users, d.users)
<1>1. PICK U, K, N :
        /\ U = d.users /\ K = {u \in U : u.name = name}
        /\ N = [u \in K |-> [u EXCEPT !.hash = hash]]
  OBVIOUS
<1>2. {[u EXCEPT !.hash = hash] : u \in K} = {N[u] : u \in K}
  BY ONLY <1>1
<1>3. Pg!SetPasswordHash(d, name, hash).db.users =
        IF {N[u] : u \in K} = {} THEN U ELSE (U \ K) \cup {N[u] : u \in K}
  <2>1. PICK I : I = {N[u] : u \in K}
    OBVIOUS
  <2>2. PICK e : e = [d EXCEPT !["users"] = (@ \ K) \cup I]
    OBVIOUS
  <2>3. Pg!SetPasswordHash(d, name, hash).db = IF I = {} THEN d ELSE e
    BY ONLY <1>1, <1>2, <2>1, <2>2
       DEF Pg!SetPasswordHash, Pg!UpdateWhere, Pg!Where, Pg!Fail, Pg!Ok
  <2>4. e.users = (U \ K) \cup I
    BY ONLY <1>1, <2>2, Tables(d) DEF Tables
  <2> QED
    BY ONLY <1>1, <2>1, <2>3, <2>4
<1>4. ASSUME NEW u \in K PROVE IsUser(N[u])
  <2>1. IsUser(u) /\ N[u] = [u EXCEPT !.hash = hash]
    BY <1>1 DEF UsersTyped
  <2>2. N[u] = [id |-> u.id, name |-> u.name, hash |-> hash, role |-> u.role,
                disabled |-> u.disabled]
    <3>1. PICK i, n, h, r, c : /\ u = [id |-> i, name |-> n, hash |-> h, role |-> r, disabled |-> c]
      BY ONLY <2>1 DEF IsUser
    <3> QED
      BY ONLY <2>1, <3>1
  <2> QED
    BY ONLY <2>1, <2>2 DEF IsUser
<1>5. K \subseteq U /\ UsersTyped(U)
  BY <1>1
<1>6. Kept((U \ K) \cup {N[u] : u \in K}, U) /\ Kept(U, U)
  BY ONLY <1>4, <1>5, UsersRewritten, NoChange
<1> QED
  BY ONLY <1>1, <1>3, <1>6

\* BootstrapAdmin.
LEMMA AdminMade ==
  ASSUME NEW d, Tables(d), UsersTyped(d.users), NEW id \in Ids, NEW name \in UserNames, NEW hash
  PROVE  Grown(Pg!BootstrapAdmin(d, id, name, hash).db.users, d.users)
<1>0. PICK w : w = Pg!UserRow(id, name, hash, "admin")
  OBVIOUS
<1>1. PICK U, K, N :
        /\ U = d.users /\ K = {u \in U : u.name = name}
        /\ N = [u \in K |-> [u EXCEPT !.hash = Pg!Given(hash, @), !.role = "admin",
                                      !.disabled = FALSE]]
  OBVIOUS
<1>2. {[u EXCEPT !.hash = Pg!Given(hash, @), !.role = "admin", !.disabled = FALSE] : u \in K} =
        {N[u] : u \in K}
  BY ONLY <1>1
<1>3. PICK I : I = {N[u] : u \in K}
  OBVIOUS
<1>4. Pg!BootstrapAdmin(d, id, name, hash).db.users =
        IF K = {} THEN U \cup {w} ELSE (U \ K) \cup I
  <2>1. PICK e, f : e = [d EXCEPT !["users"] = (@ \ K) \cup I] /\ f = [d EXCEPT !["users"] = @ \cup {w}]
    OBVIOUS
  <2>2. K = {} <=> I = {}
    BY ONLY <1>3
  <2>3. Pg!BootstrapAdmin(d, id, name, hash).db = IF K = {} THEN f ELSE e
    BY ONLY <1>0, <1>1, <1>2, <1>3, <2>1, <2>2
       DEF Pg!BootstrapAdmin, Pg!OnConflict, Pg!InsertRow, Pg!UpdateWhere, Pg!Where, Pg!Fail, Pg!Ok
  <2>4. e.users = (U \ K) \cup I /\ f.users = U \cup {w}
    BY ONLY <1>1, <2>1, Tables(d) DEF Tables
  <2> QED
    BY ONLY <2>3, <2>4
<1>5. ASSUME NEW u \in K PROVE IsUser(N[u])
  <2>1. IsUser(u) /\ N[u] = [u EXCEPT !.hash = Pg!Given(hash, u.hash), !.role = "admin",
                                      !.disabled = FALSE]
    BY <1>1 DEF UsersTyped, IsUser
  <2>2. PICK g : g = Pg!Given(hash, u.hash)
    OBVIOUS
  <2>3. N[u] = [id |-> u.id, name |-> u.name, hash |-> g, role |-> "admin", disabled |-> FALSE]
    <3>1. PICK i, n, h, r, c : /\ u = [id |-> i, name |-> n, hash |-> h, role |-> r, disabled |-> c]
      BY ONLY <2>1 DEF IsUser
    <3>2. N[u] = [[[u EXCEPT !.hash = g] EXCEPT !.role = "admin"] EXCEPT !.disabled = FALSE]
      BY ONLY <2>1, <2>2
    <3>3. [u EXCEPT !.hash = g] = [id |-> i, name |-> n, hash |-> g, role |-> r, disabled |-> c]
      BY ONLY <3>1
    <3> QED
      BY ONLY <3>1, <3>2, <3>3
  <2> QED
    BY ONLY <2>1, <2>3 DEF IsUser
<1>6. K \subseteq U /\ UsersTyped(U)
  BY ONLY <1>1, UsersTyped(d.users)
<1>7. IsUser(w)
  <2>1. w = [id |-> id, name |-> name, hash |-> hash, role |-> "admin", disabled |-> FALSE]
    BY ONLY <1>0 DEF Pg!UserRow
  <2> QED
    BY ONLY <2>1, id \in Ids, name \in UserNames DEF IsUser
<1>8. Grown((U \ K) \cup I, U) /\ Grown(U \cup {w}, U)
  <2>1. Kept((U \ K) \cup I, U)
    <3>1. \A u \in K : IsUser(N[u])
      BY ONLY <1>5
    <3>2. Kept((U \ K) \cup {N[u] : u \in K}, U)
      BY ONLY <1>6, <3>1, UsersRewritten
    <3> QED
      BY ONLY <1>3, <3>2
  <2>2. Grown((U \ K) \cup I, U)
    BY ONLY <1>6, <2>1, KeptIsGrown
  <2>3. Grown(U \cup {w}, U)
    BY ONLY <1>6, <1>7, UserAdded
  <2> QED
    BY ONLY <2>2, <2>3
<1> QED
  BY ONLY <1>1, <1>4, <1>8

\* bootstrapAdmin makes at most one user.
LEMMA BootstrappedUsers ==
  ASSUME Tables(db), UsersTyped(db.users), NEW id \in Ids
  PROVE  Grown(Bootstrapped(id).users, db.users)
<1> DEFINE made == Pg!BootstrapAdmin(db, id, Admin, Password).db
           given == Pg!UpsertLLMGatewaySettings(made, TRUE, GatewaySecret).db
           seeded == IF GatewaySecret = None THEN made ELSE given
<1>1. Tables(made)
  BY DEF Tables, Pg!BootstrapAdmin, Pg!OnConflict, Pg!UpdateWhere, Pg!InsertRow, Pg!Where, Pg!Fail, Pg!Ok
<1>2. Grown(made.users, db.users)
  <2>1. Admin \in UserNames
    BY DEF UserNames
  <2> QED
    BY <2>1, AdminMade
<1>3. Tables(given) /\ given.users = made.users
  <2>1. \/ given = made
        \/ \E t : given = [made EXCEPT !["gateway"] = t]
    BY DEF Tables, Pg!UpsertLLMGatewaySettings, Pg!OnConflict, Pg!UpdateWhere, Pg!InsertRow, Pg!Where,
       Pg!Fail, Pg!Ok
  <2> HIDE DEF made, given
  <2> QED
    BY <1>1, <2>1 DEF Tables
<1>4. Bootstrapped(id) = IF booted THEN db ELSE Pg!SetPasswordHash(seeded, Admin, Password).db
  BY DEF Bootstrapped
<1> HIDE DEF made, given
<1>5. Tables(seeded) /\ seeded.users = made.users
  BY <1>1, <1>3
<1> HIDE DEF seeded
<1>6. UsersTyped(seeded.users)
  BY ONLY <1>2, <1>5 DEF Grown
<1>7. Kept(Pg!SetPasswordHash(seeded, Admin, Password).db.users, seeded.users)
  BY ONLY <1>5, <1>6, HashSet
<1>8. Grown(Pg!SetPasswordHash(seeded, Admin, Password).db.users, db.users)
  <2>1. PICK A, B, C : /\ A = Pg!SetPasswordHash(seeded, Admin, Password).db.users
                       /\ B = seeded.users /\ C = db.users
    OBVIOUS
  <2>2. Kept(A, B) /\ Grown(B, C) /\ UsersTyped(C)
    BY <1>2, <1>5, <1>7, <2>1
  <2>3. Cardinality(A) \in Nat /\ Cardinality(B) \in Nat /\ Cardinality(C) \in Nat
    BY ONLY <2>2, FS_CardinalityType DEF Kept, Grown, UsersTyped
  <2> QED
    BY ONLY <2>1, <2>2, <2>3 DEF Kept, Grown
<1>9. Grown(db.users, db.users)
  BY NoChange, KeptIsGrown
<1> QED
  BY ONLY <1>4, <1>8, <1>9

\* CreateUserAndIdentity.
LEMMA CreatedIdentity ==
  ASSUME NEW d, Tables(d), UsersTyped(d.users), NEW id \in Ids, NEW name \in UserNames,
         NEW p, NEW s
  PROVE  LET made == Pg!CreateUserAndIdentity(d, id, name, "user", p, s)
         IN  /\ Grown(made.db.users, d.users)
             /\ made.err = "" => Row(made) \in Rows
<1> DEFINE made == Pg!CreateUserAndIdentity(d, id, name, "user", p, s)
           user == Pg!CreateUser(d, id, name, None, "user")
           link == Pg!InsertIdentity(user.db, p, s, id)
           w == Pg!UserRow(id, name, None, "user")
<1>0. /\ Grown(user.db.users, d.users)
      /\ user.err = "" => user.rows = {Pg!Public(w)}
      /\ user.err # "" => user.db = d
  <2>1. UserReply(user, d, w)
    <3>1. "user" \in {"admin", "user"}
      OBVIOUS
    <3> QED
      BY ONLY <3>1, Tables(d), UsersTyped(d.users), id \in Ids, name \in UserNames, CreatedUser
  <2> QED
    BY ONLY <2>1 DEF UserReply
<1>1. \/ made = user /\ user.err # ""
      \/ made.db = d /\ made.err # ""
      \/ made.db = link.db /\ made.err = "" /\ made.rows = user.rows /\ user.err = ""
  BY DEF Pg!CreateUserAndIdentity, Pg!Fail, Pg!Ok
<1>2. Grown(d.users, d.users)
  BY NoChange, KeptIsGrown
<1>3. user.err = "" => Tables(user.db)
  BY NewUser
<1>4. user.err = "" => link.db.users = user.db.users
  <2> HIDE DEF user
  <2> QED
    BY <1>3 DEF Tables, Pg!InsertIdentity, Pg!InsertRow, Pg!Fail, Pg!Ok
<1>5. IsUser(w)
  BY NewUserRow
<1>6. Pg!Public(w) \in Rows
  BY <1>5, PublicRow
<1>7. made.rows = {Pg!Public(w)} => Row(made) \in Rows
  BY <1>6 DEF Row
<1> HIDE DEF made, user, link, w
<1> QED
  BY ONLY <1>0, <1>1, <1>2, <1>4, <1>7 DEF made

\* The users that GetUser and GetUserByUsername find.
LEMMA FoundRow ==
  ASSUME UsersTyped(db.users)
  PROVE  /\ \A id : Pg!GetUser(db, id).err = "" => Row(Pg!GetUser(db, id)) \in Rows
         /\ \A n : Pg!GetUserByUsername(db, n).err = "" => Row(Pg!GetUserByUsername(db, n)) \in Rows
<1>1. ASSUME NEW id, Pg!GetUser(db, id).err = "" PROVE Row(Pg!GetUser(db, id)) \in Rows
  <2>1. PICK u \in db.users : Row(Pg!GetUser(db, id)) = Pg!Public(u)
    BY <1>1, FoundUser
  <2> QED
    BY <2>1, PublicRow DEF UsersTyped
<1>2. ASSUME NEW n, Pg!GetUserByUsername(db, n).err = ""
      PROVE  Row(Pg!GetUserByUsername(db, n)) \in Rows
  <2>1. /\ Pg!GetUserByUsername(db, n).rows # {}
        /\ \A v \in Pg!GetUserByUsername(db, n).rows : \E u \in db.users : v = Pg!Public(u)
    BY <1>2 DEF Pg!GetUserByUsername, Pg!PublicReply, Pg!SelectRow, Pg!Where, Pg!Fail, Pg!Ok
  <2>2. PICK u \in db.users : Row(Pg!GetUserByUsername(db, n)) = Pg!Public(u)
    BY <2>1 DEF Row
  <2> QED
    BY <2>2, PublicRow DEF UsersTyped
<1> QED
  BY <1>1, <1>2
-----------------------------------------------------------------------------
(* Steps of the process, of browsers and of providers *)

\* A fault has been counted.
LEMMA FaultTyped ==
  ASSUME ProcessTyped, NoteFault
  PROVE  faults' \in 0 .. MaxFaults
<1>1. faults \in 0 .. MaxFaults /\ faults < MaxFaults /\ faults' = faults + 1
  BY DEF ProcessTyped, NoteFault
<1>2. MaxFaults \in Nat
  BY AccountsAssumption
<1> QED
  BY ONLY <1>1, <1>2

\* The stored mode is one of Modes, or read as "local".
LEMMA ModeTyped == \A v : ModeOf(v) \in Modes
  BY DEF ModeOf, Modes

\* The overlay of any snapshot is typed.
LEMMA OverlayTyped ==
  ASSUME NEW fn \in [Providers -> [status : {"ready", "degraded"}, enabled : BOOLEAN]], NEW o
  PROVE  [p \in Providers |-> [fn[p] EXCEPT !.enabled = EnabledBy(o, p)]]
           \in [Providers -> [status : {"ready", "degraded"}, enabled : BOOLEAN]]
<1> SUFFICES ASSUME NEW p \in Providers
             PROVE  [fn[p] EXCEPT !.enabled = EnabledBy(o, p)]
                      \in [status : {"ready", "degraded"}, enabled : BOOLEAN]
  OBVIOUS
<1>1. PICK e : e = EnabledBy(o, p)
  OBVIOUS
<1>2. e \in BOOLEAN
  BY <1>1 DEF EnabledBy
<1>3. PICK y : y = fn[p]
  OBVIOUS
<1>4. y \in [status : {"ready", "degraded"}, enabled : BOOLEAN]
  BY <1>3
<1>5. [y EXCEPT !.enabled = e] \in [status : {"ready", "degraded"}, enabled : BOOLEAN]
  BY ONLY <1>2, <1>4
<1> QED
  BY ONLY <1>1, <1>3, <1>5

\* The registry is made: its mode and its snapshot are typed.
LEMMA BootTyped ==
  ASSUME Inv, TypeInv, Boot
  PROVE  TypeInv'
<1>1. PICK found : found = [p \in Providers |-> [status |-> IF issuerUp[p] THEN "ready" ELSE "degraded",
                                                enabled |-> FALSE]]
  OBVIOUS
<1>2. found \in [Providers -> [status : {"ready", "degraded"}, enabled : BOOLEAN]]
  BY <1>1
<1>3. /\ up' = TRUE /\ UNCHANGED <<db, booted, sessions, issued, retry, flow, req, begun>>
      /\ \/ /\ mode' = ModeOf(StoredMode) /\ UNCHANGED faults
            /\ snapshot' = [p \in Providers |->
                              [found[p] EXCEPT !.enabled = EnabledBy(StoredOverlay, p)]]
         \/ /\ NoteFault /\ mode' \in {"", ModeOf(StoredMode)} /\ snapshot' = found
  BY <1>1 DEF Boot, service
<1>4. ProcessTyped
  BY DEF TypeInv
<1>5. ProcessTyped'
  <2>1. snapshot' \in [Providers -> [status : {"ready", "degraded"}, enabled : BOOLEAN]]
    <3>1. PICK o : o = StoredOverlay
      OBVIOUS
    <3>2. [p \in Providers |-> [found[p] EXCEPT !.enabled = EnabledBy(o, p)]]
            \in [Providers -> [status : {"ready", "degraded"}, enabled : BOOLEAN]]
      BY ONLY <1>2, OverlayTyped
    <3> QED
      BY ONLY <1>2, <1>3, <3>1, <3>2
  <2>2. mode' \in Modes \cup {""}
    BY <1>3, ModeTyped
  <2>3. faults' \in 0 .. MaxFaults
    BY <1>3, <1>4, FaultTyped DEF ProcessTyped
  <2> QED
    BY ONLY <1>3, <1>4, <2>1, <2>2, <2>3 DEF ProcessTyped
<1>6. /\ sessions' \in [Tokens -> Sessions] /\ FlowsTyped'
      /\ \A f \in Flows : flow[f].stage = "spent" => flow'[f] = flow[f]
  BY <1>3 DEF TypeInv, FlowsTyped
<1> QED
  BY ONLY Inv, TypeInv, <1>3, <1>5, <1>6, TypedWorld

\* No request survives a crash, so no count is left to them.
LEMMA CrashTyped ==
  ASSUME Inv, TypeInv, Crash
  PROVE  TypeInv'
<1>1. /\ NoteFault /\ up' = FALSE /\ booted' = FALSE
      /\ sessions' = [t \in Tokens |-> None] /\ req' = [r \in Reqs |-> Idle] /\ retry' = {}
      /\ \A f \in Flows : \/ flow'[f] = flow[f]
                           \/ flow'[f] = [flow[f] EXCEPT !.stage = "spent"]
      /\ UNCHANGED <<db, issued, mode, snapshot, begun>>
  BY DEF Crash
<1>2. ProcessTyped /\ Counted /\ FlowsTyped /\ UsersTyped(db.users) /\ IsFlows(flow)
  BY DEF TypeInv, Inv, Shape
<1>3. ProcessTyped'
  <2>1. faults' \in 0 .. MaxFaults
    BY <1>1, <1>2, FaultTyped
  <2> QED
    BY ONLY <1>1, <1>2, <2>1 DEF ProcessTyped
<1>4. sessions' \in [Tokens -> Sessions]
  BY <1>1 DEF Sessions
<1>5. FlowsTyped'
  <2> SUFFICES ASSUME NEW f \in Flows PROVE FlowTyped(flow'[f])
    BY DEF FlowsTyped
  <2>1. FlowTyped(flow[f])
    BY <1>2 DEF FlowsTyped
  <2>2. CASE flow'[f] = flow[f]
    BY ONLY <2>1, <2>2
  <2>3. CASE flow'[f] = [flow[f] EXCEPT !.stage = "spent"]
    <3>1. PICK a, b, c : flow[f] = [stage |-> a, provider |-> b, subject |-> c]
      BY <1>2 DEF IsFlows
    <3>2. flow'[f] = [flow[f] EXCEPT !.stage = "spent"]
      BY ONLY <2>3
    <3>3. flow'[f] = [stage |-> "spent", provider |-> b, subject |-> c]
      BY ONLY <3>1, <3>2
    <3> QED
      BY ONLY <2>1, <3>1, <3>3 DEF FlowTyped
  <2> QED
    BY <1>1, <2>2, <2>3
<1>6. UsersTyped(db'.users)
  BY <1>1, <1>2
<1>7. Idle.pc = "idle"
  BY Records
<1>8. ASSUME NEW r \in Reqs PROVE RequestTyped(req'[r], flow')
  <2>1. req'[r].pc = "idle"
    BY <1>1, <1>7
  <2> QED
    BY ONLY <2>1 DEF RequestTyped, PCs, Served, SignIn
<1>9. Counted'
  <2>1. Among(req', Begun) = {} /\ Among(req', MayCreate) = {}
    BY <1>1, <1>7 DEF Among, Begun, MayCreate
  <2>2. PICK m, a, c : /\ m = Cardinality(db.users) /\ a = Cardinality(Among(req, Begun))
                       /\ c = Cardinality(Among(req, MayCreate))
    OBVIOUS
  <2>3. /\ m \in Nat /\ a \in Nat /\ c \in Nat /\ begun \in Nat /\ issued \in Nat
        /\ begun \in 0 .. MaxRequests /\ issued + a <= begun /\ m + c <= begun
    BY <1>2, <2>2, FS_CardinalityType DEF Counted, UsersTyped
  <2>4. issued + 0 <= begun /\ m + 0 <= begun
    BY ONLY <2>3
  <2> QED
    BY ONLY <1>1, <2>1, <2>2, <2>3, <2>4, FS_EmptySet DEF Counted
<1> QED
  BY <1>3, <1>4, <1>5, <1>6, <1>8, <1>9 DEF TypeInv

\* A provider that is tried again keeps its switch.
LEMMA RetryTyped ==
  ASSUME Inv, TypeInv, Retry
  PROVE  TypeInv'
<1>1. /\ UNCHANGED <<db, up, booted, sessions, issued, flow, req, begun, faults, mode>>
      /\ \/ snapshot' = snapshot
         \/ \E p \in Providers : snapshot' = [snapshot EXCEPT ![p].status = "ready"]
      /\ \/ retry' = {p \in Providers : snapshot[p].status = "degraded"}
         \/ \E p \in Providers : retry' = retry \ {p}
  BY DEF Retry, RetryDegraded, RetryProvider, service, bounds
<1>2. ProcessTyped
  BY DEF TypeInv
<1>3. snapshot' \in [Providers -> [status : {"ready", "degraded"}, enabled : BOOLEAN]]
  <2>1. snapshot \in [Providers -> [status : {"ready", "degraded"}, enabled : BOOLEAN]]
    BY <1>2 DEF ProcessTyped
  <2> QED
    BY ONLY <1>1, <2>1
<1>4. retry' \subseteq Providers
  BY <1>1, <1>2 DEF ProcessTyped
<1>5. ProcessTyped'
  BY ONLY <1>1, <1>2, <1>3, <1>4 DEF ProcessTyped
<1>6. /\ sessions' \in [Tokens -> Sessions] /\ FlowsTyped'
      /\ \A f \in Flows : flow[f].stage = "spent" => flow'[f] = flow[f]
  BY <1>1 DEF TypeInv, FlowsTyped
<1> QED
  BY ONLY Inv, TypeInv, <1>1, <1>5, <1>6, TypedWorld

\* An issuer goes or comes back.
LEMMA IssuerTyped ==
  ASSUME Inv, TypeInv, NEW p \in Providers, IssuerChanges(p)
  PROVE  TypeInv'
<1>1. /\ (NoteFault \/ UNCHANGED faults)
      /\ UNCHANGED <<db, up, booted, sessions, issued, mode, snapshot, retry, flow, req, begun>>
  BY DEF IssuerChanges, service, registry
<1>2. ProcessTyped
  BY DEF TypeInv
<1>3. faults' \in 0 .. MaxFaults
  BY <1>1, <1>2, FaultTyped DEF ProcessTyped
<1>4. ProcessTyped'
  BY ONLY <1>1, <1>2, <1>3 DEF ProcessTyped
<1>5. /\ sessions' \in [Tokens -> Sessions] /\ FlowsTyped'
      /\ \A f \in Flows : flow[f].stage = "spent" => flow'[f] = flow[f]
  BY <1>1 DEF TypeInv, FlowsTyped
<1> QED
  BY ONLY Inv, TypeInv, <1>1, <1>4, <1>5, TypedWorld

\* A token is given back.
LEMMA LogoutTyped ==
  ASSUME Inv, TypeInv, NEW t \in Tokens, HandleLogout(t)
  PROVE  TypeInv'
<1>1. /\ sessions' = [sessions EXCEPT ![t] = None]
      /\ UNCHANGED <<db, up, booted, issued, mode, snapshot, retry, flow, req, begun, faults>>
  BY DEF HandleLogout, registry, bounds
<1>2. ProcessTyped' /\ FlowsTyped'
  BY <1>1 DEF TypeInv, ProcessTyped, FlowsTyped
<1>3. sessions' \in [Tokens -> Sessions]
  BY <1>1 DEF TypeInv, Sessions
<1>4. \A f \in Flows : flow[f].stage = "spent" => flow'[f] = flow[f]
  BY <1>1
<1> QED
  BY ONLY Inv, TypeInv, <1>1, <1>2, <1>3, <1>4, TypedWorld

\* An attempt is sent to a provider, or comes back from it.
LEMMA AttemptTyped ==
  ASSUME Inv, TypeInv, NEW f \in Flows,
         \/ \E p \in Providers : HandleOIDCLogin(f, p)
         \/ \E s \in Subjects : ProviderGrants(f, s)
  PROVE  TypeInv'
<1>1. PICK p, s, v :
        /\ UNCHANGED <<db, up, booted, sessions, issued, mode, snapshot, retry, req, begun, faults>>
        /\ \/ /\ p \in Providers /\ flow[f].stage = "new" /\ v = "sent"
              /\ flow' = [flow EXCEPT ![f].stage = v, ![f].provider = p]
           \/ /\ s \in Subjects /\ flow[f].stage = "sent" /\ v = "granted"
              /\ flow' = [flow EXCEPT ![f].stage = v, ![f].subject = s]
  BY DEF HandleOIDCLogin, ProviderGrants, service, registry, bounds
<1>2. IsFlows(flow) /\ FlowsTyped /\ ProcessTyped
  BY DEF Inv, Shape, TypeInv
<1>3. PICK a, b, c : flow[f] = [stage |-> a, provider |-> b, subject |-> c]
  BY <1>2 DEF IsFlows
<1>4. \A g \in Flows : flow[g].stage = "spent" => flow'[g] = flow[g]
  BY ONLY <1>1, <1>2, f \in Flows, FlowChange
<1>5. \A g \in Flows \ {f} : flow'[g] = flow[g]
  BY <1>1, <1>2 DEF IsFlows
<1>6. FlowTyped(flow'[f])
  <2>1. FlowTyped(flow[f])
    BY <1>2 DEF FlowsTyped
  <2>2. PICK y : y = [flow[f] EXCEPT !.stage = v]
    OBVIOUS
  <2>3. y = [stage |-> v, provider |-> b, subject |-> c]
    BY ONLY <1>3, <2>2
  <2>4. CASE /\ p \in Providers /\ v = "sent"
             /\ flow' = [flow EXCEPT ![f].stage = v, ![f].provider = p]
    <3>1. flow'[f] = [y EXCEPT !.provider = p]
      BY <1>2, <2>2, <2>4 DEF IsFlows
    <3>2. flow'[f] = [stage |-> v, provider |-> p, subject |-> c]
      BY ONLY <2>3, <3>1
    <3> QED
      BY ONLY <1>3, <2>1, <2>4, <3>2 DEF FlowTyped
  <2>5. CASE /\ s \in Subjects /\ flow[f].stage = "sent" /\ v = "granted"
             /\ flow' = [flow EXCEPT ![f].stage = v, ![f].subject = s]
    <3>1. flow'[f] = [y EXCEPT !.subject = s]
      BY <1>2, <2>2, <2>5 DEF IsFlows
    <3>2. flow'[f] = [stage |-> v, provider |-> b, subject |-> s]
      BY ONLY <2>3, <3>1
    <3> QED
      BY ONLY <1>3, <2>1, <2>5, <3>2 DEF FlowTyped
  <2> QED
    BY ONLY <1>1, <2>4, <2>5
<1>7. FlowsTyped'
  <2> SUFFICES ASSUME NEW g \in Flows PROVE FlowTyped(flow'[g])
    BY DEF FlowsTyped
  <2>1. CASE g = f
    BY ONLY <2>1, <1>6
  <2>2. CASE g # f
    <3>1. flow'[g] = flow[g] /\ FlowTyped(flow[g])
      BY <1>2, <1>5, <2>2 DEF FlowsTyped
    <3> QED
      BY ONLY <3>1
  <2> QED
    BY ONLY <2>1, <2>2
<1>8. ProcessTyped'
  BY ONLY <1>1, <1>2 DEF ProcessTyped
<1>9. sessions' \in [Tokens -> Sessions]
  BY <1>1 DEF TypeInv
<1> QED
  BY ONLY Inv, TypeInv, <1>1, <1>4, <1>7, <1>8, <1>9, TypedWorld
-----------------------------------------------------------------------------
(* Steps of requests: what they have in common *)

\* A request that ends is idle.
LEMMA EndMoved ==
  ASSUME Shape, NEW r \in Reqs, End(r)
  PROVE  Moved(r, Idle)
<1>1. IsRequest(Idle) /\ req' = [req EXCEPT ![r] = Idle]
  BY Records DEF End
<1> QED
  BY ONLY Shape, r \in Reqs, <1>1, OneMoved

\* Watched changes out and low only.
LEMMA WatchedMoved ==
  ASSUME Shape, NEW r \in Reqs, NEW x, IsRequest(x), NEW U,
         req' = Watched([req EXCEPT ![r] = x], U)
  PROVE  Moved(r, x)
<1> SUFFICES ASSUME NEW q \in Reqs
             PROVE  LET y == IF q = r THEN x ELSE req[q]
                    IN  req'[q].pc = y.pc /\ req'[q].caller = y.caller /\ req'[q].flow = y.flow
  BY DEF Moved
<1>1. PICK D, P : D = Disabled(U) /\ P = Plain(U)
  OBVIOUS
<1>2. PICK z : z = [req EXCEPT ![r] = x][q]
  OBVIOUS
<1>3. z = (IF q = r THEN x ELSE req[q]) /\ IsRequest(z)
  BY <1>2 DEF Shape
<1>4. req'[q] = [z EXCEPT !.out = @ \cap D, !.low = @ \cap P]
  BY <1>1, <1>2 DEF Watched
<1>5. req'[q] = [pc |-> z.pc, caller |-> z.caller, flow |-> z.flow, set |-> z.set,
                 out |-> z.out \cap D, low |-> z.low \cap P]
  <2>1. IsRequest(z)
    BY ONLY <1>3
  <2>2. [z EXCEPT !.out = @ \cap D, !.low = @ \cap P] =
          [pc |-> z.pc, caller |-> z.caller, flow |-> z.flow, set |-> z.set,
           out |-> z.out \cap D, low |-> z.low \cap P]
    BY ONLY <2>1, Forgets
  <2> QED
    BY ONLY <1>4, <2>2
<1>6. req'[q].pc = z.pc /\ req'[q].caller = z.caller /\ req'[q].flow = z.flow
  BY ONLY <1>5
<1> QED
  BY ONLY <1>3, <1>6

\* A request that is somewhere has begun.
LEMMA HasBegun ==
  ASSUME TypeInv, NEW r \in Reqs, req[r].pc # "idle"
  PROVE  req[r].pc \in Begun
  BY DEF TypeInv, RequestTyped, Begun

\* A request ends and changes nothing.
LEMMA EndTyped ==
  ASSUME Inv, TypeInv, NEW r \in Reqs, End(r), req[r].pc # "idle", ProcessTyped',
         UNCHANGED <<sessions, issued, begun, flow>>, db'.users = db.users
  PROVE  TypeInv'
<1>1. Shape /\ UsersTyped(db.users) /\ sessions \in [Tokens -> Sessions]
  BY DEF Inv, TypeInv
<1>2. Moved(r, Idle)
  BY ONLY <1>1, r \in Reqs, End(r), EndMoved
<1>3. Kept(db'.users, db.users)
  BY <1>1, NoChange
<1>4. PICK x : x = Idle
  OBVIOUS
<1>5. Moved(r, x) /\ x.pc = "idle"
  BY <1>2, <1>4, Records
<1>6. req[r].pc \in Begun
  BY HasBegun
<1>7. sessions' \in [Tokens -> Sessions] /\ issued' \in {issued, issued + 1}
  BY <1>1
<1> QED
  BY ONLY Inv, TypeInv, r \in Reqs, <1>3, <1>5, <1>6, <1>7, ProcessTyped',
     UNCHANGED <<sessions, issued, begun, flow>>, TypedEnd DEF Kept

\* A request goes on and changes no user.
LEMMA GoTyped ==
  ASSUME Inv, TypeInv, NEW r \in Reqs, NEW x, IsRequest(x), req' = [req EXCEPT ![r] = x],
         RequestTyped(x, flow), ProcessTyped', UNCHANGED <<sessions, issued, begun, flow>>,
         db'.users = db.users, req[r].pc # "idle",
         x.pc \in MayCreate => req[r].pc \in MayCreate
  PROVE  TypeInv'
<1>1. Moved(r, x)
  BY OneMoved DEF Inv
<1>2. req[r].pc \in Begun
  BY HasBegun
<1> QED
  BY ONLY Inv, TypeInv, r \in Reqs, <1>1, <1>2, RequestTyped(x, flow), ProcessTyped',
     UNCHANGED <<sessions, issued, begun, flow>>, db'.users = db.users,
     x.pc \in MayCreate => req[r].pc \in MayCreate, TypedOn
-----------------------------------------------------------------------------
(* Logging in *)

\* The first login creates the administrator; the request it belongs to pays for it.
LEMMA HandleLoginTyped ==
  ASSUME Inv, TypeInv, NEW r \in Reqs, HandleLogin(r)
  PROVE  TypeInv'
<1>1. /\ CanBegin(r) /\ (db' = Bootstrapped(NewID) \/ db' = db)
      /\ booted' = TRUE /\ begun' = begun + 1
      /\ (UNCHANGED faults \/ NoteFault)
      /\ UNCHANGED <<up, sessions, issued, mode, snapshot, retry, flow>>
  BY DEF HandleLogin, registry
<1>2. PICK x : /\ IsRequest(x) /\ x.pc \in {"idle", "password"}
               /\ req' = Watched([req EXCEPT ![r] = x], db'.users)
  BY Records DEF HandleLogin
<1>3. Moved(r, x)
  BY ONLY Inv, r \in Reqs, <1>2, WatchedMoved DEF Inv
<1>4. ProcessTyped' /\ FlowsTyped'
  <2>1. ProcessTyped /\ FlowsTyped
    BY DEF TypeInv
  <2>2. faults' \in 0 .. MaxFaults
    <3>1. CASE UNCHANGED faults
      BY ONLY <2>1, <3>1 DEF ProcessTyped
    <3>2. CASE NoteFault
      BY ONLY <2>1, <3>2, FaultTyped
    <3> QED
      BY ONLY <1>1, <3>1, <3>2
  <2> QED
    BY ONLY <1>1, <2>1, <2>2 DEF ProcessTyped, FlowsTyped
<1>5. RequestTyped(x, flow')
  BY ONLY <1>2 DEF RequestTyped, PCs, Served, SignIn
<1>6. NewID \in Ids
  <2>1. PICK m, a, c : /\ m = Cardinality(db.users) /\ a = Cardinality(Among(req, Begun))
                       /\ c = Cardinality(Among(req, MayCreate))
    OBVIOUS
  <2>2. /\ m \in Nat /\ c \in Nat /\ m + c <= begun /\ begun \in 0 .. MaxRequests
        /\ begun < MaxRequests
    BY <1>1, <2>1, FS_CardinalityType DEF TypeInv, Counted, UsersTyped, CanBegin
  <2>3. MaxRequests \in Nat
    BY AccountsAssumption
  <2>4. m + 1 \in 1 .. MaxRequests
    BY ONLY <2>2, <2>3
  <2> QED
    BY ONLY <2>1, <2>4 DEF NewID, Ids
<1>7. Grown(db'.users, db.users)
  <2>1. Tables(db) /\ UsersTyped(db.users)
    BY DEF Inv, Shape, TypeInv
  <2>2. PICK id : id = NewID
    OBVIOUS
  <2>3. Grown(Bootstrapped(id).users, db.users)
    BY ONLY <1>6, <2>1, <2>2, BootstrappedUsers
  <2>4. Grown(db.users, db.users)
    BY ONLY <2>1, FS_CardinalityType DEF Grown, UsersTyped
  <2> QED
    BY ONLY <1>1, <2>2, <2>3, <2>4
<1>8. /\ x.pc \notin MayCreate
      /\ \A f \in Flows : flow[f].stage = "spent" => flow'[f] = flow[f]
  BY <1>1, <1>2 DEF MayCreate
<1> QED
  BY ONLY Inv, TypeInv, r \in Reqs, <1>1, <1>3, <1>4, <1>5, <1>7, <1>8, TypedBegin DEF Grown

\* The row that is found is a row.
LEMMA LoginUserTyped ==
  ASSUME Inv, TypeInv, NEW r \in Reqs, NEW n, LoginUser(r, n)
  PROVE  TypeInv'
<1> DEFINE found == Pg!GetUserByUsername(db, n)
<1>1. /\ UNCHANGED <<db, up, booted, sessions, issued, mode, snapshot, retry, flow, begun, faults>>
      /\ req[r].pc = "password"
      /\ End(r) \/ (found.err = "" /\ GotoAs(r, "hash", Row(found)))
  BY DEF LoginUser, At, service, registry, bounds
<1>2. ProcessTyped' /\ db'.users = db.users /\ Shape
  BY <1>1 DEF TypeInv, ProcessTyped, Inv
<1>3. CASE End(r)
  BY ONLY Inv, TypeInv, r \in Reqs, <1>1, <1>2, <1>3, EndTyped
<1>4. CASE found.err = "" /\ GotoAs(r, "hash", Row(found))
  <2>1. PICK u : u \in Rows /\ GotoAs(r, "hash", u)
    BY <1>4, FoundRow DEF TypeInv
  <2>2. PICK x : IsRequest(x) /\ req' = [req EXCEPT ![r] = x] /\ x.pc = "hash" /\ x.caller = u
    BY ONLY <1>2, <2>1, r \in Reqs, GoesAs
  <2>3. RequestTyped(x, flow) /\ x.pc \notin MayCreate
    BY ONLY <2>1, <2>2 DEF RequestTyped, PCs, Served, SignIn, MayCreate
  <2> QED
    BY ONLY Inv, TypeInv, r \in Reqs, <1>1, <1>2, <2>2, <2>3, GoTyped
<1> QED
  BY ONLY <1>1, <1>3, <1>4

\* A request ends, and may leave a session for a row.
LEMMA SessionTyped ==
  ASSUME Inv, TypeInv, NEW r \in Reqs, End(r), req[r].pc # "idle", ProcessTyped',
         UNCHANGED <<db, begun, flow>>,
         \/ UNCHANGED <<sessions, issued>>
         \/ \E u \in Rows, i \in Identities \cup {None} : StoreToken(u, i)
  PROVE  TypeInv'
<1>1. Shape /\ UsersTyped(db.users) /\ sessions \in [Tokens -> Sessions]
  BY DEF Inv, TypeInv
<1>2. PICK x : x = Idle
  OBVIOUS
<1>3. Moved(r, x) /\ x.pc = "idle"
  <2>1. Moved(r, Idle)
    BY ONLY <1>1, r \in Reqs, End(r), EndMoved
  <2> QED
    BY <1>2, <2>1, Records
<1>4. Kept(db'.users, db.users)
  BY <1>1, NoChange
<1>5. req[r].pc \in Begun
  BY HasBegun
<1>6. sessions' \in [Tokens -> Sessions] /\ issued' \in {issued, issued + 1}
  <2>1. ASSUME NEW u \in Rows, NEW i \in Identities \cup {None}, StoreToken(u, i)
        PROVE  <1>6
    <3>1. PICK s : s = [user |-> u, identity |-> i]
      OBVIOUS
    <3>2. s \in Sessions
      BY <3>1 DEF Sessions
    <3>3. sessions' = [sessions EXCEPT ![issued + 1] = s] /\ issued' = issued + 1
      BY <2>1, <3>1 DEF StoreToken
    <3> QED
      BY ONLY <1>1, <3>2, <3>3
  <2> QED
    BY <1>1, <2>1
<1> QED
  BY ONLY Inv, TypeInv, r \in Reqs, <1>3, <1>4, <1>5, <1>6, ProcessTyped',
     UNCHANGED <<db, begun, flow>>, TypedEnd DEF Kept

\* A local session has a row and no identity.
LEMMA LoginPasswordTyped ==
  ASSUME Inv, TypeInv, NEW r \in Reqs, LoginPassword(r)
  PROVE  TypeInv'
<1>1. /\ UNCHANGED <<db, up, booted, mode, snapshot, retry, flow, begun, faults>>
      /\ req[r].pc = "hash" /\ End(r)
      /\ UNCHANGED <<sessions, issued>> \/ StoreToken(req[r].caller, None)
  BY DEF LoginPassword, At, registry, bounds
<1>2. req[r].caller \in Rows
  BY <1>1 DEF TypeInv, RequestTyped
<1>3. ProcessTyped'
  BY <1>1 DEF TypeInv, ProcessTyped
<1> QED
  BY ONLY Inv, TypeInv, r \in Reqs, <1>1, <1>2, <1>3, SessionTyped
-----------------------------------------------------------------------------
(* Single sign-on *)

\* The request of a callback has a provider and a subject.
LEMMA CallbackTyped ==
  ASSUME Inv, TypeInv, NEW r \in Reqs, NEW f \in Flows, HandleOIDCCallback(r, f)
  PROVE  TypeInv'
<1>1. /\ flow[f].stage = "granted" /\ flow' = [flow EXCEPT ![f].stage = "spent"]
      /\ UNCHANGED <<db, up, booted, sessions, issued, mode, snapshot, retry, faults>>
      /\ \/ Begin(r, [Fresh("find") EXCEPT !.flow = f])
         \/ UNCHANGED <<req, begun>>
  BY DEF HandleOIDCCallback, service, registry
<1>2. IsFlows(flow) /\ FlowsTyped /\ ProcessTyped /\ Shape
  BY DEF Inv, Shape, TypeInv
<1>3. PICK v : v = "spent"
  OBVIOUS
<1>4. \A g \in Flows : flow[g].stage = "spent" => flow'[g] = flow[g]
  <2>1. flow[f].stage # "spent" /\ flow' = [flow EXCEPT ![f].stage = v]
    BY <1>1, <1>3
  <2> QED
    BY ONLY <1>2, <2>1, f \in Flows, FlowChange
<1>5. \A g \in Flows \ {f} : flow'[g] = flow[g]
  BY <1>1, <1>2 DEF IsFlows
<1>6. /\ FlowTyped(flow'[f])
      /\ flow'[f].provider \in Providers /\ flow'[f].subject \in Subjects
  <2>1. FlowTyped(flow[f])
    BY <1>2 DEF FlowsTyped
  <2>2. PICK a, b, c : flow[f] = [stage |-> a, provider |-> b, subject |-> c]
    BY <1>2 DEF IsFlows
  <2>3. flow'[f] = [flow[f] EXCEPT !.stage = "spent"]
    BY <1>1, <1>2 DEF IsFlows
  <2>4. flow'[f] = [stage |-> "spent", provider |-> b, subject |-> c]
    BY ONLY <2>2, <2>3
  <2> QED
    BY ONLY <1>1, <2>1, <2>2, <2>4 DEF FlowTyped
<1>7. FlowsTyped'
  <2> SUFFICES ASSUME NEW g \in Flows PROVE FlowTyped(flow'[g])
    BY DEF FlowsTyped
  <2>1. CASE g = f
    BY ONLY <2>1, <1>6
  <2>2. CASE g # f
    <3>1. flow'[g] = flow[g] /\ FlowTyped(flow[g])
      BY <1>2, <1>5, <2>2 DEF FlowsTyped
    <3> QED
      BY ONLY <3>1
  <2> QED
    BY ONLY <2>1, <2>2
<1>8. ProcessTyped'
  BY ONLY <1>1, <1>2 DEF ProcessTyped
<1>9. CASE UNCHANGED <<req, begun>>
  <2>1. sessions' \in [Tokens -> Sessions]
    BY <1>1 DEF TypeInv
  <2> QED
    BY ONLY Inv, TypeInv, <1>1, <1>4, <1>7, <1>8, <1>9, <2>1, TypedWorld
<1>10. CASE Begin(r, [Fresh("find") EXCEPT !.flow = f])
  <2>1. PICK x : IsRequest(x) /\ x.pc = "find" /\ x.flow = f /\ Begin(r, x)
    BY <1>10, Records
  <2>2. CanBegin(r) /\ begun' = begun + 1 /\ req' = [req EXCEPT ![r] = x]
    BY ONLY <2>1 DEF Begin
  <2>3. Moved(r, x)
    BY ONLY <1>2, r \in Reqs, <2>1, <2>2, OneMoved
  <2>4. RequestTyped(x, flow')
    BY ONLY <1>6, <2>1 DEF RequestTyped, PCs, Served, SignIn
  <2>5. Kept(db'.users, db.users)
    BY <1>1, NoChange DEF TypeInv
  <2> QED
    BY ONLY Inv, TypeInv, r \in Reqs, <1>1, <1>4, <1>7, <1>8, <2>2, <2>3, <2>4, <2>5, TypedBegin
       DEF Kept
<1> QED
  BY ONLY <1>1, <1>9, <1>10

\* What is known of a request that signs in.
LEMMA SignsIn ==
  ASSUME TypeInv, NEW r \in Reqs, req[r].pc \in SignIn
  PROVE  /\ flow[req[r].flow].provider \in Providers /\ flow[req[r].flow].subject \in Subjects
         /\ req[r].pc # "idle"
  BY DEF TypeInv, RequestTyped, SignIn

\* It goes on, or issues a token for a row.
LEMMA SignInTyped ==
  ASSUME Inv, TypeInv, NEW r \in Reqs, req[r].pc \in SignIn \ {"issue"},
         NEW x, IsRequest(x), req' = [req EXCEPT ![r] = x], x.flow = req[r].flow,
         x.pc \in SignIn, x.pc = "issue" => x.caller \in Rows,
         ProcessTyped', UNCHANGED <<sessions, issued, begun, flow>>, db'.users = db.users
  PROVE  TypeInv'
<1>1. /\ flow[req[r].flow].provider \in Providers /\ flow[req[r].flow].subject \in Subjects
      /\ req[r].pc # "idle"
  BY SignsIn
<1>2. RequestTyped(x, flow)
  BY ONLY <1>1, x.flow = req[r].flow, x.pc \in SignIn, x.pc = "issue" => x.caller \in Rows
     DEF RequestTyped, PCs, Served, SignIn
<1>3. req[r].pc \in MayCreate
  BY DEF SignIn, MayCreate
<1> QED
  BY ONLY Inv, TypeInv, r \in Reqs, IsRequest(x), req' = [req EXCEPT ![r] = x], <1>1, <1>2, <1>3,
     ProcessTyped', UNCHANGED <<sessions, issued, begun, flow>>, db'.users = db.users, GoTyped

\* The identity is looked for.
LEMMA FindTyped ==
  ASSUME Inv, TypeInv, ProcessTyped', UNCHANGED <<sessions, issued, begun, flow>>,
         NEW r \in Reqs, FindIdentity(r)
  PROVE  TypeInv'
<1>1. /\ req[r].pc = "find" /\ db' = db
      /\ Goto(r, "lookup") \/ \E v : GotoWith(r, "touch", v)
  BY DEF FindIdentity, At, GotoWith
<1>2. PICK x : /\ IsRequest(x) /\ req' = [req EXCEPT ![r] = x] /\ x.flow = req[r].flow
               /\ x.pc \in {"lookup", "touch"}
  <2>1. Shape
    BY DEF Inv
  <2>2. CASE Goto(r, "lookup")
    BY ONLY <2>1, <2>2, r \in Reqs, GoesTo
  <2>3. CASE \E v : GotoWith(r, "touch", v)
    <3>1. PICK v : GotoWith(r, "touch", v)
      BY ONLY <2>3
    <3> QED
      BY ONLY <2>1, <3>1, r \in Reqs, GoesWith
  <2> QED
    BY ONLY <1>1, <2>2, <2>3
<1>3. req[r].pc \in SignIn \ {"issue"} /\ x.pc \in SignIn /\ x.pc # "issue" /\ db'.users = db.users
  BY <1>1, <1>2 DEF SignIn
<1> QED
  BY ONLY Inv, TypeInv, r \in Reqs, <1>2, <1>3, ProcessTyped',
     UNCHANGED <<sessions, issued, begun, flow>>, SignInTyped

\* The last login is noted.
LEMMA TouchTyped ==
  ASSUME Inv, TypeInv, ProcessTyped', UNCHANGED <<sessions, issued, begun, flow>>,
         NEW r \in Reqs, TouchIdentity(r)
  PROVE  TypeInv'
<1>1. req[r].pc = "touch" /\ Goto(r, "user")
  BY DEF TouchIdentity, At
<1>2. db'.users = db.users
  <2>1. PICK p, s : db' = Pg!TouchIdentityLogin(db, p, s).db
    BY DEF TouchIdentity
  <2>2. Tables(db)
    BY DEF Inv, Shape
  <2> QED
    BY ONLY <2>1, <2>2, Touched
<1>3. PICK x : /\ IsRequest(x) /\ req' = [req EXCEPT ![r] = x] /\ x.flow = req[r].flow
               /\ x.pc = "user"
  <2>1. Shape
    BY DEF Inv
  <2> QED
    BY ONLY <1>1, <2>1, r \in Reqs, GoesTo
<1>4. req[r].pc \in SignIn \ {"issue"} /\ x.pc \in SignIn /\ x.pc # "issue"
  BY <1>1, <1>3 DEF SignIn
<1> QED
  BY ONLY Inv, TypeInv, r \in Reqs, <1>2, <1>3, <1>4, ProcessTyped',
     UNCHANGED <<sessions, issued, begun, flow>>, SignInTyped

\* The user of the identity is read.
LEMMA IdentityUserTyped ==
  ASSUME Inv, TypeInv, ProcessTyped', UNCHANGED <<sessions, issued, begun, flow>>,
         NEW r \in Reqs, IdentityUser(r)
  PROVE  TypeInv'
<1> DEFINE found == Pg!GetUser(db, req[r].set)
<1>1. /\ req[r].pc = "user" /\ db' = db
      /\ End(r) \/ (found.err = "" /\ GotoAs(r, "issue", Row(found)))
  BY DEF IdentityUser, At
<1>2. Shape /\ UsersTyped(db.users) /\ db'.users = db.users
  BY <1>1 DEF Inv, TypeInv
<1>3. CASE End(r)
  <2>1. req[r].pc # "idle"
    BY <1>1
  <2> QED
    BY ONLY Inv, TypeInv, r \in Reqs, ProcessTyped', UNCHANGED <<sessions, issued, begun, flow>>,
       <1>2, <1>3, <2>1, EndTyped
<1>4. CASE found.err = "" /\ GotoAs(r, "issue", Row(found))
  <2>1. PICK u : u \in Rows /\ GotoAs(r, "issue", u)
    BY <1>2, <1>4, FoundRow
  <2>2. PICK x : IsRequest(x) /\ req' = [req EXCEPT ![r] = x] /\ x.pc = "issue" /\ x.caller = u
                 /\ x.flow = req[r].flow
    BY ONLY <1>2, <2>1, r \in Reqs, GoesAs
  <2>3. req[r].pc \in SignIn \ {"issue"} /\ x.pc \in SignIn /\ x.caller \in Rows
    BY <1>1, <2>1, <2>2 DEF SignIn
  <2> QED
    BY ONLY Inv, TypeInv, r \in Reqs, <1>2, <2>2, <2>3, ProcessTyped',
       UNCHANGED <<sessions, issued, begun, flow>>, SignInTyped
<1> QED
  BY ONLY <1>1, <1>3, <1>4

\* A user of that name is looked for.
LEMMA LookupTyped ==
  ASSUME Inv, TypeInv, ProcessTyped', UNCHANGED <<db, sessions, issued, begun, flow>>,
         NEW r \in Reqs, At(r, "lookup"), LookupEmail(r) \/ Goto(r, "create")
  PROVE  TypeInv'
<1>1. req[r].pc = "lookup" /\ (End(r) \/ Goto(r, "create")) /\ db'.users = db.users
  BY DEF LookupEmail, At
<1>2. CASE End(r)
  <2>1. req[r].pc # "idle"
    BY <1>1
  <2> QED
    BY ONLY Inv, TypeInv, r \in Reqs, ProcessTyped', UNCHANGED <<db, sessions, issued, begun, flow>>,
       <1>1, <1>2, <2>1, EndTyped
<1>3. CASE Goto(r, "create")
  <2>1. Shape
    BY DEF Inv
  <2>2. PICK x : /\ IsRequest(x) /\ req' = [req EXCEPT ![r] = x] /\ x.flow = req[r].flow
                 /\ x.pc = "create"
    BY ONLY <1>3, <2>1, r \in Reqs, GoesTo
  <2>3. req[r].pc \in SignIn \ {"issue"} /\ x.pc \in SignIn /\ x.pc # "issue"
    BY <1>1, <2>2 DEF SignIn
  <2> QED
    BY ONLY Inv, TypeInv, r \in Reqs, <1>1, <2>2, <2>3, ProcessTyped',
       UNCHANGED <<db, sessions, issued, begun, flow>>, SignInTyped
<1> QED
  BY ONLY <1>1, <1>2, <1>3

\* While a request may create a user, the next identifier is one of Ids.
LEMMA NextId ==
  ASSUME TypeInv, NEW r \in Reqs, req[r].pc \in MayCreate
  PROVE  NewID \in Ids
<1>1. PICK m, c, A : /\ m = Cardinality(db.users) /\ A = Among(req, MayCreate) /\ c = Cardinality(A)
  OBVIOUS
<1>2. /\ IsFiniteSet(A) /\ r \in A /\ m \in Nat /\ m + c <= begun /\ begun \in 0 .. MaxRequests
  BY <1>1, FS_CardinalityType DEF TypeInv, Counted, UsersTyped, Among
<1>3. c \in Nat /\ c # 0
  BY ONLY <1>1, <1>2, FS_CardinalityType, FS_EmptySet
<1>4. MaxRequests \in Nat
  BY AccountsAssumption
<1>5. m + 1 \in 1 .. MaxRequests
  BY ONLY <1>2, <1>3, <1>4
<1> QED
  BY ONLY <1>1, <1>5 DEF NewID, Ids

\* The new user has the id that NewID counts to.
LEMMA CreateTyped ==
  ASSUME Inv, TypeInv, ProcessTyped', UNCHANGED <<sessions, issued, begun, flow>>,
         NEW r \in Reqs, CreateIdentity(r)
  PROVE  TypeInv'
<1> DEFINE f == req[r].flow
<1>1. PICK i, n, p, s : i = NewID /\ n = Email[flow[f].subject] /\ p = flow[f].provider
                        /\ s = flow[f].subject
  OBVIOUS
<1>2. PICK made : made = Pg!CreateUserAndIdentity(db, i, n, "user", p, s)
  OBVIOUS
<1>3. /\ req[r].pc = "create" /\ db' = made.db
      /\ End(r) \/ (made.err = "" /\ GotoAs(r, "issue", Row(made)))
  BY <1>1, <1>2 DEF CreateIdentity, At
<1>4. Shape /\ Tables(db) /\ UsersTyped(db.users)
  BY DEF Inv, Shape, TypeInv
<1>5. req[r].pc \in MayCreate /\ req[r].pc \in SignIn /\ req[r].pc \in Begun
  BY <1>3, HasBegun DEF MayCreate, SignIn
<1>6. i \in Ids /\ n \in UserNames
  BY <1>1, <1>5, NextId, SignsIn DEF UserNames
<1>7. Grown(db'.users, db.users) /\ (made.err = "" => Row(made) \in Rows)
  BY ONLY <1>2, <1>3, <1>4, <1>6, CreatedIdentity
<1>8. /\ FlowsTyped' /\ sessions' \in [Tokens -> Sessions] /\ issued \in Nat
      /\ begun \in 0 .. MaxRequests
  BY DEF TypeInv, FlowsTyped, Counted
<1>9. CASE End(r)
  <2>1. PICK x : x = Idle
    OBVIOUS
  <2>2. Moved(r, x) /\ x.pc = "idle"
    <3>1. Moved(r, Idle)
      BY ONLY <1>4, <1>9, r \in Reqs, EndMoved
    <3> QED
      BY <2>1, <3>1, Records
  <2>3. issued' \in {issued, issued + 1}
    OBVIOUS
  <2> QED
    BY ONLY Inv, TypeInv, r \in Reqs, <1>5, <1>7, <1>8, <2>2, <2>3, ProcessTyped',
       UNCHANGED <<sessions, issued, begun, flow>>, TypedEnd DEF Grown
<1>10. CASE made.err = "" /\ GotoAs(r, "issue", Row(made))
  <2>1. PICK u : u \in Rows /\ GotoAs(r, "issue", u)
    BY <1>7, <1>10
  <2>2. PICK x : IsRequest(x) /\ req' = [req EXCEPT ![r] = x] /\ x.pc = "issue" /\ x.caller = u
                 /\ x.flow = req[r].flow
    BY ONLY <1>4, <2>1, r \in Reqs, GoesAs
  <2>3. Moved(r, x)
    BY ONLY <1>4, <2>2, r \in Reqs, OneMoved
  <2>4. RequestTyped(x, flow')
    <3>1. flow[req[r].flow].provider \in Providers /\ flow[req[r].flow].subject \in Subjects
      BY <1>5, SignsIn
    <3> QED
      BY ONLY <2>1, <2>2, <3>1, UNCHANGED <<sessions, issued, begun, flow>>
         DEF RequestTyped, PCs, Served, SignIn
  <2>5. /\ Bit(x.pc, Begun) = 1 /\ Bit(x.pc, MayCreate) = 0
        /\ Bit(req[r].pc, Begun) = 1 /\ Bit(req[r].pc, MayCreate) = 1
    <3>1. "issue" \in Begun /\ "issue" \notin MayCreate
      BY DEF Begun, MayCreate, PCs
    <3> QED
      BY ONLY <1>5, <2>2, <3>1 DEF Bit
  <2>6. PICK k, m : k = Cardinality(db'.users) /\ m = Cardinality(db.users)
    OBVIOUS
  <2>7. k \in Nat /\ m \in Nat /\ k <= m + 1
    BY ONLY <1>4, <1>7, <2>6, FS_CardinalityType DEF Grown, UsersTyped
  <2>8. begun \in Nat
    BY <1>8, AccountsAssumption
  <2>9. issued' + 1 + begun <= issued + 1 + begun' /\ k + 0 + begun <= m + 1 + begun'
    BY ONLY <1>8, <2>7, <2>8, UNCHANGED <<sessions, issued, begun, flow>>
  <2>10. /\ issued' + Bit(x.pc, Begun) + begun <= issued + Bit(req[r].pc, Begun) + begun'
         /\ Cardinality(db'.users) + Bit(x.pc, MayCreate) + begun
              <= Cardinality(db.users) + Bit(req[r].pc, MayCreate) + begun'
    BY ONLY <2>5, <2>6, <2>9
  <2>11. /\ begun' \in 0 .. MaxRequests /\ issued' \in Nat /\ UsersTyped(db'.users)
         /\ \A g \in Flows : flow[g].stage = "spent" => flow'[g] = flow[g]
    BY <1>7, <1>8 DEF Grown
  <2> QED
    BY ONLY Inv, TypeInv, r \in Reqs, <1>8, <2>3, <2>4, <2>10, <2>11, ProcessTyped', TypedStep
<1> QED
  BY ONLY <1>3, <1>9, <1>10

\* The steps of linkOrCreateUser.
LEMMA LinkOrCreateUserTyped ==
  ASSUME Inv, TypeInv, NEW r \in Reqs, LinkOrCreateUser(r)
  PROVE  TypeInv'
<1>1. /\ \/ FindIdentity(r) \/ TouchIdentity(r) \/ IdentityUser(r) \/ CreateIdentity(r)
         \/ At(r, "lookup") /\ LookupEmail(r) /\ UNCHANGED db
      /\ UNCHANGED <<up, booted, sessions, issued, mode, snapshot, retry, flow, begun, faults>>
  BY DEF LinkOrCreateUser, service, registry, bounds
<1>2. ProcessTyped'
  BY <1>1 DEF TypeInv, ProcessTyped
<1> QED
  BY ONLY Inv, TypeInv, r \in Reqs, <1>1, <1>2, FindTyped, TouchTyped, IdentityUserTyped,
     CreateTyped, LookupTyped

\* The look-up of the name fails.
LEMMA LookupFailsTyped ==
  ASSUME Inv, TypeInv, NEW r \in Reqs, LookupFails(r)
  PROVE  TypeInv'
<1>1. /\ At(r, "lookup") /\ NoteFault /\ Goto(r, "create")
      /\ UNCHANGED <<db, up, booted, sessions, issued, mode, snapshot, retry, flow, begun>>
  BY DEF LookupFails, service, registry
<1>2. ProcessTyped'
  <2>1. ProcessTyped
    BY DEF TypeInv
  <2>2. faults' \in 0 .. MaxFaults
    BY ONLY <1>1, <2>1, FaultTyped
  <2> QED
    BY ONLY <1>1, <2>1, <2>2 DEF ProcessTyped
<1> QED
  BY ONLY Inv, TypeInv, r \in Reqs, <1>1, <1>2, LookupTyped

\* A single sign-on session has a row and an identity.
LEMMA IssueTyped ==
  ASSUME Inv, TypeInv, NEW r \in Reqs, IssueToken(r)
  PROVE  TypeInv'
<1>1. /\ UNCHANGED <<db, up, booted, mode, snapshot, retry, flow, begun, faults>>
      /\ req[r].pc = "issue" /\ End(r) /\ StoreToken(req[r].caller, Identity(req[r].flow))
  BY DEF IssueToken, At, registry, bounds
<1>2. req[r].caller \in Rows
  BY <1>1 DEF TypeInv, RequestTyped
<1>3. Identity(req[r].flow) \in Identities /\ req[r].pc # "idle"
  BY <1>1, SignsIn DEF Identity, Identities, SignIn
<1>4. ProcessTyped'
  BY <1>1 DEF TypeInv, ProcessTyped
<1>5. \E u \in Rows, i \in Identities \cup {None} : StoreToken(u, i)
  BY <1>1, <1>2, <1>3
<1> QED
  BY ONLY Inv, TypeInv, r \in Reqs, <1>1, <1>3, <1>4, <1>5, SessionTyped
-----------------------------------------------------------------------------
(* Requests with a session *)

\* The caller is the cached row.
LEMMA ResolveTyped ==
  ASSUME Inv, TypeInv, NEW r \in Reqs, NEW t \in Tokens, Resolve(r, t)
  PROVE  TypeInv'
<1>1. /\ UNCHANGED <<db, up, booted, sessions, issued, mode, snapshot, retry, flow, faults>>
      /\ \E u : Begin(r, [Fresh("resolved") EXCEPT !.caller = u])
  BY DEF Resolve, service, registry
<1>2. PICK x : IsRequest(x) /\ x.pc = "resolved" /\ Begin(r, x)
  BY <1>1, Records
<1>3. CanBegin(r) /\ begun' = begun + 1 /\ req' = [req EXCEPT ![r] = x]
  BY ONLY <1>2 DEF Begin
<1>4. Moved(r, x)
  BY ONLY Inv, r \in Reqs, <1>2, <1>3, OneMoved DEF Inv
<1>5. RequestTyped(x, flow')
  BY ONLY <1>2 DEF RequestTyped, PCs, Served, SignIn
<1>6. ProcessTyped' /\ FlowsTyped' /\ \A f \in Flows : flow[f].stage = "spent" => flow'[f] = flow[f]
  BY <1>1 DEF TypeInv, ProcessTyped, FlowsTyped
<1>7. Kept(db'.users, db.users)
  BY <1>1, NoChange DEF TypeInv
<1> QED
  BY ONLY Inv, TypeInv, r \in Reqs, <1>1, <1>3, <1>4, <1>5, <1>6, <1>7, TypedBegin DEF Kept

\* The caller is the row of this moment.
LEMMA RequireUserTyped ==
  ASSUME Inv, TypeInv, NEW r \in Reqs, RequireUser(r)
  PROVE  TypeInv'
<1> DEFINE found == Pg!GetUser(db, req[r].caller.id)
<1>1. /\ req[r].pc = "resolved"
      /\ UNCHANGED <<db, up, booted, sessions, issued, mode, snapshot, retry, flow, begun, faults>>
      /\ End(r) \/ (found.err = "" /\ GotoAs(r, "current", Row(found)))
  BY DEF RequireUser, EnforceCurrentUser, At, service, registry, bounds
<1>2. Shape /\ UsersTyped(db.users) /\ db'.users = db.users /\ req[r].pc # "idle"
  BY <1>1 DEF Inv, TypeInv
<1>3. ProcessTyped'
  BY <1>1 DEF TypeInv, ProcessTyped
<1>4. CASE End(r)
  BY ONLY Inv, TypeInv, r \in Reqs, <1>1, <1>2, <1>3, <1>4, EndTyped
<1>5. CASE found.err = "" /\ GotoAs(r, "current", Row(found))
  <2>1. PICK u : u \in Rows /\ GotoAs(r, "current", u)
    BY <1>2, <1>5, FoundRow
  <2>2. PICK x : IsRequest(x) /\ req' = [req EXCEPT ![r] = x] /\ x.pc = "current" /\ x.caller = u
    BY ONLY <1>2, <2>1, r \in Reqs, GoesAs
  <2>3. RequestTyped(x, flow)
    BY ONLY <2>1, <2>2 DEF RequestTyped, PCs, Served, SignIn
  <2>4. req[r].pc \in MayCreate
    BY <1>1 DEF MayCreate
  <2> QED
    BY ONLY Inv, TypeInv, r \in Reqs, <1>1, <1>2, <1>3, <2>2, <2>3, <2>4, GoTyped
<1> QED
  BY ONLY <1>1, <1>4, <1>5

\* A request that changes nothing ends.
LEMMA MeTyped ==
  ASSUME Inv, TypeInv, NEW r \in Reqs, HandleMe(r)
  PROVE  TypeInv'
<1>1. /\ req[r].pc # "idle" /\ End(r) /\ db'.users = db.users
      /\ UNCHANGED <<db, up, booted, sessions, issued, mode, snapshot, retry, flow, begun, faults>>
  BY DEF HandleMe, At, service, registry, bounds
<1>2. ProcessTyped'
  BY <1>1 DEF TypeInv, ProcessTyped
<1> QED
  BY ONLY Inv, TypeInv, r \in Reqs, <1>1, <1>2, EndTyped

\* An administrator's request ends, and may leave one user more.
LEMMA AdminTyped ==
  ASSUME Inv, TypeInv, NEW r \in Reqs, Moved(r, Idle), req[r].pc = "current",
         Grown(db'.users, db.users),
         UNCHANGED <<up, booted, sessions, issued, mode, snapshot, retry, flow, begun, faults>>
  PROVE  TypeInv'
<1>1. ProcessTyped' /\ sessions' \in [Tokens -> Sessions] /\ issued' \in {issued, issued + 1}
  BY DEF TypeInv, ProcessTyped
<1>2. PICK x : x = Idle
  OBVIOUS
<1>3. Moved(r, x) /\ x.pc = "idle"
  BY <1>2, Records
<1>4. req[r].pc \in Begun /\ req[r].pc \in MayCreate
  BY HasBegun DEF MayCreate
<1> QED
  BY ONLY Inv, TypeInv, r \in Reqs, <1>1, <1>3, <1>4, Grown(db'.users, db.users), TypedEnd,
     UNCHANGED <<up, booted, sessions, issued, mode, snapshot, retry, flow, begun, faults>>
     DEF Grown

\* An administrator creates a user.
LEMMA CreateUserTyped ==
  ASSUME Inv, TypeInv, NEW r \in Reqs, NEW n \in Names, NEW role \in {"admin", "user"},
         HandleAdminCreateUser(r, n, role)
  PROVE  TypeInv'
<1>1. PICK i, h : i = NewID /\ h = Password
  OBVIOUS
<1>2. /\ req[r].pc = "current" /\ End(r) /\ db' = Pg!CreateUser(db, i, n, h, role).db
      /\ UNCHANGED <<up, booted, sessions, issued, mode, snapshot, retry, flow, begun, faults>>
  BY <1>1 DEF HandleAdminCreateUser, AsAdmin, At, service, registry, bounds
<1>3. Shape /\ Tables(db) /\ UsersTyped(db.users)
  BY DEF Inv, Shape, TypeInv
<1>4. i \in Ids /\ n \in UserNames
  BY <1>1, <1>2, NextId DEF MayCreate, UserNames
<1>5. Grown(db'.users, db.users)
  <2>1. UserReply(Pg!CreateUser(db, i, n, h, role), db, Pg!UserRow(i, n, h, role))
    BY ONLY <1>3, <1>4, role \in {"admin", "user"}, CreatedUser
  <2> QED
    BY ONLY <1>2, <2>1 DEF UserReply
<1>6. Moved(r, Idle)
  BY ONLY <1>2, <1>3, r \in Reqs, EndMoved
<1> QED
  BY ONLY Inv, TypeInv, r \in Reqs, <1>2, <1>5, <1>6, AdminTyped

\* An administrator updates a user; what is kept are rows.
LEMMA UpdateUserTyped ==
  ASSUME Inv, TypeInv, NEW r \in Reqs, NEW id, NEW d \in BOOLEAN \cup {None},
         NEW role \in {"admin", "user", None}, HandleAdminUpdateUser(r, id, d, role)
  PROVE  TypeInv'
<1>1. /\ req[r].pc = "current" /\ db' = Pg!UpdateUser(db, id, d, role).db
      /\ req' = Watched([req EXCEPT ![r] = Idle], db'.users)
      /\ UNCHANGED <<up, booted, sessions, issued, mode, snapshot, retry, flow, begun, faults>>
  BY DEF HandleAdminUpdateUser, AsAdmin, At, service, registry, bounds
<1>2. Shape /\ Tables(db) /\ UsersTyped(db.users)
  BY DEF Inv, Shape, TypeInv
<1>3. Grown(db'.users, db.users)
  <2>1. Kept(Pg!UpdateUser(db, id, d, role).db.users, db.users)
    BY ONLY <1>2, d \in BOOLEAN \cup {None}, role \in {"admin", "user", None}, UpdatedUsers
  <2>2. Kept(db'.users, db.users)
    BY ONLY <1>1, <2>1
  <2> QED
    BY ONLY <1>2, <2>2, KeptIsGrown
<1>4. Moved(r, Idle)
  <2>1. IsRequest(Idle)
    BY Records
  <2> QED
    BY ONLY <1>1, <1>2, <2>1, r \in Reqs, WatchedMoved
<1> QED
  BY ONLY Inv, TypeInv, r \in Reqs, <1>1, <1>3, <1>4, AdminTyped

\* Identities are linked and unlinked; no user is concerned.
LEMMA LinksTyped ==
  ASSUME Inv, TypeInv, NEW r \in Reqs, NEW id, NEW p, NEW s,
         HandleAdminLinkIdentity(r, id, p, s) \/ HandleAdminUnlinkIdentity(r, id, p, s)
  PROVE  TypeInv'
<1>1. /\ req[r].pc # "idle" /\ End(r)
      /\ \/ db' = Pg!LinkIdentityToUser(db, id, p, s).db
         \/ db' = Pg!UnlinkIdentity(db, id, p, s).db
      /\ UNCHANGED <<up, booted, sessions, issued, mode, snapshot, retry, flow, begun, faults>>
  BY DEF HandleAdminLinkIdentity, HandleAdminUnlinkIdentity, AsAdmin, At, service, registry, bounds
<1>2. Tables(db)
  BY DEF Inv, Shape
<1>3. Pg!LinkIdentityToUser(db, id, p, s).db.users = db.users
  BY <1>2 DEF Tables, Pg!LinkIdentityToUser, Pg!InsertIdentity, Pg!InsertRow, Pg!Fail, Pg!Ok
<1>4. db'.users = db.users
  <2>1. Pg!UnlinkIdentity(db, id, p, s).db.users = db.users
    BY ONLY <1>2, Unlinked
  <2> QED
    BY ONLY <1>1, <1>3, <2>1
<1>5. ProcessTyped'
  BY <1>1 DEF TypeInv, ProcessTyped
<1> QED
  BY ONLY Inv, TypeInv, r \in Reqs, <1>1, <1>4, <1>5, EndTyped
-----------------------------------------------------------------------------
(* Login settings *)

\* A patch goes on.
LEMMA PatchGoesOn ==
  ASSUME Inv, TypeInv, NEW r \in Reqs, req[r].pc \in Served, NEW x, IsRequest(x),
         req' = [req EXCEPT ![r] = x], x.caller = req[r].caller, x.pc \in PatchSteps,
         ProcessTyped', UNCHANGED <<sessions, issued, begun, flow>>, db'.users = db.users
  PROVE  TypeInv'
<1>1. req[r].caller \in Rows /\ req[r].pc # "idle"
  BY DEF TypeInv, RequestTyped, Served
<1>2. RequestTyped(x, flow)
  BY ONLY <1>1, x.caller = req[r].caller, x.pc \in PatchSteps
     DEF RequestTyped, PCs, Served, SignIn, PatchSteps
<1>3. x.pc \notin MayCreate
  BY DEF PatchSteps, MayCreate
<1> QED
  BY ONLY Inv, TypeInv, r \in Reqs, IsRequest(x), req' = [req EXCEPT ![r] = x], <1>1, <1>2, <1>3,
     ProcessTyped', UNCHANGED <<sessions, issued, begun, flow>>, db'.users = db.users, GoTyped

\* A patch begins.
LEMMA PatchSettingsTyped ==
  ASSUME Inv, TypeInv, NEW r \in Reqs, NEW m, NEW p, NEW on, PatchSettings(r, m, p, on)
  PROVE  TypeInv'
<1>1. /\ req[r].pc = "current"
      /\ db' = IF m = None THEN db ELSE Pg!SetAppSetting(db, "auth.mode", m).db
      /\ Goto(r, "patched") \/ \E v : GotoWith(r, "provider", v)
      /\ UNCHANGED <<up, booted, sessions, issued, mode, snapshot, retry, flow, begun, faults>>
  BY DEF PatchSettings, AsAdmin, At, GotoWith, service, registry, bounds
<1>2. Shape /\ db'.users = db.users
  BY <1>1, SettingSet DEF Inv, Shape
<1>3. PICK x : /\ IsRequest(x) /\ req' = [req EXCEPT ![r] = x] /\ x.pc \in {"provider", "patched"}
               /\ x.caller = req[r].caller
  <2>1. CASE Goto(r, "patched")
    BY ONLY <1>2, <2>1, r \in Reqs, GoesTo
  <2>2. CASE \E v : GotoWith(r, "provider", v)
    <3>1. PICK v : GotoWith(r, "provider", v)
      BY ONLY <2>2
    <3> QED
      BY ONLY <1>2, <3>1, r \in Reqs, GoesWith
  <2> QED
    BY ONLY <1>1, <2>1, <2>2
<1>4. req[r].pc \in Served /\ x.pc \in PatchSteps
  BY <1>1, <1>3 DEF Served, PatchSteps
<1>5. ProcessTyped'
  BY <1>1 DEF TypeInv, ProcessTyped
<1> QED
  BY ONLY Inv, TypeInv, r \in Reqs, <1>1, <1>2, <1>3, <1>4, <1>5, PatchGoesOn

\* A patch stores a switch, or fails.
LEMMA PatchProviderTyped ==
  ASSUME Inv, TypeInv, NEW r \in Reqs, PatchProvider(r)
  PROVE  TypeInv'
<1>1. PICK k, v :
        /\ req[r].pc = "provider"
        /\ \/ /\ db' = Pg!SetAppSetting(db, k, v).db /\ Goto(r, "patched") /\ UNCHANGED faults
           \/ NoteFault /\ End(r) /\ UNCHANGED db
        /\ UNCHANGED <<up, booted, sessions, issued, mode, snapshot, retry, flow, begun>>
  BY DEF PatchProvider, At, service, registry
<1>2. Shape /\ Tables(db) /\ ProcessTyped /\ req[r].pc \in Served /\ req[r].pc # "idle"
  BY <1>1 DEF Inv, Shape, TypeInv, Served
<1>3. db'.users = db.users
  <2>1. Pg!SetAppSetting(db, k, v).db.users = db.users
    BY ONLY <1>2, SettingSet
  <2> QED
    BY ONLY <1>1, <2>1
<1>4. faults' \in 0 .. MaxFaults
  BY <1>1, <1>2, FaultTyped DEF ProcessTyped
<1>5. ProcessTyped'
  BY ONLY <1>1, <1>2, <1>4 DEF ProcessTyped
<1>6. CASE End(r)
  BY ONLY Inv, TypeInv, r \in Reqs, <1>1, <1>2, <1>3, <1>5, <1>6, EndTyped
<1>7. CASE Goto(r, "patched")
  <2>1. PICK x : /\ IsRequest(x) /\ req' = [req EXCEPT ![r] = x] /\ x.pc = "patched"
                 /\ x.caller = req[r].caller
    BY ONLY <1>2, <1>7, r \in Reqs, GoesTo
  <2>2. x.pc \in PatchSteps
    BY <2>1 DEF PatchSteps
  <2> QED
    BY ONLY Inv, TypeInv, r \in Reqs, <1>1, <1>2, <1>3, <1>5, <2>1, <2>2, PatchGoesOn
<1> QED
  BY ONLY <1>1, <1>6, <1>7

\* Reload has read the mode.
LEMMA ReloadModeTyped ==
  ASSUME Inv, TypeInv, NEW r \in Reqs, ReloadMode(r),
         UNCHANGED <<db, up, booted, sessions, issued, retry, flow, begun>>
  PROVE  TypeInv'
<1>1. PICK v : v = [mode |-> StoredMode, overlay |-> {}]
  OBVIOUS
<1>2. req[r].pc = "patched" /\ GotoWith(r, "read", v) /\ UNCHANGED <<mode, snapshot, faults>>
  BY <1>1 DEF ReloadMode, At, GotoWith
<1>3. Shape
  BY DEF Inv
<1>4. PICK x : /\ IsRequest(x) /\ req' = [req EXCEPT ![r] = x] /\ x.pc = "read"
               /\ x.caller = req[r].caller
  BY ONLY <1>2, <1>3, r \in Reqs, GoesWith
<1>5. req[r].pc \in Served /\ x.pc \in PatchSteps
  BY <1>2, <1>4 DEF Served, PatchSteps
<1>6. ProcessTyped' /\ db'.users = db.users
  BY <1>2 DEF TypeInv, ProcessTyped
<1> QED
  BY ONLY Inv, TypeInv, r \in Reqs, <1>4, <1>5, <1>6,
     UNCHANGED <<sessions, issued, begun, flow>>, PatchGoesOn

\* Reload has read the overlay too, or that read has failed.
LEMMA ReloadOverlayTyped ==
  ASSUME Inv, TypeInv, NEW r \in Reqs, ReloadOverlay(r),
         UNCHANGED <<db, up, booted, sessions, issued, retry, flow, begun>>
  PROVE  TypeInv'
<1>1. PICK o : o = StoredOverlay
  OBVIOUS
<1>2. /\ req[r].pc = "read" /\ UNCHANGED <<mode, snapshot>>
      /\ \/ TakesOverlay(r, o) /\ UNCHANGED faults
         \/ NoteFault /\ End(r)
  BY <1>1 DEF ReloadOverlay, At, TakesOverlay
<1>3. Shape /\ ProcessTyped
  BY DEF Inv, TypeInv
<1>4. faults' \in 0 .. MaxFaults
  BY <1>2, <1>3, FaultTyped DEF ProcessTyped
<1>5. ProcessTyped'
  BY ONLY <1>2, <1>3, <1>4, UNCHANGED <<up, booted, retry>> DEF ProcessTyped
<1>6. CASE End(r)
  <2>1. req[r].pc # "idle" /\ db'.users = db.users
    BY <1>2
  <2> QED
    BY ONLY Inv, TypeInv, r \in Reqs, <1>5, <1>6, <2>1,
       UNCHANGED <<sessions, issued, begun, flow>>, EndTyped
<1>7. CASE TakesOverlay(r, o)
  <2>1. PICK x : /\ IsRequest(x) /\ req' = [req EXCEPT ![r] = x] /\ x.pc = "apply"
                 /\ x.caller = req[r].caller
    BY ONLY <1>3, <1>7, r \in Reqs, OverlayRead
  <2>2. req[r].pc \in Served /\ x.pc \in PatchSteps /\ db'.users = db.users
    BY <1>2, <2>1 DEF Served, PatchSteps
  <2> QED
    BY ONLY Inv, TypeInv, r \in Reqs, <1>5, <2>1, <2>2,
       UNCHANGED <<sessions, issued, begun, flow>>, PatchGoesOn
<1> QED
  BY ONLY <1>2, <1>6, <1>7

\* Reload applies what it has read.
LEMMA ReloadApplyTyped ==
  ASSUME Inv, TypeInv, NEW r \in Reqs, ReloadApply(r),
         UNCHANGED <<db, up, booted, sessions, issued, retry, flow, begun>>
  PROVE  TypeInv'
<1>1. PICK m, o : m = req[r].set.mode /\ o = req[r].set.overlay
  OBVIOUS
<1>2. /\ req[r].pc = "apply" /\ End(r) /\ UNCHANGED faults /\ mode' = ModeOf(m)
      /\ snapshot' = [p \in Providers |-> [snapshot[p] EXCEPT !.enabled = EnabledBy(o, p)]]
  BY <1>1 DEF ReloadApply, ApplyOverlay, At, Overlaid
<1>3. ProcessTyped
  BY DEF TypeInv
<1>4. snapshot' \in [Providers -> [status : {"ready", "degraded"}, enabled : BOOLEAN]]
  <2>1. snapshot \in [Providers -> [status : {"ready", "degraded"}, enabled : BOOLEAN]]
    BY <1>3 DEF ProcessTyped
  <2> QED
    BY ONLY <1>2, <2>1, OverlayTyped
<1>5. mode' \in Modes
  BY ONLY <1>2, ModeTyped
<1>6. ProcessTyped'
  BY ONLY <1>2, <1>3, <1>4, <1>5, UNCHANGED <<up, booted, retry>> DEF ProcessTyped
<1>7. req[r].pc # "idle" /\ db'.users = db.users
  BY <1>2
<1> QED
  BY ONLY Inv, TypeInv, r \in Reqs, <1>2, <1>6, <1>7,
     UNCHANGED <<sessions, issued, begun, flow>>, EndTyped

\* The steps of Reload.
LEMMA ReloadTyped ==
  ASSUME Inv, TypeInv, NEW r \in Reqs, Reload(r)
  PROVE  TypeInv'
<1>1. UNCHANGED <<db, up, booted, sessions, issued, retry, flow, begun>>
  BY DEF Reload, service
<1>2. ReloadMode(r) \/ ReloadOverlay(r) \/ ReloadApply(r)
  BY DEF Reload
<1> QED
  BY ONLY Inv, TypeInv, r \in Reqs, <1>1, <1>2, ReloadModeTyped, ReloadOverlayTyped,
     ReloadApplyTyped
-----------------------------------------------------------------------------
(* Every step *)

\* The steps of administrators.
LEMMA AdministrationTyped ==
  ASSUME Inv, TypeInv, NEW r \in Reqs, Administration(r)
  PROVE  TypeInv'
<1>1. CASE \E n \in Names, role \in {"admin", "user"} : HandleAdminCreateUser(r, n, role)
  BY ONLY Inv, TypeInv, r \in Reqs, <1>1, CreateUserTyped
<1>2. CASE \E u \in db.users, d \in BOOLEAN \cup {None},
             role \in {"admin", "user", None} : HandleAdminUpdateUser(r, u.id, d, role)
  <2>1. ASSUME NEW u \in db.users, NEW d \in BOOLEAN \cup {None},
               NEW role \in {"admin", "user", None}, HandleAdminUpdateUser(r, u.id, d, role)
        PROVE  TypeInv'
    <3>1. PICK i : i = u.id
      OBVIOUS
    <3>2. HandleAdminUpdateUser(r, i, d, role)
      BY ONLY <2>1, <3>1
    <3> QED
      BY ONLY Inv, TypeInv, r \in Reqs, d \in BOOLEAN \cup {None},
         role \in {"admin", "user", None}, <3>2, UpdateUserTyped
  <2> QED
    BY ONLY <1>2, <2>1
<1>3. CASE \E u \in db.users, p \in Providers, s \in Subjects :
             \/ HandleAdminLinkIdentity(r, u.id, p, s)
             \/ HandleAdminUnlinkIdentity(r, u.id, p, s)
  <2>1. PICK id, p, s : HandleAdminLinkIdentity(r, id, p, s) \/ HandleAdminUnlinkIdentity(r, id, p, s)
    BY <1>3
  <2> QED
    BY ONLY Inv, TypeInv, r \in Reqs, <2>1, LinksTyped
<1>4. CASE \E m \in Modes \cup {None}, p \in Providers \cup {None},
             on \in {"true", "false"} : PatchSettings(r, m, p, on)
  BY ONLY Inv, TypeInv, r \in Reqs, <1>4, PatchSettingsTyped
<1> QED
  BY <1>1, <1>2, <1>3, <1>4 DEF Administration

\* Nothing is stored, cached or under way.
LEMMA TypeInit ==
  ASSUME Init
  PROVE  TypeInv
<1>1. MaxRequests \in Nat /\ MaxFaults \in Nat
  BY AccountsAssumption
<1>2. ProcessTyped
  <2>1. /\ up = FALSE /\ booted = FALSE /\ mode = "" /\ retry = {} /\ faults = 0
        /\ snapshot = [p \in Providers |-> [status |-> "degraded", enabled |-> FALSE]]
    BY DEF Init
  <2>2. snapshot \in [Providers -> [status : {"ready", "degraded"}, enabled : BOOLEAN]]
    BY ONLY <2>1
  <2>3. faults \in 0 .. MaxFaults
    <3>1. faults = 0
      BY DEF Init
    <3> QED
      BY ONLY <1>1, <3>1
  <2> QED
    BY ONLY <2>1, <2>2, <2>3 DEF ProcessTyped
<1>3. sessions \in [Tokens -> Sessions]
  BY DEF Init, Sessions
<1>4. FlowsTyped
  <2> SUFFICES ASSUME NEW f \in Flows PROVE FlowTyped(flow[f])
    BY DEF FlowsTyped
  <2>1. flow[f] = [stage |-> "new", provider |-> None, subject |-> None]
    BY DEF Init, NoFlow
  <2> QED
    BY ONLY <2>1 DEF FlowTyped
<1>5. db.users = {}
  BY DEF Init, Pg!EmptyTables
<1>6. UsersTyped(db.users)
  BY ONLY <1>5, FS_EmptySet DEF UsersTyped
<1>7. \A r \in Reqs : req[r].pc = "idle"
  BY Records DEF Init
<1>8. \A r \in Reqs : RequestTyped(req[r], flow)
  BY ONLY <1>7 DEF RequestTyped, PCs, Served, SignIn
<1>9. Among(req, Begun) = {} /\ Among(req, MayCreate) = {}
  BY ONLY <1>7 DEF Among, Begun, MayCreate
<1>10. begun = 0 /\ issued = 0
  BY DEF Init
<1>11. Counted
  BY ONLY <1>1, <1>5, <1>9, <1>10, FS_EmptySet DEF Counted
<1> QED
  BY ONLY <1>2, <1>3, <1>4, <1>6, <1>8, <1>11 DEF TypeInv

\* Every step keeps the typed invariant.
LEMMA TypeNext ==
  ASSUME Inv, TypeInv, [Next]_vars
  PROVE  TypeInv'
<1>1. CASE Boot
  BY ONLY Inv, TypeInv, <1>1, BootTyped
<1>2. CASE Crash
  BY ONLY Inv, TypeInv, <1>2, CrashTyped
<1>3. CASE Retry
  BY ONLY Inv, TypeInv, <1>3, RetryTyped
<1>4. CASE \E p \in Providers : IssuerChanges(p)
  BY ONLY Inv, TypeInv, <1>4, IssuerTyped
<1>5. CASE \E f \in Flows, p \in Providers : HandleOIDCLogin(f, p)
  BY ONLY Inv, TypeInv, <1>5, AttemptTyped
<1>6. CASE \E f \in Flows, s \in Subjects : ProviderGrants(f, s)
  BY ONLY Inv, TypeInv, <1>6, AttemptTyped
<1>7. CASE \E t \in Tokens : HandleLogout(t)
  BY ONLY Inv, TypeInv, <1>7, LogoutTyped
<1>8. ASSUME NEW r \in Reqs, Request(r) PROVE TypeInv'
  <2>1. CASE HandleLogin(r)
    BY ONLY Inv, TypeInv, r \in Reqs, <2>1, HandleLoginTyped
  <2>2. CASE LoginPassword(r)
    BY ONLY Inv, TypeInv, r \in Reqs, <2>2, LoginPasswordTyped
  <2>3. CASE \E n \in Names \cup {Admin} : LoginUser(r, n)
    BY ONLY Inv, TypeInv, r \in Reqs, <2>3, LoginUserTyped
  <2>4. CASE \E f \in Flows : HandleOIDCCallback(r, f)
    BY ONLY Inv, TypeInv, r \in Reqs, <2>4, CallbackTyped
  <2>5. CASE LinkOrCreateUser(r) \/ LookupFails(r)
    BY ONLY Inv, TypeInv, r \in Reqs, <2>5, LinkOrCreateUserTyped, LookupFailsTyped
  <2>6. CASE IssueToken(r)
    BY ONLY Inv, TypeInv, r \in Reqs, <2>6, IssueTyped
  <2>7. CASE \E t \in Tokens : Resolve(r, t)
    BY ONLY Inv, TypeInv, r \in Reqs, <2>7, ResolveTyped
  <2>8. CASE RequireUser(r)
    BY ONLY Inv, TypeInv, r \in Reqs, <2>8, RequireUserTyped
  <2>9. CASE HandleMe(r)
    BY ONLY Inv, TypeInv, r \in Reqs, <2>9, MeTyped
  <2>10. CASE Administration(r)
    BY ONLY Inv, TypeInv, r \in Reqs, <2>10, AdministrationTyped
  <2>11. CASE PatchProvider(r)
    BY ONLY Inv, TypeInv, r \in Reqs, <2>11, PatchProviderTyped
  <2>12. CASE Reload(r)
    BY ONLY Inv, TypeInv, r \in Reqs, <2>12, ReloadTyped
  <2> QED
    BY ONLY <1>8, <2>1, <2>2, <2>3, <2>4, <2>5, <2>6, <2>7, <2>8, <2>9, <2>10, <2>11, <2>12
       DEF Request
<1>9. CASE UNCHANGED vars
  <2>1. UNCHANGED <<db, req, issued, begun, up, booted, mode, snapshot, retry, faults,
                    sessions, flow>>
    BY <1>9 DEF vars, service, registry, bounds
  <2>2. ProcessTyped' /\ sessions' \in [Tokens -> Sessions] /\ FlowsTyped'
    BY ONLY TypeInv, <2>1 DEF TypeInv, ProcessTyped, FlowsTyped
  <2> QED
    BY ONLY Inv, TypeInv, <2>1, <2>2, TypedWorld
<1> QED
  BY ONLY [Next]_vars, <1>1, <1>2, <1>3, <1>4, <1>5, <1>6, <1>7, <1>8, <1>9 DEF Next

\* What the invariant says of types: a token is handed out to a request that
\* has begun, so tokens do not run out.
LEMMA Typed ==
  ASSUME Inv, TypeInv
  PROVE  TypeOK
<1>1. ProcessTyped /\ FlowsTyped /\ Counted /\ IsFlows(flow)
  BY DEF Inv, Shape, TypeInv
<1>2. issued \in 0 .. begun /\ begun \in 0 .. MaxRequests
  <2>1. PICK c : c = Cardinality(Among(req, Begun))
    OBVIOUS
  <2>2. c \in Nat /\ MaxRequests \in Nat
    BY <1>1, <2>1, FS_CardinalityType, AccountsAssumption DEF Counted
  <2> QED
    BY ONLY <1>1, <2>1, <2>2 DEF Counted
<1>3. flow \in [Flows -> [stage : {"new", "sent", "granted", "spent"},
                          provider : Providers \cup {None},
                          subject : Subjects \cup {None}]]
  <2>1. flow = [f \in Flows |-> flow[f]]
    BY <1>1 DEF IsFlows
  <2>2. ASSUME NEW f \in Flows
        PROVE  flow[f] \in [stage : {"new", "sent", "granted", "spent"},
                            provider : Providers \cup {None},
                            subject : Subjects \cup {None}]
    <3>1. PICK y : y = flow[f]
      OBVIOUS
    <3>2. y = [stage |-> y.stage, provider |-> y.provider, subject |-> y.subject]
      BY <1>1, <3>1 DEF IsFlows
    <3>3. FlowTyped(y)
      BY <1>1, <3>1 DEF FlowsTyped
    <3> QED
      BY ONLY <3>1, <3>2, <3>3 DEF FlowTyped
  <2> QED
    BY ONLY <2>1, <2>2
<1>4. sessions \in [Tokens -> [user : Rows, identity : Identities \cup {None}] \cup {None}]
  BY DEF TypeInv, Sessions
<1>5. \A r \in Reqs : req[r].pc \in PCs /\ (req[r].pc \in Served => req[r].caller \in Rows)
  BY DEF TypeInv, RequestTyped
<1> QED
  BY ONLY <1>1, <1>2, <1>3, <1>4, <1>5 DEF TypeOK, ProcessTyped

(***************************************************************************)
(* Every row that is cached or served has an id, a user name and a role,   *)
(* also when it was read before the request's last step; no request ends   *)
(* up with more than one token (handleLogin, handleOIDCCallback).          *)
(***************************************************************************)
THEOREM AccountsTypeCorrect == Spec => []TypeOK
<1>1. Init => TypeInv
  BY TypeInit
<1>2. Inv /\ TypeInv /\ [Next]_vars => TypeInv'
  BY TypeNext
<1>3. Inv /\ TypeInv => TypeOK
  BY Typed
<1> QED
  BY <1>1, <1>2, <1>3, Always, PTL DEF Spec
=============================================================================
