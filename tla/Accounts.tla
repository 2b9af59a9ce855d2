------------------------------ MODULE Accounts ------------------------------
(***************************************************************************)
(* Accounts: local and single sign-on login (api/server.go, api/oidc.go),  *)
(* sessions (auth/auth.go), the registry of identity providers             *)
(* (identity/registry.go) and the administration of users, identities and  *)
(* login settings, over the tables of PostgresStore.  A request is one     *)
(* goroutine; its steps are its calls of the store, so requests interleave *)
(* between any two of them.  What a handler is asked to do is chosen when  *)
(* it does it.  Tokens, states and nonces are random and never repeat: a   *)
(* token is a number, the state cookie of a login and what the provider    *)
(* answers to it are one flow.                                             *)
(***************************************************************************)
EXTENDS Integers, FiniteSets

CONSTANTS
    None,
    Admin,          \* BootstrapAdminUsername
    GatewaySecret,  \* the configured LLM gateway's, or None
    Password,       \* the one password that is set and typed
    Names,          \* user names an administrator may create
    Providers,      \* configured identity providers
    Subjects,       \* people who can sign in at a provider
    Email,          \* the email claim of each of them
    Reqs,           \* bound: requests in flight at a time
    Flows,          \* bound: single sign-on attempts
    MaxRequests,    \* bound: requests
    MaxFaults,      \* bound: crashes, store errors, issuer outages
    CookieKey       \* AuthCookieKey is configured

ASSUME AccountsAssumption ==
    /\ MaxRequests \in Nat /\ MaxFaults \in Nat
    /\ CookieKey \in BOOLEAN
    /\ None \notin Names \cup Providers \cup Subjects \cup Reqs \cup Flows
    /\ Password # None
    /\ "auth.mode" \notin Providers
    /\ Email \in [Subjects -> STRING]

Modes == {"local", "sso", "both"}
Tokens == 1 .. MaxRequests

Pg == INSTANCE PostgresStore

VARIABLES
    db,         \* the tables
    up,         \* the server process runs
    booted,     \* bootstrapMu: bootstrapAdmin has run in this process
    sessions,   \* auth.Service.tokens: token -> the user cached at login
    issued,     \* tokens handed out so far
    mode,       \* idpRegistry.mode
    snapshot,   \* idpRegistry.snapshot: provider -> status and enabled
    retry,      \* providers that retryDegraded still has to try
    issuerUp,   \* provider -> its discovery document can be fetched
    flow,       \* single sign-on attempts
    req,        \* the requests in flight
    begun,      \* requests so far
    faults,     \* faults so far
    owned,      \* history: <<identity, user>> pairs that were ever linked
    past        \* history: what kept the registry from the settings

registry == <<mode, snapshot, retry>>
service == <<booted, sessions, issued>>
bounds == <<begun, faults>>
vars == <<db, up, service, registry, issuerUp, flow, req, bounds, owned, past>>

Idle == [pc |-> "idle", caller |-> None, flow |-> None, set |-> None,
         out |-> {}, low |-> {}]
NoFlow == [stage |-> "new", provider |-> None, subject |-> None]
Identity(f) == <<flow[f].provider, flow[f].subject>>

Ids == 1 .. MaxRequests
UserNames == Names \cup {Admin} \cup {Email[s] : s \in Subjects}
Rows == [id : Ids, name : UserNames, role : {"admin", "user"}, disabled : BOOLEAN]
Identities == Providers \X Subjects

\* Requests past enforceCurrentUser, and where else a request may be.
Served == {"current", "provider", "patched", "read", "apply"}
PCs == Served \cup {"idle", "password", "hash", "find", "touch", "user", "lookup",
                    "create", "issue", "resolved"}

\* Users that are disabled, and users that are not administrators.
Disabled(users) == {u.id : u \in users} \ {u.id : u \in {v \in users : ~ v.disabled}}
Plain(users) == {u.id : u \in users} \ {u.id : u \in {v \in users : v.role = "admin"}}

TypeOK ==
    /\ up \in BOOLEAN /\ booted \in BOOLEAN
    /\ sessions \in [Tokens -> [user : Rows, identity : Identities \cup {None}] \cup {None}]
    /\ issued \in 0 .. begun
    /\ mode \in Modes \cup {""}
    /\ snapshot \in [Providers -> [status : {"ready", "degraded"}, enabled : BOOLEAN]]
    /\ retry \subseteq Providers
    /\ flow \in [Flows -> [stage : {"new", "sent", "granted", "spent"},
                          provider : Providers \cup {None},
                          subject : Subjects \cup {None}]]
    /\ \A r \in Reqs : req[r].pc \in PCs /\ (req[r].pc \in Served => req[r].caller \in Rows)
    /\ begun \in 0 .. MaxRequests /\ faults \in 0 .. MaxFaults

Init ==
    /\ db = Pg!EmptyTables
    /\ up = FALSE /\ booted = FALSE
    /\ sessions = [t \in Tokens |-> None] /\ issued = 0
    /\ mode = "" /\ snapshot = [p \in Providers |-> [status |-> "degraded", enabled |-> FALSE]]
    /\ retry = {}
    /\ issuerUp \in [Providers -> BOOLEAN]
    /\ flow = [f \in Flows |-> NoFlow]
    /\ req = [r \in Reqs |-> Idle]
    /\ begun = 0 /\ faults = 0
    /\ owned = {} /\ past = {}
-----------------------------------------------------------------------------
(* The registry of identity providers *)

\* What Reload and applyOverlay read: auth.mode and the keys "auth.idp.*";
\* the key "auth.idp.<p>.enabled" stands as p.
StoredMode == (CHOOSE s \in Pg!GetAppSetting(db, "auth.mode").rows : TRUE).value
StoredOverlay == Pg!ListAppSettings(db, Providers).rows

ModeOf(value) == IF value \in Modes THEN value ELSE "local"

\* A provider nobody has switched is enabled.
EnabledBy(overlay, p) == \A s \in overlay : s.key = p => s.value = "true"

Overlaid(overlay) ==
    [p \in Providers |-> [snapshot[p] EXCEPT !.enabled = EnabledBy(overlay, p)]]

NoteFault == faults < MaxFaults /\ faults' = faults + 1

\* NewServer: NewIdPRegistry tries every provider and applies the overlay; when
\* that read fails, the registry is left without a mode, nothing enabled.
Boot ==
    /\ ~ up /\ up' = TRUE
    /\ LET found == [p \in Providers |->
                       [status |-> IF issuerUp[p] THEN "ready" ELSE "degraded",
                        enabled |-> FALSE]]
       IN  \/ /\ mode' = ModeOf(StoredMode)
              /\ snapshot' = [p \in Providers |->
                    [found[p] EXCEPT !.enabled = EnabledBy(StoredOverlay, p)]]
              /\ past' = {}
              /\ UNCHANGED faults
           \/ /\ NoteFault
              /\ mode' \in {"", ModeOf(StoredMode)} /\ snapshot' = found
              /\ past' = {"failed"}
    /\ UNCHANGED <<db, service, retry, issuerUp, flow, req, begun, owned>>

\* Sessions, requests and the registry live in the process; without a
\* configured key the state cookies of logins under way cannot be decoded.
Crash ==
    /\ up /\ NoteFault
    /\ up' = FALSE /\ booted' = FALSE
    /\ sessions' = [t \in Tokens |-> None]
    /\ req' = [r \in Reqs |-> Idle]
    /\ retry' = {}
    /\ flow' = IF CookieKey THEN flow
               ELSE [f \in Flows |-> IF flow[f].stage = "new" THEN flow[f]
                                     ELSE [flow[f] EXCEPT !.stage = "spent"]]
    /\ UNCHANGED <<db, issued, mode, snapshot, issuerUp, begun, owned, past>>

\* Run's ticker: the degraded providers of this moment.
RetryDegraded ==
    /\ up /\ retry = {}
    /\ \E p \in Providers : snapshot[p].status = "degraded"
    /\ retry' = {p \in Providers : snapshot[p].status = "degraded"}
    /\ UNCHANGED <<mode, snapshot>>

\* Mutant: the provider is replaced, its status is not.
RetryUnmarked(p) ==
    /\ p \in retry /\ retry' = retry \ {p}
    /\ UNCHANGED <<mode, snapshot>>

\* NewOIDCProvider for one of them.
RetryProvider(p) ==
    /\ p \in retry /\ retry' = retry \ {p}
    /\ snapshot' = IF issuerUp[p] THEN [snapshot EXCEPT ![p].status = "ready"]
                   ELSE snapshot
    /\ UNCHANGED mode

Retry ==
    /\ RetryDegraded \/ \E p \in Providers : RetryProvider(p)
    /\ UNCHANGED <<db, up, service, issuerUp, flow, req, bounds, owned, past>>

\* An outage is a fault; that it ends is none.
IssuerChanges(p) ==
    /\ IF issuerUp[p] THEN NoteFault ELSE UNCHANGED faults
    /\ issuerUp' = [issuerUp EXCEPT ![p] = ~ @]
    /\ UNCHANGED <<db, up, service, registry, flow, req, begun, owned, past>>
-----------------------------------------------------------------------------
(* Steps of requests *)

CanBegin(r) == up /\ req[r] = Idle /\ begun < MaxRequests

Fresh(pc) == [Idle EXCEPT !.pc = pc, !.out = Disabled(db.users),
                          !.low = Plain(db.users)]

Begin(r, state) ==
    /\ CanBegin(r)
    /\ begun' = begun + 1
    /\ req' = [req EXCEPT ![r] = state]

NewID == Cardinality(db.users) + 1    \* newID: users are never deleted
At(r, pc) == req[r].pc = pc
Goto(r, pc) == req' = [req EXCEPT ![r].pc = pc]
GotoAs(r, pc, user) == req' = [req EXCEPT ![r].pc = pc, ![r].caller = user]
End(r) == req' = [req EXCEPT ![r] = Idle]
Row(reply) == CHOOSE u \in reply.rows : TRUE

\* Every request forgets the users who are no longer disabled or plain.
Watched(requests, users) ==
    [r \in Reqs |-> [requests[r] EXCEPT !.out = @ \cap Disabled(users),
                                       !.low = @ \cap Plain(users)]]

\* tokenID and the write of tokens.
StoreToken(user, identity) ==
    /\ issued' = issued + 1
    /\ sessions' = [sessions EXCEPT ![issued + 1] = [user |-> user, identity |-> identity]]
-----------------------------------------------------------------------------
(* handleLogin and auth.Service.Login *)

\* bootstrapAdmin: once per process, whoever tries to log in.
Bootstrapped(id) ==
    LET made == Pg!BootstrapAdmin(db, id, Admin, Password).db
        seeded == IF GatewaySecret = None THEN made
                  ELSE Pg!UpsertLLMGatewaySettings(made, TRUE, GatewaySecret).db
    IN  IF booted THEN db ELSE Pg!SetPasswordHash(seeded, Admin, Password).db

\* An error of BootstrapAdmin skips the rest, and this process does not try
\* again.  Then the mode is looked at: sso answers 403 to everyone.
HandleLogin(r) ==
    /\ CanBegin(r)
    /\ \/ db' = Bootstrapped(NewID) /\ UNCHANGED faults
       \/ ~ booted /\ NoteFault /\ UNCHANGED db
    /\ booted' = TRUE
    /\ begun' = begun + 1
    /\ req' = Watched([req EXCEPT ![r] =
                        IF mode = "sso" THEN Idle ELSE Fresh("password")], db'.users)
    /\ UNCHANGED <<up, sessions, issued, registry, issuerUp, flow, owned, past>>

LoginUser(r, name) ==
    /\ At(r, "password")
    /\ LET found == Pg!GetUserByUsername(db, name)
       IN  IF found.err # "" \/ Row(found).disabled THEN End(r)
           ELSE GotoAs(r, "hash", Row(found))
    /\ UNCHANGED <<db, up, service, registry, issuerUp, flow, bounds, owned, past>>

\* A user who came by single sign-on has no hash, and none compares to it.
LoginPassword(r) ==
    /\ At(r, "hash")
    /\ LET found == Pg!GetPasswordHash(db, req[r].caller.name)
       IN  \/ /\ found.err = "" /\ Row(found).hash = Password
              /\ StoreToken(req[r].caller, None)
           \/ UNCHANGED <<sessions, issued>>    \* and any other password
    /\ End(r)
    /\ UNCHANGED <<db, up, booted, registry, issuerUp, flow, bounds, owned, past>>
-----------------------------------------------------------------------------
(* handleOIDCLogin, handleOIDCCallback and linkOrCreateUser *)

Available(p) == snapshot[p].enabled /\ snapshot[p].status = "ready"

\* The state cookie is set and the browser sent to the provider.
HandleOIDCLogin(f, p) ==
    /\ up /\ flow[f].stage = "new" /\ Available(p)
    /\ flow' = [flow EXCEPT ![f].stage = "sent", ![f].provider = p]
    /\ UNCHANGED <<db, up, service, registry, issuerUp, req, bounds, owned, past>>

\* The provider knows its user and sends the browser back with a code.
ProviderGrants(f, s) ==
    /\ flow[f].stage = "sent"
    /\ flow' = [flow EXCEPT ![f].stage = "granted", ![f].subject = s]
    /\ UNCHANGED <<db, up, service, registry, issuerUp, req, bounds, owned, past>>

\* Cookie and query belong to one flow, which has not expired (Decode); the
\* code can be exchanged once, and the exchange may fail.
HandleOIDCCallback(r, f) ==
    /\ up /\ flow[f].stage = "granted"
    /\ flow' = [flow EXCEPT ![f].stage = "spent"]
    /\ \/ /\ Available(flow[f].provider)
          /\ Begin(r, [Fresh("find") EXCEPT !.flow = f])
       \/ UNCHANGED <<req, begun>>
    /\ UNCHANGED <<db, up, service, registry, issuerUp, faults, owned, past>>

\* Mutant: a user of that name is taken for the person who signs in.
LinkByEmail(r) ==
    LET f == req[r].flow
        named == Pg!GetUserByUsername(db, Email[flow[f].subject])
    IN  IF named.err = "" THEN GotoAs(r, "issue", Row(named)) ELSE Goto(r, "create")

\* "email already registered with a local account" is answered 409.
LookupEmail(r) ==
    LET f == req[r].flow
        named == Pg!GetUserByUsername(db, Email[flow[f].subject])
    IN  IF named.err = "" THEN End(r) ELSE Goto(r, "create")

\* An error of that lookup is taken for "no such user".
LookupFails(r) ==
    /\ At(r, "lookup") /\ NoteFault
    /\ Goto(r, "create")
    /\ UNCHANGED <<db, up, service, registry, issuerUp, flow, begun, owned, past>>

FindIdentity(r) ==
    LET f == req[r].flow
        found == Pg!GetUserIDByIdentity(db, flow[f].provider, flow[f].subject)
    IN  /\ At(r, "find")
        /\ IF found.rows = {} THEN Goto(r, "lookup")
           ELSE req' = [req EXCEPT ![r].pc = "touch", ![r].set = Row(found).user]
        /\ UNCHANGED <<db, owned>>

\* An error of TouchIdentityLogin is only logged.
TouchIdentity(r) ==
    /\ At(r, "touch")
    /\ LET f == req[r].flow
       IN  db' = Pg!TouchIdentityLogin(db, flow[f].provider, flow[f].subject).db
    /\ Goto(r, "user")
    /\ UNCHANGED owned

IdentityUser(r) ==
    LET found == Pg!GetUser(db, req[r].set)
    IN  /\ At(r, "user")
        /\ IF found.err # "" \/ Row(found).disabled THEN End(r)
           ELSE GotoAs(r, "issue", Row(found))
        /\ UNCHANGED <<db, owned>>

\* Mutant: the new user is not what is returned.
CreateUnreturned(r) ==
    LET f == req[r].flow
        made == Pg!CreateUserAndIdentity(db, NewID, Email[flow[f].subject], "user",
                                         flow[f].provider, flow[f].subject)
    IN  /\ At(r, "create")
        /\ db' = made.db
        /\ IF made.err # "" THEN End(r) ELSE Goto(r, "issue")
        /\ UNCHANGED owned

CreateIdentity(r) ==
    LET f == req[r].flow
        made == Pg!CreateUserAndIdentity(db, NewID, Email[flow[f].subject], "user",
                                         flow[f].provider, flow[f].subject)
    IN  /\ At(r, "create")
        /\ db' = made.db
        /\ IF made.err # "" THEN End(r) /\ UNCHANGED owned
           ELSE /\ GotoAs(r, "issue", Row(made))
                /\ owned' = owned \cup {<<Identity(f), Row(made).id>>}

LinkOrCreateUser(r) ==
    /\ \/ FindIdentity(r) \/ TouchIdentity(r) \/ IdentityUser(r) \/ CreateIdentity(r)
       \/ At(r, "lookup") /\ LookupEmail(r) /\ UNCHANGED <<db, owned>>
    /\ UNCHANGED <<up, service, registry, issuerUp, flow, bounds, past>>

IssueToken(r) ==
    /\ At(r, "issue")
    /\ StoreToken(req[r].caller, Identity(req[r].flow))
    /\ End(r)
    /\ UNCHANGED <<db, up, booted, registry, issuerUp, flow, bounds, owned, past>>
-----------------------------------------------------------------------------
(* Requests with a session *)

\* requireUser: Resolve.
Resolve(r, t) ==
    /\ sessions[t] # None
    /\ Begin(r, [Fresh("resolved") EXCEPT !.caller = sessions[t].user])
    /\ UNCHANGED <<db, up, service, registry, issuerUp, flow, faults, owned, past>>

\* Mutant: the user as the login saw it.
TrustSession(r) == IF req[r].caller.disabled THEN End(r) ELSE Goto(r, "current")

\* enforceCurrentUser: the row of this moment decides.
EnforceCurrentUser(r) ==
    LET found == Pg!GetUser(db, req[r].caller.id)
    IN  IF found.err # "" \/ Row(found).disabled THEN End(r)
        ELSE GotoAs(r, "current", Row(found))

RequireUser(r) ==
    /\ At(r, "resolved")
    /\ EnforceCurrentUser(r)
    /\ UNCHANGED <<db, up, service, registry, issuerUp, flow, bounds, owned, past>>

\* handleMe, and any answer that changes nothing (403, 404, 409 too).
HandleMe(r) ==
    /\ At(r, "current")
    /\ End(r)
    /\ UNCHANGED <<db, up, service, registry, issuerUp, flow, bounds, owned, past>>

HandleLogout(t) ==
    /\ up /\ sessions[t] # None
    /\ sessions' = [sessions EXCEPT ![t] = None]
    /\ UNCHANGED <<db, up, booted, issued, registry, issuerUp, flow, req, bounds,
                   owned, past>>

AsAdmin(r) == At(r, "current") /\ req[r].caller.role = "admin"

HandleAdminCreateUser(r, name, role) ==
    /\ AsAdmin(r)
    /\ Pg!CreateUser(db, NewID, name, Password, role).err = ""
    /\ db' = Pg!CreateUser(db, NewID, name, Password, role).db
    /\ End(r)
    /\ UNCHANGED <<up, service, registry, issuerUp, flow, bounds, owned, past>>

HandleAdminUpdateUser(r, id, disabled, role) ==
    /\ AsAdmin(r)
    /\ Pg!UpdateUser(db, id, disabled, role).err = ""
    /\ db' = Pg!UpdateUser(db, id, disabled, role).db
    /\ req' = Watched([req EXCEPT ![r] = Idle], db'.users)
    /\ UNCHANGED <<up, service, registry, issuerUp, flow, bounds, owned, past>>

HandleAdminLinkIdentity(r, id, p, s) ==
    /\ AsAdmin(r)
    /\ Pg!LinkIdentityToUser(db, id, p, s).err = ""
    /\ db' = Pg!LinkIdentityToUser(db, id, p, s).db
    /\ owned' = owned \cup {<<<<p, s>>, id>>}
    /\ End(r)
    /\ UNCHANGED <<up, service, registry, issuerUp, flow, bounds, past>>

HandleAdminUnlinkIdentity(r, id, p, s) ==
    /\ AsAdmin(r)
    /\ Pg!UnlinkIdentity(db, id, p, s).err = ""
    /\ db' = Pg!UnlinkIdentity(db, id, p, s).db
    /\ End(r)
    /\ UNCHANGED <<up, service, registry, issuerUp, flow, bounds, owned, past>>
-----------------------------------------------------------------------------
(* handlePatchAuthSettings: the settings one by one, then Reload *)

Patching(r) == req[r].pc \in {"provider", "patched", "read", "apply"}

\* SetAppSetting of the mode (m), or no mode; then of one provider's switch
\* (p), or none.
PatchSettings(r, m, p, on) ==
    /\ AsAdmin(r)
    /\ m # None \/ p # None
    /\ db' = IF m = None THEN db ELSE Pg!SetAppSetting(db, "auth.mode", m).db
    /\ IF p = None THEN Goto(r, "patched")
       ELSE req' = [req EXCEPT ![r].pc = "provider", ![r].set = [key |-> p, value |-> on]]
    /\ UNCHANGED <<up, service, registry, issuerUp, flow, bounds, owned, past>>

\* A failure is answered before Reload.
PatchProvider(r) ==
    /\ At(r, "provider")
    /\ \/ /\ db' = Pg!SetAppSetting(db, req[r].set.key, req[r].set.value).db
          /\ Goto(r, "patched")
          /\ UNCHANGED <<faults, past>>
       \/ /\ NoteFault /\ End(r)
          /\ past' = past \cup {"failed"}
          /\ UNCHANGED db
    /\ UNCHANGED <<up, service, registry, issuerUp, flow, begun, owned>>

\* Mutant: the mode is left at what it was.
OverlayOnly(r) ==
    /\ At(r, "apply")
    /\ snapshot' = Overlaid(req[r].set.overlay)
    /\ UNCHANGED mode

\* Reload's critical section.
ApplyOverlay(r) ==
    /\ At(r, "apply")
    /\ mode' = ModeOf(req[r].set.mode)
    /\ snapshot' = Overlaid(req[r].set.overlay)

\* Reload: mode and overlay are read one after the other without r.mu, then
\* applied; an error is only logged.
ReloadMode(r) ==
    /\ At(r, "patched")
    /\ req' = [req EXCEPT ![r].pc = "read",
                          ![r].set = [mode |-> StoredMode, overlay |-> {}]]
    /\ UNCHANGED <<mode, snapshot, faults, past>>

ReloadOverlay(r) ==
    /\ At(r, "read")
    /\ \/ /\ req' = [req EXCEPT ![r].pc = "apply",
                                ![r].set.overlay = StoredOverlay]
          /\ UNCHANGED <<faults, past>>
       \/ NoteFault /\ End(r) /\ past' = past \cup {"failed"}
    /\ UNCHANGED <<mode, snapshot>>

ReloadApply(r) ==
    /\ ApplyOverlay(r)
    /\ End(r)
    /\ past' = IF \E q \in Reqs \ {r} : Patching(q)
               THEN past \cup {"overlapped"} ELSE past
    /\ UNCHANGED faults

Reload(r) ==
    /\ ReloadMode(r) \/ ReloadOverlay(r) \/ ReloadApply(r)
    /\ UNCHANGED <<db, up, service, retry, issuerUp, flow, begun, owned>>
-----------------------------------------------------------------------------
Administration(r) ==
    \/ \E n \in Names, role \in {"admin", "user"} : HandleAdminCreateUser(r, n, role)
    \/ \E u \in db.users, d \in BOOLEAN \cup {None},
          role \in {"admin", "user", None} : HandleAdminUpdateUser(r, u.id, d, role)
    \/ \E u \in db.users, p \in Providers, s \in Subjects :
          \/ HandleAdminLinkIdentity(r, u.id, p, s)
          \/ HandleAdminUnlinkIdentity(r, u.id, p, s)
    \/ \E m \in Modes \cup {None}, p \in Providers \cup {None},
          on \in {"true", "false"} : PatchSettings(r, m, p, on)

Request(r) ==
    \/ HandleLogin(r) \/ LoginPassword(r)
    \/ \E n \in Names \cup {Admin} : LoginUser(r, n)
    \/ \E f \in Flows : HandleOIDCCallback(r, f)
    \/ LinkOrCreateUser(r) \/ LookupFails(r) \/ IssueToken(r)
    \/ \E t \in Tokens : Resolve(r, t)
    \/ RequireUser(r) \/ HandleMe(r) \/ Administration(r)
    \/ PatchProvider(r) \/ Reload(r)

Next ==
    \/ Boot \/ Crash \/ Retry
    \/ \E p \in Providers : IssuerChanges(p)
    \/ \E f \in Flows, p \in Providers : HandleOIDCLogin(f, p)
    \/ \E f \in Flows, s \in Subjects : ProviderGrants(f, s)
    \/ \E t \in Tokens : HandleLogout(t)
    \/ \E r \in Reqs : Request(r)

\* The process is restarted and the retry ticker ticks.
Fairness ==
    /\ WF_vars(Boot)
    /\ WF_vars(RetryDegraded /\ Retry)
    /\ \A p \in Providers : WF_vars(RetryProvider(p) /\ Retry)

Spec == Init /\ [][Next]_vars
FairSpec == Spec /\ Fairness
-----------------------------------------------------------------------------
(***************************************************************************)
(* A request is never served for a user who has been disabled, and never   *)
(* with the rights of an administrator for one who has not been one, ever  *)
(* since before the request began: the session's copy of the user, which   *)
(* is as old as the login, decides nothing (enforceCurrentUser).  The      *)
(* window between that check and the handler's effect is the code's own.   *)
(***************************************************************************)
ServedOnlyIfEntitled ==
    \A r \in Reqs : req[r].pc \in Served =>
        /\ req[r].caller.id \notin req[r].out
        /\ req[r].caller.role = "admin" => req[r].caller.id \notin req[r].low

(***************************************************************************)
(* A single sign-on session belongs to an account that this identity       *)
(* created or that an administrator linked to it, however many callbacks,  *)
(* new local users and unlinks race with it: an account is never entered   *)
(* because its user name is the email the provider reports                 *)
(* (linkOrCreateUser, CreateUserAndIdentity).                              *)
(***************************************************************************)
SessionsAreOwned ==
    \A t \in Tokens : sessions[t] # None /\ sessions[t].identity # None =>
        <<sessions[t].identity, sessions[t].user.id>> \in owned

(***************************************************************************)
(* When no patch of the settings is under way, the registry has the mode   *)
(* and the switches of the store, also after a crash in the middle of a    *)
(* patch.  Excluded by name are the cases in which the code lets them      *)
(* differ: a store error before or in Reload, and a Reload that applied    *)
(* what it read while another patch was under way (idpRegistry.Reload).    *)
(***************************************************************************)
RegistryFollowsSettings ==
    up /\ past = {} /\ (\A r \in Reqs : ~ Patching(r)) =>
        /\ mode = ModeOf(StoredMode)
        /\ \A p \in Providers : snapshot[p].enabled = EnabledBy(StoredOverlay, p)

(***************************************************************************)
(* A provider whose issuer stays reachable becomes ready and stays so,     *)
(* whatever failed before (NewIdPRegistry, retryDegraded).                 *)
(***************************************************************************)
ProviderRecovers ==
    \A p \in Providers :
        <>[]issuerUp[p] => <>[](up /\ snapshot[p].status = "ready")
=============================================================================
