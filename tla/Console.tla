------------------------------ MODULE Console ------------------------------
(***************************************************************************)
(* The console's requests: tenancy/agent_auth.py turns a cookie into a      *)
(* principal, and tenancy/settings.py and branding.py change what belongs   *)
(* to that principal's tenant, under row-level security (context.py), each  *)
(* change of a setting with its row in the audit.                           *)
(***************************************************************************)
EXTENDS Integers, Sequences, FiniteSets

CONSTANTS Tenants, Agents,
          AgentTenant,  \* agents.tenant_id
          Requests,     \* requests that may be in flight together
          Floor, MaxScore, \* min_score's bounds
          WorkFloor,    \* kdf.floor: the least work factor a hash may be made with
          WorkFactors,  \* what kdf.n may be edited to
          Changes,      \* what a client may send: <<setting, value>>, in a dict's order
          Uploads,      \* what a client may send as a logo: [size, kind]
          MaxLogo,      \* MAX_LOGO_BYTES
          TTL,          \* ttl_hours
          MaxTime,      \* bound: hours
          MaxTokens,    \* bound: sessions ever issued
          MaxCommits,   \* bound: changes committed
          None

\* A row of agent_sessions.
Session == [tenant : Tenants, agent : Agents, expires : Nat, revoked : Nat \cup {None}]

ASSUME ConsoleAssumption ==
    /\ None \notin Session
    /\ AgentTenant \in [Agents -> Tenants] /\ Floor \in Int /\ MaxScore \in Int
    /\ \A changes \in Changes :
          /\ changes \in Seq(STRING \X Int)
          /\ \A i, j \in DOMAIN changes : changes[i][1] = changes[j][1] => i = j
    /\ WorkFloor \in Nat /\ WorkFactors \subseteq Nat
    /\ {TTL, MaxTime, MaxTokens, MaxCommits} \subseteq Nat

VARIABLES sessions,  \* agent_sessions, by token: [tenant, agent, expires, revoked]
          active,    \* agents whose status is active
          kdf,       \* the work factor config/security/agents.yaml names today
          hashes,    \* agents.password_hash: the work factor each was derived with
          now,
          values,    \* tenant_settings over the defaults, by tenant and setting
          audit,     \* settings_audit, by tenant, in the order of changed_at
          locks,     \* the row locks the upserts of open transactions hold
          logos,     \* tenants.logo_media_type: [kind, by], by being who uploaded it
          req        \* where each request is, and what it carries

vars == <<sessions, active, kdf, hashes, now, values, audit, locks, logos, req>>

Settings == {"min_score", "synonyms"}
Defaults == [s \in Settings |-> IF s = "min_score" THEN Floor ELSE 0]
Idle     == [at |-> "idle", token |-> 0, tenant |-> None, agent |-> None,
             changes |-> <<>>, old |-> Defaults, since |-> 0, done |-> 0]
Tokens   == 1..MaxTokens
Issued   == {k \in Tokens : sessions[k] # None}

Init ==
    /\ sessions = [k \in Tokens |-> None] /\ active = {} /\ now = 0
    /\ kdf = WorkFloor /\ hashes = [a \in Agents |-> None]
    /\ values = [t \in Tenants |-> Defaults] /\ audit = [t \in Tenants |-> <<>>]
    /\ locks = [x \in Tenants \X Settings |-> None]
    /\ logos = [t \in Tenants |-> None]
    /\ req = [r \in Requests |-> Idle]

people == <<active, kdf, hashes>>
auth   == <<sessions, people, now>>
store  == <<values, audit, locks>>
Answered(r) == req' = [req EXCEPT ![r] = Idle]

\* The predicate of _RESOLVE_SESSION: not revoked, and its own expiry still ahead.
Live(s) == s.revoked = None /\ s.expires > now

\* AgentDirectory.resolve: the row of a live token, or None.
Resolve(token) ==
    IF token \in Issued /\ Live(sessions[token]) THEN sessions[token] ELSE None

\* Slip: the tenant the client says it is working for.
ClaimedTenant(session, claim) == claim

\* The principal's tenant: the session row's, and nothing else's.
PrincipalTenant(session, claim) == session.tenant

\* _checked: a work factor under the floor makes no hash at all.
Hashable(n) == n >= WorkFloor

\* create_agent, from the shell: the password is hashed at today's work factor.
CreateAgent(a) ==
    /\ hashes[a] = None /\ Hashable(kdf)
    /\ hashes' = [hashes EXCEPT ![a] = kdf] /\ active' = active \cup {a}
    /\ UNCHANGED <<sessions, kdf, now, store, logos, req>>

Reconfigure(n) == n # kdf /\ kdf' = n
                  /\ UNCHANGED <<sessions, active, hashes, now, store, logos, req>>

\* verify_password, on the right password: the parameters are the stored value's own.
Verifies(a) == hashes[a] # None

\* /auth/login, the half before a tenant is known: the address's row must be active.
LoginResolves(r, a) ==
    /\ req[r].at = "idle" /\ a \in active
    /\ req' = [req EXCEPT ![r] = [Idle EXCEPT !.at = "verify", !.agent = a]]
    /\ UNCHANGED <<auth, store, logos>>

\* The half under the tenant: the password verifies and a session is opened, or not.
LoginVerifies(r) ==
    /\ req[r].at = "verify"
    /\ \/ /\ Cardinality(Issued) < MaxTokens /\ Verifies(req[r].agent)
          /\ sessions' = [sessions EXCEPT ![Cardinality(Issued) + 1] =
                 [tenant |-> AgentTenant[req[r].agent], agent |-> req[r].agent,
                  expires |-> now + TTL, revoked |-> None]]
       \/ UNCHANGED sessions
    /\ Answered(r)
    /\ UNCHANGED <<people, now, store, logos>>

\* cookie_authenticator: a request presents a token and becomes its principal, or 401.
Authenticate(r, token, claim, purpose) ==
    LET s == Resolve(token)
    IN  /\ req[r].at = "idle" /\ s # None
        /\ req' = [req EXCEPT ![r] = [Idle EXCEPT !.at = purpose, !.token = IF purpose = "logout" THEN token ELSE 0,
                       !.tenant = PrincipalTenant(s, claim), !.agent = s.agent]]
        /\ UNCHANGED <<auth, store, logos>>

\* logout, after its resolve: the row is revoked, once.
Logout(r) ==
    LET k == req[r].token
    IN  /\ req[r].at = "logout"
        /\ sessions' = [sessions EXCEPT ![k].revoked = IF @ = None THEN now ELSE @]
        /\ Answered(r)
        /\ UNCHANGED <<people, now, store, logos>>

\* _check, over every change before any is applied.
InBounds(changes) ==
    \A i \in DOMAIN changes :
        /\ changes[i][1] \in Settings
        /\ changes[i][1] = "min_score" => changes[i][2] \in Floor..MaxScore

\* effective: the defaults with this tenant's rows on top.
Effective(t) == values[t]

\* put: bounds, then what is in force now, in a transaction of its own.  `since` is
\* history: how much of the audit there was when it was read.
PutReads(r, changes) ==
    LET t == req[r].tenant
    IN  /\ req[r].at = "put"
        /\ IF InBounds(changes)
              THEN req' = [req EXCEPT ![r] = [@ EXCEPT !.at = "write", !.changes = changes,
                                                     !.old = Effective(t),
                                                     !.since = Len(audit[t])]]
              ELSE Answered(r)
        /\ UNCHANGED <<auth, store, logos>>

\* One upsert: its row is this transaction's until it ends.
Upsert(r) ==
    LET t == req[r].tenant
        s == req[r].changes[req[r].done + 1][1]
    IN  /\ req[r].at = "write" /\ req[r].done < Len(req[r].changes)
        /\ locks[<<t, s>>] \in {None, r}
        /\ locks' = [locks EXCEPT ![<<t, s>>] = r]
        /\ req' = [req EXCEPT ![r].done = @ + 1]
        /\ UNCHANGED <<auth, values, audit, logos>>

Released(r) == [x \in DOMAIN locks |-> IF locks[x] = r THEN None ELSE locks[x]]

\* The place of a setting in what was sent, where a dict has it once.
Named(changes, s) == {i \in DOMAIN changes : changes[i][1] = s}
Sent(changes, s)  == changes[CHOOSE i \in Named(changes, s) : TRUE][2]

\* Slip: ON CONFLICT DO NOTHING.
KeepExisting(old, changes) ==
    [s \in Settings |-> IF old[s] # Defaults[s] \/ Named(changes, s) = {}
                        THEN old[s] ELSE Sent(changes, s)]

\* ON CONFLICT DO UPDATE: what was sent stands.
Applied(old, changes) ==
    [s \in Settings |-> IF Named(changes, s) = {} THEN old[s] ELSE Sent(changes, s)]

\* The audit rows of a put: what each setting was when it was read, and what it is.
AuditOf(r) == [i \in DOMAIN req[r].changes |->
                  [setting |-> req[r].changes[i][1], old |-> req[r].old[req[r].changes[i][1]],
                   new |-> req[r].changes[i][2], agent |-> req[r].agent, since |-> req[r].since]]

\* The audit rows are inserted upsert by upsert, under the row lock: of one setting they
\* come in the order of the commits, and nobody sees them earlier.
Commit(r) ==
    LET t == req[r].tenant
    IN  /\ req[r].at = "write" /\ req[r].done = Len(req[r].changes)
        /\ Len(audit[t]) < MaxCommits
        /\ values' = [values EXCEPT ![t] = Applied(@, req[r].changes)]
        /\ audit' = [audit EXCEPT ![t] = @ \o AuditOf(r)]
        /\ locks' = Released(r)
        /\ Answered(r)
        /\ UNCHANGED <<auth, logos>>

\* The database breaks a deadlock, or the request dies: nothing of it stays.
Aborts(r) ==
    /\ req[r].at = "write"
    /\ locks' = Released(r)
    /\ Answered(r)
    /\ UNCHANGED <<auth, values, audit, logos>>

\* sniff: the type is read from the content, and anything else is refused.
Images == {"image/png", "image/jpeg", "image/gif", "image/webp"}
Sniffed(upload) == upload.size \in 1..MaxLogo /\ upload.kind \in Images

SetLogo(r, upload) ==
    /\ req[r].at = "logo"
    /\ logos' = [logos EXCEPT ![req[r].tenant] =
                    IF Sniffed(upload) THEN [kind |-> upload.kind, by |-> req[r].agent] ELSE @]
    /\ Answered(r)
    /\ UNCHANGED <<auth, store>>

ClearLogo(r) ==
    /\ req[r].at = "clear"
    /\ logos' = [logos EXCEPT ![req[r].tenant] = None]
    /\ Answered(r)
    /\ UNCHANGED <<auth, store>>

\* An operator suspends an agent, and time passes.
Suspend(a) == a \in active /\ active' = active \ {a}
              /\ UNCHANGED <<sessions, kdf, hashes, now, store, logos, req>>
Tick == now < MaxTime /\ now' = now + 1
        /\ UNCHANGED <<sessions, people, store, logos, req>>

Handle(r) ==
    \/ \E a \in Agents : LoginResolves(r, a)
    \/ LoginVerifies(r)
    \/ \E k \in Tokens, t \in Tenants, purpose \in {"logout", "put", "logo", "clear"} :
          Authenticate(r, k, t, purpose)
    \/ Logout(r)
    \/ \E changes \in Changes : PutReads(r, changes)
    \/ Upsert(r) \/ Commit(r) \/ Aborts(r)
    \/ \E upload \in Uploads : SetLogo(r, upload)
    \/ ClearLogo(r)

Next == \/ \E r \in Requests : Handle(r)
        \/ \E a \in Agents : CreateAgent(a) \/ Suspend(a)
        \/ \E n \in WorkFactors : Reconfigure(n)
        \/ Tick

Spec == Init /\ [][Next]_vars
-----------------------------------------------------------------------------
Actors  == {"logout", "put", "write", "logo", "clear"}
Row     == [setting : Settings, old : Int, new : Int, agent : Agents, since : Nat]
Request == [at : Actors \cup {"idle", "verify"}, token : Nat,
            tenant : Tenants \cup {None}, agent : Agents \cup {None},
            changes : Changes \cup {<<>>}, old : [Settings -> Int],
            since : Nat, done : Nat]

TypeOK ==
    /\ sessions \in [Tokens -> Session \cup {None}] /\ active \subseteq Agents /\ now \in Nat
    /\ kdf \in Nat /\ hashes \in [Agents -> Nat \cup {None}]
    /\ values \in [Tenants -> [Settings -> Int]] /\ audit \in [Tenants -> Seq(Row)]
    /\ DOMAIN locks = Tenants \X Settings
    /\ logos \in [Tenants -> [kind : Images, by : Agents] \cup {None}]
    /\ req \in [Requests -> Request]

RowsOf(log, s) == {i \in DOMAIN log : log[i].setting = s}

\* v is what some of the rows of setting s make of it: the newest one's value, if any.
Leaves(log, rows, s, v) ==
    \/ rows = {} /\ v = Defaults[s]
    \/ \E i \in rows : (\A j \in rows : j <= i) /\ v = log[i].new

\* A tenant's settings and logo are only ever changed by its own agents, whatever tenant
\* a client says it is working for, and by none whose password was hashed under the floor,
\* whatever the work factor was edited to.
OwnAgentsOnly ==
    \A t \in Tenants :
        /\ \A i \in DOMAIN audit[t] :
              AgentTenant[audit[t][i].agent] = t /\ Hashable(hashes[audit[t][i].agent])
        /\ logos[t] # None => AgentTenant[logos[t].by] = t /\ Hashable(hashes[logos[t].by])

\* The audit's last word on a setting is the value in force, however many changes of
\* it were in flight together and whichever of them was rolled back.
AuditEndsAtTheValue ==
    \A t \in Tenants, s \in Settings : Leaves(audit[t], RowsOf(audit[t], s), s, values[t][s])

\* Each row starts where the setting stood when its put read it: where the row before it
\* ended, unless that one was committed while this put was in flight, and never at a value
\* that was rolled back or not yet committed.
AuditChains ==
    \A t \in Tenants, s \in Settings : \A i \in RowsOf(audit[t], s) :
        LET since == audit[t][i].since
        IN  /\ since < i
            /\ Leaves(audit[t], {j \in RowsOf(audit[t], s) : j <= since}, s, audit[t][i].old)

\* The audit is the setting's history: a chain from the default to the value in force.
AuditIsTheHistory == AuditEndsAtTheValue /\ AuditChains
=============================================================================
