----------------------------- MODULE Console_proofs -----------------------------
(***************************************************************************)
(* Theorems about Console, for any tenants, agents, requests and changes.   *)
(***************************************************************************)
EXTENDS Console, SequenceTheorems, FiniteSetTheorems, TLAPS

At(r, places) == req[r].at \in places

\* A session is its agent's tenant's, and a request acts as the session it presented.
SessionOK == \A k \in Issued : sessions[k].tenant = AgentTenant[sessions[k].agent]
RequestOK == \A r \in Requests :
    /\ At(r, Actors) => req[r].agent \in Agents /\ req[r].tenant = AgentTenant[req[r].agent]
    /\ At(r, {"verify"}) => req[r].agent \in Agents
    /\ At(r, {"logout"}) => req[r].token \in Issued
    /\ At(r, {"write"}) => req[r].changes \in Changes /\ InBounds(req[r].changes)

\* Whoever may sign in, or has, has a hash that was made at the floor or above.
Known == active \cup {sessions[k].agent : k \in Issued}
                \cup {req[r].agent : r \in {q \in Requests : At(q, Actors \cup {"verify"})}}
HashesOK == \A a \in Known : Hashable(hashes[a])

\* What a put has read is what the audit left when it read it.
ReadOK(r) ==
    LET t == req[r].tenant
    IN  /\ req[r].since <= Len(audit[t])
        /\ \A s \in Settings :
              Leaves(audit[t], {j \in RowsOf(audit[t], s) : j <= req[r].since}, s, req[r].old[s])
OldOK == \A r \in Requests : At(r, {"write"}) => ReadOK(r)

Inv == /\ TypeOK /\ SessionOK /\ RequestOK /\ HashesOK /\ OldOK
       /\ OwnAgentsOnly /\ AuditEndsAtTheValue /\ AuditChains
-----------------------------------------------------------------------------
LEMMA InitInv == Init => Inv
<1> SUFFICES ASSUME Init PROVE Inv
  OBVIOUS
<1>1. TypeOK
  BY ConsoleAssumption DEF Init, TypeOK, Request, Idle, Defaults, Settings
<1>2. /\ Issued = {} /\ \A t \in Tenants : audit[t] = <<>> /\ values[t] = Defaults /\ logos[t] = None
      /\ \A r \in Requests : req[r].at = "idle"
  BY DEF Init, Issued, Idle
<1>3. \A t \in Tenants : DOMAIN audit[t] = {}
  BY <1>2
<1>4. SessionOK /\ RequestOK /\ HashesOK /\ OldOK
  BY <1>2 DEF Init, SessionOK, RequestOK, HashesOK, Known, OldOK, At, Actors
<1>5. OwnAgentsOnly /\ AuditEndsAtTheValue /\ AuditChains
  BY <1>2, <1>3 DEF OwnAgentsOnly, AuditEndsAtTheValue, AuditChains, RowsOf, Leaves
<1> QED
  BY <1>1, <1>4, <1>5 DEF Inv

\* What a request does that ends it, and what it leaves alone.
LEMMA AnsweredIsIdle ==
    ASSUME TypeOK, NEW r \in Requests, Answered(r)
    PROVE  /\ req'[r] = Idle /\ \A q \in Requests \ {r} : req'[q] = req[q]
           /\ Idle.at = "idle" /\ Idle.old \in [Settings -> Int]
           /\ DOMAIN req' = Requests
  BY ConsoleAssumption DEF Answered, TypeOK, Idle, Defaults, Settings

LEMMA FunctionIsSeq ==
    ASSUME NEW S, NEW n \in Nat, NEW f \in [1 .. n -> S]
    PROVE  f \in Seq(S) /\ Len(f) = n
<1>1. f \in Seq(S)
  BY SeqDef
<1>2. Len(f) \in Nat /\ DOMAIN f = 1 .. Len(f) /\ DOMAIN f = 1 .. n
  BY <1>1, LenProperties
<1> QED
  BY <1>1, <1>2

\* The rows a put writes are rows of its agent's.
LEMMA AuditOfType ==
    ASSUME TypeOK, RequestOK, NEW r \in Requests, req[r].at = "write"
    PROVE  /\ AuditOf(r) \in Seq(Row) /\ Len(AuditOf(r)) = Len(req[r].changes)
           /\ req[r].changes \in Seq(Settings \X Int)
           /\ \A i \in DOMAIN AuditOf(r) :
                 AuditOf(r)[i] = [setting |-> req[r].changes[i][1],
                                  old |-> req[r].old[req[r].changes[i][1]],
                                  new |-> req[r].changes[i][2], agent |-> req[r].agent,
                                  since |-> req[r].since]
<1> DEFINE c == req[r].changes
<1>1. /\ c \in Changes /\ InBounds(c) /\ req[r].agent \in Agents /\ req[r].old \in [Settings -> Int]
      /\ req[r].since \in Nat
  BY DEF RequestOK, At, Actors, TypeOK, Request
<1>2. c \in Seq(STRING \X Int) /\ DOMAIN c = 1 .. Len(c) /\ Len(c) \in Nat
  BY <1>1, ConsoleAssumption
<1>3. \A i \in 1 .. Len(c) : c[i] \in Settings \X Int
  <2> SUFFICES ASSUME NEW i \in 1 .. Len(c) PROVE c[i] \in Settings \X Int
    OBVIOUS
  <2>1. c[i] \in STRING \X Int
    BY <1>2
  <2>2. c[i][1] \in Settings
    BY <1>1, <1>2 DEF InBounds
  <2> QED
    BY <2>1, <2>2
<1>4. c \in Seq(Settings \X Int)
  <2>1. c \in [1 .. Len(c) -> Settings \X Int]
    BY <1>2, <1>3, LenProperties
  <2> QED
    BY <1>2, <2>1, FunctionIsSeq
<1>5. \A i \in 1 .. Len(c) : AuditOf(r)[i] \in Row
  <2> SUFFICES ASSUME NEW i \in 1 .. Len(c) PROVE AuditOf(r)[i] \in Row
    OBVIOUS
  <2>1. c[i][1] \in Settings /\ c[i][2] \in Int /\ i \in DOMAIN c
    BY <1>2, <1>3
  <2>2. req[r].old[c[i][1]] \in Int
    BY <1>1, <2>1
  <2> QED
    BY <1>1, <2>1, <2>2 DEF AuditOf, Row
<1>6. AuditOf(r) \in [1 .. Len(c) -> Row]
  BY <1>2, <1>5 DEF AuditOf
<1>7. AuditOf(r) \in Seq(Row) /\ Len(AuditOf(r)) = Len(c)
  BY <1>2, <1>6, FunctionIsSeq
<1> QED
  BY <1>4, <1>7 DEF AuditOf
-----------------------------------------------------------------------------
LEMMA IdleType == Idle \in Request
  BY ConsoleAssumption DEF Idle, Request, Defaults, Settings

\* The requests' part of the types, whatever one request becomes.
LEMMA RequestType ==
    ASSUME TypeOK, NEW r \in Requests, NEW x \in Request, req' = [req EXCEPT ![r] = x]
    PROVE  req' \in [Requests -> Request] /\ req'[r] = x
  BY DEF TypeOK

\* What a put carries once it has read.
LEMMA PutReadsShape ==
    ASSUME TypeOK, NEW r \in Requests, NEW changes, PutReads(r, changes), InBounds(changes)
    PROVE  /\ req' = [req EXCEPT ![r] = [req[r] EXCEPT !.at = "write", !.changes = changes,
                                              !.old = Effective(req[r].tenant),
                                              !.since = Len(audit[req[r].tenant])]]
           /\ \A q \in Requests \ {r} : req'[q] = req[q]
           /\ req'[r].at = "write" /\ req'[r].changes = changes
           /\ req'[r].agent = req[r].agent /\ req'[r].tenant = req[r].tenant
           /\ req'[r].old = values[req[r].tenant] /\ req'[r].since = Len(audit[req[r].tenant])
<1> DEFINE x == [req[r] EXCEPT !.at = "write", !.changes = changes,
                               !.old = Effective(req[r].tenant),
                               !.since = Len(audit[req[r].tenant])]
<1>1. req' = [req EXCEPT ![r] = x]
  BY DEF PutReads
<1>2. req[r] \in Request
  BY DEF TypeOK
<1>3. /\ x.at = "write" /\ x.changes = changes /\ x.old = values[req[r].tenant]
      /\ x.since = Len(audit[req[r].tenant])
      /\ x.agent = req[r].agent /\ x.tenant = req[r].tenant
  BY <1>2 DEF Request, Effective
<1> HIDE DEF x
<1>4. req'[r] = x /\ \A q \in Requests \ {r} : req'[q] = req[q]
  BY <1>1 DEF TypeOK
<1> QED
  BY <1>1, <1>3, <1>4 DEF x

LEMMA TypeStep == TypeOK /\ RequestOK /\ [Next]_vars => TypeOK'
<1> SUFFICES ASSUME TypeOK, RequestOK, [Next]_vars PROVE TypeOK'
  OBVIOUS
<1> DEFINE Auth  == /\ sessions' \in [Tokens -> Session \cup {None}] /\ active' \subseteq Agents
                    /\ now' \in Nat /\ kdf' \in Nat /\ hashes' \in [Agents -> Nat \cup {None}]
           Store == /\ values' \in [Tenants -> [Settings -> Int]] /\ audit' \in [Tenants -> Seq(Row)]
                    /\ DOMAIN locks' = Tenants \X Settings
           Logos == logos' \in [Tenants -> [kind : Images, by : Agents] \cup {None}]
<1>1. UNCHANGED auth => Auth
  BY DEF auth, people, TypeOK
<1>2. UNCHANGED store => Store
  BY DEF store, TypeOK
<1>2a. UNCHANGED logos => Logos
  BY DEF TypeOK
<1>3. req' = req => req' \in [Requests -> Request]
  BY DEF TypeOK
<1>4. \A r \in Requests : Answered(r) => req' \in [Requests -> Request]
  BY IdleType, RequestType DEF Answered
<1>5. CASE UNCHANGED vars
  BY <1>5, <1>1, <1>2, <1>3, <1>2a DEF vars, auth, people, store, TypeOK
<1>6. ASSUME NEW a \in Agents, CreateAgent(a) \/ Suspend(a) PROVE TypeOK'
  BY <1>6, <1>2, <1>3, <1>2a DEF CreateAgent, Suspend, TypeOK, Hashable
<1>7. ASSUME NEW n \in WorkFactors, Reconfigure(n) PROVE TypeOK'
  BY <1>7, <1>2, <1>3, ConsoleAssumption, <1>2a DEF Reconfigure, TypeOK
<1>8. CASE Tick
  BY <1>8, <1>2, <1>3, <1>2a DEF Tick, people, TypeOK
<1>9. ASSUME NEW r \in Requests, Handle(r) PROVE TypeOK'
  <2>1. ASSUME NEW a \in Agents, LoginResolves(r, a) PROVE TypeOK'
    <3>1. [Idle EXCEPT !.at = "verify", !.agent = a] \in Request
      BY IdleType DEF Request
    <3> QED
      BY <2>1, <3>1, <1>1, <1>2, RequestType, <1>2a DEF LoginResolves, TypeOK
  <2>2. CASE LoginVerifies(r)
    <3>1. ASSUME NEW k \in Tokens PROVE
             [sessions EXCEPT ![k] = [tenant |-> AgentTenant[req[r].agent], agent |-> req[r].agent,
                                      expires |-> now + TTL, revoked |-> None]]
                 \in [Tokens -> Session \cup {None}]
      <4>1. req[r].agent \in Agents
        BY <2>2 DEF LoginVerifies, RequestOK, At
      <4>2. now + TTL \in Nat /\ AgentTenant[req[r].agent] \in Tenants
        BY <4>1, ConsoleAssumption DEF TypeOK
      <4> QED
        BY <4>1, <4>2 DEF TypeOK, Session
    <3>2. Cardinality(Issued) \in Nat
      <4>1. IsFiniteSet(Tokens)
        BY FS_Interval, ConsoleAssumption DEF Tokens
      <4> QED
        BY <4>1, FS_Subset, FS_CardinalityType DEF Issued
    <3>3. sessions' \in [Tokens -> Session \cup {None}]
      <4>1. Cardinality(Issued) < MaxTokens => Cardinality(Issued) + 1 \in Tokens
        BY <3>2, ConsoleAssumption DEF Tokens
      <4> QED
        BY <2>2, <3>1, <4>1 DEF LoginVerifies, TypeOK
    <3> QED
      BY <2>2, <3>3, <1>2, <1>4, <1>2a DEF LoginVerifies, people, TypeOK
  <2>3. ASSUME NEW k \in Tokens, NEW t \in Tenants, NEW purpose \in {"logout", "put", "logo", "clear"},
               Authenticate(r, k, t, purpose)
        PROVE  TypeOK'
    <3>1. sessions[k] \in Session /\ Resolve(k) = sessions[k] /\ k \in Nat
      BY <2>3 DEF Authenticate, Resolve, Issued, TypeOK, Tokens
    <3>2. [Idle EXCEPT !.at = purpose, !.token = IF purpose = "logout" THEN k ELSE 0,
                       !.tenant = PrincipalTenant(Resolve(k), t), !.agent = Resolve(k).agent]
              \in Request
      BY <3>1, IdleType DEF Session, Request, PrincipalTenant, Actors
    <3> QED
      BY <2>3, <3>2, <1>1, <1>2, RequestType, <1>2a DEF Authenticate, TypeOK
  <2>4. CASE Logout(r)
    <3>1. sessions' \in [Tokens -> Session \cup {None}]
      <4>1. req[r].token \in Issued
        BY <2>4 DEF Logout, RequestOK, At
      <4>2. sessions[req[r].token] \in Session
        BY <4>1 DEF Issued, TypeOK
      <4>3. [sessions[req[r].token] EXCEPT !.revoked = IF @ = None THEN now ELSE @] \in Session
        BY <4>2 DEF Session, TypeOK
      <4> QED
        BY <2>4, <4>3 DEF Logout, TypeOK
    <3> QED
      BY <2>4, <3>1, <1>2, <1>4, <1>2a DEF Logout, people, TypeOK
  <2>5. ASSUME NEW changes \in Changes, PutReads(r, changes) PROVE TypeOK'
    <3>1. req[r].tenant \in Tenants
      BY <2>5, ConsoleAssumption DEF PutReads, RequestOK, At, Actors
    <3>2. [req[r] EXCEPT !.at = "write", !.changes = changes, !.old = Effective(req[r].tenant),
                         !.since = Len(audit[req[r].tenant])] \in Request
      <4>1. /\ req[r] \in Request /\ Effective(req[r].tenant) \in [Settings -> Int]
            /\ Len(audit[req[r].tenant]) \in Nat
        BY <3>1, LenProperties DEF TypeOK, Effective
      <4> QED
        BY <4>1 DEF Request, Actors
    <3>3. req' \in [Requests -> Request]
      <4>1. CASE InBounds(changes)
        <5>1. req' = [req EXCEPT ![r] = [req[r] EXCEPT !.at = "write", !.changes = changes,
                                                       !.old = Effective(req[r].tenant),
                                                       !.since = Len(audit[req[r].tenant])]]
          BY <2>5, <4>1, PutReadsShape
        <5> QED
          BY <5>1, <3>2, RequestType
      <4>2. CASE ~InBounds(changes)
        BY <2>5, <4>2, <1>4 DEF PutReads
      <4> QED
        BY <4>1, <4>2
    <3> QED
      BY <2>5, <3>3, <1>1, <1>2, <1>2a DEF PutReads, TypeOK
  <2>6. CASE Upsert(r)
    <3>1. [req[r] EXCEPT !.done = @ + 1] \in Request
      <4>1. req[r] \in Request /\ req[r].done + 1 \in Nat
        BY DEF TypeOK, Request
      <4> QED
        BY <4>1 DEF Request
    <3>2. req' = [req EXCEPT ![r] = [req[r] EXCEPT !.done = @ + 1]]
      BY <2>6 DEF Upsert
    <3> QED
      BY <2>6, <3>1, <3>2, <1>1, RequestType, <1>2a DEF Upsert, TypeOK
  <2>7. CASE Commit(r)
    <3>1. req[r].tenant \in Tenants /\ req[r].at = "write"
      BY <2>7, ConsoleAssumption DEF Commit, RequestOK, At, Actors
    <3>2. audit' \in [Tenants -> Seq(Row)]
      <4>1. audit[req[r].tenant] \o AuditOf(r) \in Seq(Row)
        BY <3>1, AuditOfType, ConcatProperties DEF TypeOK
      <4> QED
        BY <2>7, <4>1 DEF Commit, TypeOK
    <3>3. values' \in [Tenants -> [Settings -> Int]]
      <4> DEFINE c == req[r].changes
      <4>1. c \in Seq(Settings \X Int) /\ DOMAIN c = 1 .. Len(c)
        BY <3>1, AuditOfType, LenProperties
      <4>2. ASSUME NEW s \in Settings, Named(c, s) # {} PROVE Sent(c, s) \in Int
        <5>1. PICK i \in DOMAIN c : Sent(c, s) = c[i][2]
          BY <4>2 DEF Sent, Named
        <5>2. c[i] \in Settings \X Int
          BY <4>1, <5>1, ElementOfSeq
        <5> QED
          BY <5>1, <5>2
      <4>3. Applied(values[req[r].tenant], c) \in [Settings -> Int]
        BY <3>1, <4>2 DEF Applied, TypeOK
      <4> QED
        BY <2>7, <4>3 DEF Commit, TypeOK
    <3> QED
      BY <2>7, <3>2, <3>3, <1>1, <1>4, <1>2a DEF Commit, Released, TypeOK
  <2>8. CASE Aborts(r)
    BY <2>8, <1>1, <1>4, <1>2a DEF Aborts, Released, TypeOK
  <2>9. CASE ClearLogo(r) \/ \E upload \in Uploads : SetLogo(r, upload)
    <3>1. req[r].agent \in Agents
      BY <2>9 DEF ClearLogo, SetLogo, RequestOK, At, Actors
    <3>2. Logos
      <4>1. CASE ClearLogo(r)
        BY <4>1 DEF ClearLogo, TypeOK
      <4>2. ASSUME NEW upload \in Uploads, SetLogo(r, upload) PROVE Logos
        <5>1. CASE Sniffed(upload)
          <6>1. [kind |-> upload.kind, by |-> req[r].agent] \in [kind : Images, by : Agents]
            BY <3>1, <5>1 DEF Sniffed
          <6> QED
            BY <4>2, <5>1, <6>1 DEF SetLogo, TypeOK
        <5>2. CASE ~Sniffed(upload)
          BY <4>2, <5>2 DEF SetLogo, TypeOK
        <5> QED
          BY <5>1, <5>2
      <4> QED
        BY <2>9, <4>1, <4>2
    <3> QED
      BY <2>9, <1>1, <1>2, <1>4, <3>2 DEF ClearLogo, SetLogo, TypeOK
  <2> QED
    BY <1>9, <2>1, <2>2, <2>3, <2>4, <2>5, <2>6, <2>7, <2>8, <2>9 DEF Handle
<1> QED
  BY <1>5, <1>6, <1>7, <1>8, <1>9 DEF Next
-----------------------------------------------------------------------------
\* A request that does not change req keeps its rights while no session is lost.
LEMMA RightsKept ==
    ASSUME RequestOK, Issued \subseteq Issued', NEW r \in Requests, req'[r] = req[r]
    PROVE  /\ At(r, Actors)' => req'[r].agent \in Agents /\ req'[r].tenant = AgentTenant[req'[r].agent]
           /\ At(r, {"verify"})' => req'[r].agent \in Agents
           /\ At(r, {"logout"})' => req'[r].token \in Issued'
           /\ At(r, {"write"})' => req'[r].changes \in Changes /\ InBounds(req'[r].changes)
  BY DEF RequestOK, At

LEMMA RightsOfIdle ==
    ASSUME TypeOK, RequestOK, Issued \subseteq Issued', NEW r \in Requests, Answered(r)
    PROVE  RequestOK'
<1> SUFFICES ASSUME NEW q \in Requests
             PROVE  /\ At(q, Actors)' => req'[q].agent \in Agents
                                         /\ req'[q].tenant = AgentTenant[req'[q].agent]
                    /\ At(q, {"verify"})' => req'[q].agent \in Agents
                    /\ At(q, {"logout"})' => req'[q].token \in Issued'
                    /\ At(q, {"write"})' => req'[q].changes \in Changes /\ InBounds(req'[q].changes)
  BY DEF RequestOK
<1>1. CASE q = r
  BY <1>1, AnsweredIsIdle DEF At, Actors
<1>2. CASE q # r
  BY <1>2, AnsweredIsIdle, RightsKept
<1> QED
  BY <1>1, <1>2

LEMMA RightsStep == TypeOK /\ SessionOK /\ RequestOK /\ [Next]_vars => SessionOK' /\ RequestOK'
<1> SUFFICES ASSUME TypeOK, SessionOK, RequestOK, [Next]_vars PROVE SessionOK' /\ RequestOK'
  OBVIOUS
<1>1. sessions' = sessions => SessionOK' /\ Issued' = Issued
  BY DEF SessionOK, Issued
<1>2. sessions' = sessions /\ req' = req => RequestOK'
  BY <1>1, RightsKept DEF RequestOK
<1>3. CASE UNCHANGED vars
  BY <1>3, <1>1, <1>2 DEF vars
<1>4. CASE Tick \/ (\E a \in Agents : CreateAgent(a) \/ Suspend(a)) \/ \E n \in WorkFactors : Reconfigure(n)
  BY <1>4, <1>1, <1>2 DEF Tick, CreateAgent, Suspend, Reconfigure
<1>5. ASSUME NEW r \in Requests, Handle(r) PROVE SessionOK' /\ RequestOK'
  <2> DEFINE Others == \A q \in Requests \ {r} : req'[q] = req[q]
  <2>1. ASSUME NEW a \in Agents, LoginResolves(r, a) PROVE SessionOK' /\ RequestOK'
    <3>1. Others /\ req'[r].at = "verify" /\ req'[r].agent = a /\ sessions' = sessions
      BY <2>1 DEF LoginResolves, auth, TypeOK, Idle
    <3>2. Issued \subseteq Issued'
      BY <3>1 DEF Issued
    <3>3. \A q \in Requests \ {r} : req'[q] = req[q]
      BY <3>1
    <3> QED
      BY <3>1, <3>2, <3>3, <1>1, RightsKept DEF RequestOK, At, Actors
  <2>2. CASE LoginVerifies(r)
    <3>1. req[r].agent \in Agents
      BY <2>2 DEF LoginVerifies, RequestOK, At
    <3> DEFINE s == [tenant |-> AgentTenant[req[r].agent], agent |-> req[r].agent,
                     expires |-> now + TTL, revoked |-> None]
    <3>2. s \in Session /\ s # None
      BY <3>1, ConsoleAssumption DEF Session, TypeOK
    <3>3. \/ sessions' = sessions
          \/ \E k : sessions' = [sessions EXCEPT ![k] = s]
      BY <2>2 DEF LoginVerifies
    <3>4. Issued \subseteq Issued' /\ SessionOK'
      <4>1. s.tenant = AgentTenant[s.agent]
        OBVIOUS
      <4> HIDE DEF s
      <4> QED
        BY <3>2, <3>3, <4>1 DEF Issued, SessionOK, TypeOK
    <3> QED
      BY <2>2, <3>4, RightsOfIdle DEF LoginVerifies
  <2>3. ASSUME NEW k \in Tokens, NEW t \in Tenants, NEW purpose \in {"logout", "put", "logo", "clear"},
               Authenticate(r, k, t, purpose)
        PROVE  SessionOK' /\ RequestOK'
    <3>1. k \in Issued /\ Resolve(k) = sessions[k] /\ sessions' = sessions
      BY <2>3 DEF Authenticate, Resolve, auth
    <3>2. Others /\ req'[r] = [Idle EXCEPT !.at = purpose,
                 !.token = IF purpose = "logout" THEN k ELSE 0,
                 !.tenant = PrincipalTenant(sessions[k], t), !.agent = sessions[k].agent]
      BY <2>3, <3>1 DEF Authenticate, TypeOK
    <3>3. /\ req'[r].at = purpose /\ (purpose = "logout" => req'[r].token = k)
          /\ req'[r].tenant = sessions[k].tenant /\ req'[r].agent = sessions[k].agent
      BY <3>2 DEF Idle, PrincipalTenant
    <3>4. sessions[k].agent \in Agents /\ sessions[k].tenant = AgentTenant[sessions[k].agent]
      BY <3>1 DEF SessionOK, Issued, TypeOK, Session
    <3>5. Issued' = Issued /\ \A q \in Requests \ {r} : req'[q] = req[q]
      BY <3>1, <3>2 DEF Issued
    <3> QED
      BY <3>1, <3>3, <3>4, <3>5, <1>1, RightsKept DEF RequestOK, At, Actors
  <2>4. CASE Logout(r)
    <3> DEFINE k == req[r].token
    <3>1. k \in Issued /\ sessions[k] \in Session
      BY <2>4 DEF Logout, RequestOK, At, Issued, TypeOK
    <3> DEFINE s == [sessions[k] EXCEPT !.revoked = IF @ = None THEN now ELSE @]
    <3>2. s \in Session /\ s # None /\ s.tenant = sessions[k].tenant /\ s.agent = sessions[k].agent
      BY <3>1, ConsoleAssumption DEF Session, TypeOK
    <3>3. sessions' = [sessions EXCEPT ![k] = s]
      BY <2>4 DEF Logout
    <3> HIDE DEF s, k
    <3>4. Issued \subseteq Issued' /\ SessionOK'
      BY <3>1, <3>2, <3>3 DEF Issued, SessionOK, TypeOK
    <3> QED
      BY <2>4, <3>4, RightsOfIdle DEF Logout
  <2>5. ASSUME NEW changes \in Changes, PutReads(r, changes) PROVE SessionOK' /\ RequestOK'
    <3>1. sessions' = sessions /\ Issued' = Issued
      BY <2>5 DEF PutReads, auth, Issued
    <3>2. CASE ~InBounds(changes)
      BY <2>5, <3>1, <3>2, <1>1, RightsOfIdle DEF PutReads
    <3>3. CASE InBounds(changes)
      <4>1. req[r] \in Request /\ req[r].at = "put"
        BY <2>5 DEF PutReads, TypeOK
      <4>2. /\ \A q \in Requests \ {r} : req'[q] = req[q]
            /\ req'[r].at = "write" /\ req'[r].changes = changes
            /\ req'[r].agent = req[r].agent /\ req'[r].tenant = req[r].tenant
        BY <2>5, <3>3, PutReadsShape
      <4> QED
        BY <3>1, <3>3, <4>1, <4>2, <1>1, RightsKept DEF RequestOK, At, Actors
    <3> QED
      BY <3>2, <3>3
  <2>6. CASE Upsert(r)
    <3>1. sessions' = sessions /\ Issued' = Issued
      BY <2>6 DEF Upsert, auth, Issued
    <3>2. req[r] \in Request
      BY DEF TypeOK
    <3>3. /\ \A q \in Requests \ {r} : req'[q] = req[q]
          /\ req'[r].at = req[r].at /\ req'[r].changes = req[r].changes /\ req'[r].token = req[r].token
          /\ req'[r].agent = req[r].agent /\ req'[r].tenant = req[r].tenant
      BY <2>6, <3>2 DEF Upsert, TypeOK, Request
    <3> QED
      BY <3>1, <3>3, <1>1, RightsKept DEF RequestOK, At
  <2>7. CASE Commit(r) \/ Aborts(r) \/ ClearLogo(r) \/ \E upload \in Uploads : SetLogo(r, upload)
    BY <2>7, <1>1, RightsOfIdle DEF Commit, Aborts, ClearLogo, SetLogo, auth
  <2> QED
    BY <1>5, <2>1, <2>2, <2>3, <2>4, <2>5, <2>6, <2>7 DEF Handle
<1> QED
  BY <1>3, <1>4, <1>5 DEF Next
-----------------------------------------------------------------------------
\* Nobody is known who was not, but by being given a hash at the floor or above.
LEMMA KnownStep ==
    ASSUME TypeOK, RequestOK, [Next]_vars
    PROVE  /\ \A a \in Known' : a \in Known \/ Hashable(hashes'[a])
           /\ \A a \in Agents : Hashable(hashes[a]) => Hashable(hashes'[a])
<1> DEFINE Kept  == \A a \in Known' : a \in Known \/ Hashable(hashes'[a])
           Acts(q) == At(q, Actors \cup {"verify"})
<1>1. UNCHANGED hashes \/ (\E a \in Agents : CreateAgent(a))
  BY DEF Next, vars, Handle, LoginResolves, LoginVerifies, Authenticate, Logout, PutReads, Upsert,
         Commit, Aborts, SetLogo, ClearLogo, Suspend, Reconfigure, Tick, auth, people
<1>2. \A a \in Agents : Hashable(hashes[a]) => Hashable(hashes'[a])
  BY <1>1 DEF CreateAgent, TypeOK
<1>3. ASSUME active' \subseteq active, UNCHANGED sessions,
             \A q \in Requests : Acts(q)' => Acts(q) /\ req'[q].agent = req[q].agent
      PROVE  Kept
  BY <1>3 DEF Known, Issued
<1>4. ASSUME NEW r \in Requests, Answered(r) PROVE
             \A q \in Requests : Acts(q)' => Acts(q) /\ req'[q].agent = req[q].agent
  BY <1>4, AnsweredIsIdle DEF At, Actors
<1>5. CASE UNCHANGED vars \/ Tick \/ (\E a \in Agents : Suspend(a)) \/ \E n \in WorkFactors : Reconfigure(n)
  BY <1>5, <1>3 DEF vars, Tick, Suspend, Reconfigure, people, At
<1>6. ASSUME NEW a \in Agents, CreateAgent(a) PROVE Kept
  <2>1. hashes'[a] = kdf /\ Hashable(kdf)
    BY <1>6 DEF CreateAgent, TypeOK
  <2> QED
    BY <1>6, <2>1 DEF CreateAgent, Known, Issued, At
<1>7. ASSUME NEW r \in Requests, Handle(r) PROVE Kept
  <2>1. ASSUME NEW a \in Agents, LoginResolves(r, a) PROVE Kept
    <3>1. /\ a \in active /\ req'[r].agent = a /\ UNCHANGED <<active, sessions>>
          /\ \A q \in Requests \ {r} : req'[q] = req[q]
      BY <2>1 DEF LoginResolves, auth, people, TypeOK, Idle
    <3> QED
      BY <3>1 DEF Known, Issued, At
  <2>2. CASE LoginVerifies(r)
    <3>1. At(r, {"verify"}) /\ active' = active
      BY <2>2 DEF LoginVerifies, At, people
    <3>2. \A k \in Issued' : \/ sessions'[k].agent = req[r].agent
                             \/ k \in Issued /\ sessions'[k] = sessions[k]
      BY <2>2 DEF LoginVerifies, Issued, TypeOK
    <3>3. \A q \in Requests : Acts(q)' => Acts(q) /\ req'[q].agent = req[q].agent
      BY <2>2, <1>4 DEF LoginVerifies
    <3> QED
      BY <3>1, <3>2, <3>3 DEF Known, At
  <2>3. ASSUME NEW k \in Tokens, NEW t \in Tenants, NEW purpose \in {"logout", "put", "logo", "clear"},
               Authenticate(r, k, t, purpose)
        PROVE  Kept
    <3>1. k \in Issued /\ Resolve(k) = sessions[k] /\ UNCHANGED <<active, sessions>>
      BY <2>3 DEF Authenticate, Resolve, auth, people
    <3>2. req'[r].agent = sessions[k].agent /\ \A q \in Requests \ {r} : req'[q] = req[q]
      BY <2>3, <3>1 DEF Authenticate, TypeOK, Idle
    <3> QED
      BY <3>1, <3>2 DEF Known, Issued, At
  <2>4. CASE Logout(r)
    <3>1. req[r].token \in Issued
      BY <2>4 DEF Logout, RequestOK, At
    <3>2. sessions[req[r].token] \in Session
      BY <3>1 DEF Issued, TypeOK
    <3>3. \A k \in Issued' : k \in Issued /\ sessions'[k].agent = sessions[k].agent
      BY <2>4, <3>1, <3>2 DEF Logout, Issued, TypeOK, Session
    <3>4. \A q \in Requests : Acts(q)' => Acts(q) /\ req'[q].agent = req[q].agent
      BY <2>4, <1>4 DEF Logout
    <3>5. active' = active
      BY <2>4 DEF Logout, people
    <3> QED
      BY <3>3, <3>4, <3>5 DEF Known
  <2>5. ASSUME NEW changes \in Changes, PutReads(r, changes) PROVE Kept
    <3>1. UNCHANGED <<active, sessions>> /\ Acts(r)
      BY <2>5 DEF PutReads, auth, people, At, Actors
    <3>2. \A q \in Requests : Acts(q)' => Acts(q) /\ req'[q].agent = req[q].agent
      <4>1. CASE InBounds(changes)
        BY <2>5, <3>1, <4>1, PutReadsShape DEF At
      <4>2. CASE ~InBounds(changes)
        BY <2>5, <4>2, <1>4 DEF PutReads
      <4> QED
        BY <4>1, <4>2
    <3> QED
      BY <3>1, <3>2, <1>3
  <2>6. CASE Upsert(r)
    <3>1. req[r] \in Request /\ UNCHANGED <<active, sessions>>
      BY <2>6 DEF TypeOK, Upsert, auth, people
    <3>2. /\ \A q \in Requests \ {r} : req'[q] = req[q]
          /\ req'[r].at = req[r].at /\ req'[r].agent = req[r].agent
      BY <2>6, <3>1 DEF Upsert, TypeOK, Request
    <3> QED
      BY <3>1, <3>2, <1>3 DEF At
  <2>7. CASE Commit(r) \/ Aborts(r) \/ ClearLogo(r) \/ \E upload \in Uploads : SetLogo(r, upload)
    BY <2>7, <1>3, <1>4 DEF Commit, Aborts, ClearLogo, SetLogo, auth, people
  <2> QED
    BY <1>7, <2>1, <2>2, <2>3, <2>4, <2>5, <2>6, <2>7 DEF Handle
<1>8. Kept
  BY <1>5, <1>6, <1>7 DEF Next
<1> QED
  BY <1>2, <1>8

LEMMA KnownAreAgents == TypeOK /\ RequestOK => Known \subseteq Agents
  BY DEF TypeOK, RequestOK, Known, Issued, Session, At

LEMMA HashesStep == TypeOK /\ RequestOK /\ HashesOK /\ [Next]_vars => HashesOK'
  BY KnownStep, KnownAreAgents DEF HashesOK
-----------------------------------------------------------------------------
(***************************************************************************)
(* Rows added at the end of an audit: a setting's earlier rows stay where   *)
(* they are, and one of the new ones is the setting's last.                 *)
(***************************************************************************)
LEMMA LogGrows ==
    ASSUME NEW log \in Seq(Row), NEW more \in Seq(Row)
    PROVE  /\ log \o more \in Seq(Row) /\ Len(log) \in Nat
           /\ DOMAIN log = 1 .. Len(log) /\ DOMAIN more = 1 .. Len(more)
           /\ DOMAIN (log \o more) = 1 .. (Len(log) + Len(more))
           /\ \A i \in DOMAIN log : i \in DOMAIN (log \o more) /\ (log \o more)[i] = log[i]
           /\ \A i \in DOMAIN more : Len(log) + i \in DOMAIN (log \o more)
                                     /\ (log \o more)[Len(log) + i] = more[i]
           /\ \A i \in DOMAIN (log \o more) :
                 i \in DOMAIN log \/ \E k \in DOMAIN more : i = Len(log) + k
<1>1. /\ log \o more \in Seq(Row) /\ Len(log \o more) = Len(log) + Len(more)
      /\ \A i \in 1 .. Len(log) + Len(more) :
            (log \o more)[i] = IF i <= Len(log) THEN log[i] ELSE more[i - Len(log)]
  BY ConcatProperties
<1>2. /\ Len(log) \in Nat /\ Len(more) \in Nat
      /\ DOMAIN log = 1 .. Len(log) /\ DOMAIN more = 1 .. Len(more)
      /\ DOMAIN (log \o more) = 1 .. (Len(log) + Len(more))
  BY <1>1, LenProperties
<1>3. ASSUME NEW i \in DOMAIN more PROVE /\ Len(log) + i \in DOMAIN (log \o more)
                                         /\ (log \o more)[Len(log) + i] = more[i]
  <2>1. Len(log) + i \in 1 .. (Len(log) + Len(more)) /\ ~(Len(log) + i <= Len(log))
        /\ (Len(log) + i) - Len(log) = i
    BY <1>2
  <2> QED
    BY <1>1, <1>2, <2>1
<1>4. ASSUME NEW i \in DOMAIN log PROVE i \in DOMAIN (log \o more) /\ (log \o more)[i] = log[i]
  BY <1>1, <1>2
<1>5. ASSUME NEW i \in DOMAIN (log \o more), i \notin DOMAIN log
      PROVE  \E k \in DOMAIN more : i = Len(log) + k
  <2>1. i - Len(log) \in DOMAIN more /\ i = Len(log) + (i - Len(log))
    BY <1>2, <1>5
  <2> QED
    BY <2>1
<1> QED
  BY <1>1, <1>2, <1>3, <1>4, <1>5

LEMMA OldRowsStay ==
    ASSUME NEW log \in Seq(Row), NEW more \in Seq(Row), NEW s, NEW i \in DOMAIN log
    PROVE  /\ i \in RowsOf(log \o more, s) <=> i \in RowsOf(log, s)
           /\ {j \in RowsOf(log \o more, s) : j < i} = {j \in RowsOf(log, s) : j < i}
<1>1. \A j \in DOMAIN log : j \in RowsOf(log \o more, s) <=> j \in RowsOf(log, s)
  BY LogGrows DEF RowsOf
<1>2. \A j \in RowsOf(log \o more, s) : j < i => j \in DOMAIN log
  <2>1. \A j \in DOMAIN (log \o more) : j < i => j \in DOMAIN log
    BY LogGrows
  <2> QED
    BY <2>1 DEF RowsOf
<1>3. RowsOf(log, s) \subseteq DOMAIN log
  BY DEF RowsOf
<1> QED
  BY <1>1, <1>2, <1>3

LEMMA LeavesStays ==
    ASSUME NEW log \in Seq(Row), NEW more \in Seq(Row), NEW rows \in SUBSET DOMAIN log,
           NEW s, NEW v, Leaves(log, rows, s, v)
    PROVE  Leaves(log \o more, rows, s, v)
  BY LogGrows DEF Leaves

\* What the first n rows leave, they leave.
LEMMA PrefixLeaves ==
    ASSUME NEW log \in Seq(Row), NEW more \in Seq(Row), NEW s, NEW v, NEW n \in Nat, n <= Len(log),
           Leaves(log, {j \in RowsOf(log, s) : j <= n}, s, v)
    PROVE  Leaves(log \o more, {j \in RowsOf(log \o more, s) : j <= n}, s, v)
<1> DEFINE rows == {j \in RowsOf(log, s) : j <= n}
<1>1. \A j \in DOMAIN (log \o more) : j <= n => j \in DOMAIN log
  BY LogGrows
<1>2. {j \in RowsOf(log \o more, s) : j <= n} = rows
  BY <1>1, LogGrows, OldRowsStay DEF RowsOf
<1>3. rows \in SUBSET DOMAIN log
  BY DEF RowsOf
<1> HIDE DEF rows
<1>4. Leaves(log, rows, s, v)
  BY DEF rows
<1> QED
  BY <1>2, <1>3, <1>4, LeavesStays

\* A setting no new row is about.
LEMMA UntouchedSetting ==
    ASSUME NEW log \in Seq(Row), NEW more \in Seq(Row), NEW s, NEW v,
           \A k \in DOMAIN more : more[k].setting # s,
           Leaves(log, RowsOf(log, s), s, v)
    PROVE  Leaves(log \o more, RowsOf(log \o more, s), s, v)
<1>1. RowsOf(log, s) \subseteq DOMAIN log
  BY DEF RowsOf
<1>2. RowsOf(log \o more, s) = RowsOf(log, s)
  BY <1>1, LogGrows, OldRowsStay DEF RowsOf
<1> QED
  BY <1>1, <1>2, LeavesStays

\* A setting one new row is about: the row ends its history, and starts where it stood.
LEMMA TouchedSetting ==
    ASSUME NEW log \in Seq(Row), NEW more \in Seq(Row), NEW s, NEW k \in DOMAIN more,
           more[k].setting = s, \A l \in DOMAIN more : more[l].setting = s => l = k
    PROVE  /\ Leaves(log \o more, RowsOf(log \o more, s), s, more[k].new)
           /\ {j \in RowsOf(log \o more, s) : j < Len(log) + k} = RowsOf(log, s)
<1> DEFINE new == Len(log) + k
<1>1. new \in RowsOf(log \o more, s) /\ (log \o more)[new] = more[k]
  BY LogGrows DEF RowsOf
<1>2. \A j \in RowsOf(log \o more, s) : j \in RowsOf(log, s) \/ j = new
  <2> SUFFICES ASSUME NEW j \in RowsOf(log \o more, s), j \notin DOMAIN log PROVE j = new
    BY OldRowsStay
  <2>0. j \in DOMAIN (log \o more)
    BY DEF RowsOf
  <2>1. PICK l \in DOMAIN more : j = Len(log) + l
    BY <2>0, LogGrows
  <2>2. more[l].setting = s
    BY <2>1, LogGrows DEF RowsOf
  <2> QED
    BY <2>1, <2>2
<1>3. \A j \in RowsOf(log, s) : j \in RowsOf(log \o more, s) /\ j < new
  BY LogGrows, OldRowsStay DEF RowsOf
<1>4. new \in Int
  BY LogGrows
<1> HIDE DEF new
<1>5. \A j \in RowsOf(log \o more, s) : j <= new
  BY <1>2, <1>3, <1>4, LogGrows DEF RowsOf
<1>6. {j \in RowsOf(log \o more, s) : j < new} = RowsOf(log, s)
  BY <1>2, <1>3, <1>4
<1> QED
  BY <1>1, <1>5, <1>6 DEF Leaves, new
-----------------------------------------------------------------------------
History == AuditEndsAtTheValue /\ AuditChains

LEMMA HistoryStays == UNCHANGED <<values, audit>> /\ History => History'
<1> SUFFICES ASSUME UNCHANGED <<values, audit>>, History PROVE History'
  OBVIOUS
<1>1. AuditEndsAtTheValue'
  BY DEF History, AuditEndsAtTheValue
<1>2. AuditChains'
  BY DEF History, AuditChains
<1> QED
  BY <1>1, <1>2 DEF History

\* No request that was not writing begins to.
NoNewPut == \A q \in Requests : At(q, {"write"})' =>
    /\ At(q, {"write"}) /\ req'[q].old = req[q].old /\ req'[q].tenant = req[q].tenant
    /\ req'[q].since = req[q].since

LEMMA OldStays == OldOK /\ NoNewPut /\ UNCHANGED audit => OldOK'
  BY DEF OldOK, ReadOK, NoNewPut

LEMMA AnsweredIsNoPut == ASSUME TypeOK, NEW r \in Requests, Answered(r) PROVE NoNewPut
  BY AnsweredIsIdle DEF NoNewPut, At

LEMMA CommitHistory ==
    ASSUME Inv, TypeOK', NEW r \in Requests, Commit(r)
    PROVE  History' /\ OldOK'
<1> DEFINE t == req[r].tenant
           c == req[r].changes
           log == audit[t]
           more == AuditOf(r)
<1>1. /\ t \in Tenants /\ At(r, {"write"}) /\ req[r].agent \in Agents /\ t = AgentTenant[req[r].agent]
      /\ TypeOK /\ RequestOK /\ OldOK /\ req[r].old \in [Settings -> Int]
  <2>1. At(r, {"write"}) /\ TypeOK /\ RequestOK /\ OldOK
    BY DEF Commit, Inv, At
  <2>2. req[r].agent \in Agents /\ t = AgentTenant[req[r].agent]
    BY <2>1 DEF RequestOK, At, Actors
  <2>3. t \in Tenants
    BY <2>2, ConsoleAssumption
  <2>4. req[r].old \in [Settings -> Int]
    BY <2>1 DEF TypeOK, Request
  <2> QED
    BY <2>1, <2>2, <2>3, <2>4
<1>2. /\ log \in Seq(Row) /\ more \in Seq(Row) /\ Len(more) = Len(c)
      /\ c \in Seq(Settings \X Int)
      /\ \A i \in DOMAIN more : more[i] = [setting |-> c[i][1], old |-> req[r].old[c[i][1]],
                                           new |-> c[i][2], agent |-> req[r].agent,
                                           since |-> req[r].since]
  BY <1>1, AuditOfType DEF TypeOK, At
<1>3. DOMAIN more = DOMAIN c
  BY <1>2, LenProperties
<1>4. /\ audit' = [audit EXCEPT ![t] = log \o more]
      /\ values' = [values EXCEPT ![t] = Applied(values[t], c)]
      /\ Answered(r)
  BY DEF Commit
<1>5. /\ audit'[t] = log \o more /\ values'[t] = Applied(values[t], c)
      /\ \A u \in Tenants \ {t} : audit'[u] = audit[u] /\ values'[u] = values[u]
  BY <1>1, <1>4 DEF TypeOK
<1>6. \A i, j \in DOMAIN c : c[i][1] = c[j][1] => i = j
  <2>1. c \in Changes
    BY <1>1 DEF RequestOK
  <2> QED
    BY <2>1, ConsoleAssumption
<1> HIDE DEF t, c, log, more
<1>6a. /\ \A i \in DOMAIN log : (log \o more)[i] = log[i]
      /\ \A i \in DOMAIN (log \o more) :
            i \in DOMAIN log \/ \E k \in DOMAIN more : i = Len(log) + k /\ (log \o more)[i] = more[k]
  <2>1. log \in Seq(Row) /\ more \in Seq(Row)
    BY <1>2
  <2> QED
    BY ONLY <2>1, LogGrows
<1>8. \A s \in Settings : Leaves(log, RowsOf(log, s), s, values[t][s])
  BY <1>1 DEF Inv, AuditEndsAtTheValue, log, t
<1>9. ASSUME NEW s \in Settings, NEW k \in DOMAIN more, more[k].setting = s
      PROVE  /\ \A l \in DOMAIN more : more[l].setting = s => l = k
             /\ Applied(values[t], c)[s] = more[k].new
             /\ more[k].old = req[r].old[s]
  <2>1. \A l \in DOMAIN more : more[l].setting = c[l][1] /\ more[l].new = c[l][2]
                               /\ more[l].old = req[r].old[c[l][1]]
    BY <1>2
  <2>2. Named(c, s) = {k}
    BY <1>3, <1>6, <1>9, <2>1 DEF Named
  <2>3. Sent(c, s) = c[k][2]
    BY <2>2 DEF Sent
  <2> QED
    BY <1>3, <1>6, <1>9, <2>1, <2>2, <2>3 DEF Applied
<1>10. ASSUME NEW s \in Settings, \A k \in DOMAIN more : more[k].setting # s
       PROVE  Applied(values[t], c)[s] = values[t][s]
  <2>1. Named(c, s) = {}
    BY <1>2, <1>3, <1>10 DEF Named
  <2> QED
    BY <2>1 DEF Applied
<1>11. AuditEndsAtTheValue'
  <2> SUFFICES ASSUME NEW u \in Tenants, NEW s \in Settings
               PROVE  Leaves(audit'[u], RowsOf(audit'[u], s), s, values'[u][s])
    BY DEF AuditEndsAtTheValue
  <2>1. CASE u # t
    BY <1>5, <2>1 DEF Inv, AuditEndsAtTheValue
  <2>2. CASE u = t /\ \A k \in DOMAIN more : more[k].setting # s
    BY <1>2, <1>5, <1>8, <1>10, <2>2, UntouchedSetting
  <2>3. ASSUME u = t, NEW k \in DOMAIN more, more[k].setting = s
        PROVE  Leaves(audit'[u], RowsOf(audit'[u], s), s, values'[u][s])
    <3>1. /\ \A l \in DOMAIN more : more[l].setting = s => l = k
          /\ Applied(values[t], c)[s] = more[k].new
      BY <1>9, <2>3
    <3>2. Leaves(log \o more, RowsOf(log \o more, s), s, more[k].new)
      BY <1>2, <2>3, <3>1, TouchedSetting
    <3> QED
      BY <1>5, <2>3, <3>1, <3>2
  <2> QED
    BY <2>1, <2>2, <2>3
<1>12. AuditChains'
  <2> SUFFICES ASSUME NEW u \in Tenants, NEW s \in Settings, NEW i \in RowsOf(audit'[u], s)
               PROVE  /\ audit'[u][i].since < i
                      /\ Leaves(audit'[u], {j \in RowsOf(audit'[u], s) : j <= audit'[u][i].since},
                                s, audit'[u][i].old)
    BY DEF AuditChains
  <2>1. CASE u # t
    BY <1>5, <2>1 DEF Inv, AuditChains
  <2>2. CASE u = t /\ i \in DOMAIN log
    <3>1. i \in RowsOf(log, s) /\ (log \o more)[i] = log[i] /\ i <= Len(log)
      <4>1. i \in RowsOf(log \o more, s)
        BY <1>5, <2>2
      <4> QED
        BY <1>2, <1>6a, <2>2, <4>1, OldRowsStay, LogGrows
    <3>2. log[i].since < i /\ Leaves(log, {j \in RowsOf(log, s) : j <= log[i].since}, s, log[i].old)
      BY <1>1, <3>1 DEF Inv, AuditChains, log
    <3>3. log[i].since \in Nat
      <4>1. log[i] \in Row
        BY <1>2, <2>2, ElementOfSeq, LenProperties
      <4> QED
        BY <4>1 DEF Row
    <3>4. log[i].since <= Len(log)
      <4>1. i \in Nat /\ Len(log) \in Nat
        BY <1>2, <2>2, LogGrows
      <4> QED
        BY <3>1, <3>2, <3>3, <4>1
    <3> DEFINE n == log[i].since
    <3>5. n \in Nat /\ n <= Len(log) /\ n < i
          /\ Leaves(log, {j \in RowsOf(log, s) : j <= n}, s, log[i].old)
      BY <3>2, <3>3, <3>4
    <3> HIDE DEF n
    <3>6. Leaves(log \o more, {j \in RowsOf(log \o more, s) : j <= n}, s, log[i].old)
      BY <1>2, <3>5, PrefixLeaves
    <3> QED
      BY <1>5, <2>2, <3>1, <3>5, <3>6 DEF n
  <2>3. CASE u = t /\ i \notin DOMAIN log
    <3>1. PICK k \in DOMAIN more : i = Len(log) + k /\ (log \o more)[i] = more[k]
      BY <1>5, <1>6a, <2>3 DEF RowsOf
    <3>2. more[k].setting = s /\ more[k].since = req[r].since
      <4>1. (log \o more)[i].setting = s
        BY <1>5, <2>3 DEF RowsOf
      <4>2. more[k].since = req[r].since
        BY <1>2
      <4> QED
        BY <3>1, <4>1, <4>2
    <3>3. more[k].old = req[r].old[s]
      BY <1>9, <3>2
    <3>4. /\ req[r].since \in Nat /\ req[r].since <= Len(log)
          /\ Leaves(log, {j \in RowsOf(log, s) : j <= req[r].since}, s, req[r].old[s])
      BY <1>1 DEF OldOK, ReadOK, TypeOK, Request, log, t
    <3>5. req[r].since < i
      BY <1>2, <3>1, <3>4, LogGrows
    <3>6. Leaves(log \o more, {j \in RowsOf(log \o more, s) : j <= req[r].since}, s, req[r].old[s])
      BY <1>2, <3>4, PrefixLeaves
    <3> QED
      BY <1>5, <2>3, <3>1, <3>2, <3>3, <3>5, <3>6
  <2> QED
    BY <2>1, <2>2, <2>3
<1>13. OldOK'
  <2>1. req'[r].at = "idle" /\ \A q \in Requests \ {r} : req'[q] = req[q]
    BY <1>1, <1>4, AnsweredIsIdle
  <2> SUFFICES ASSUME NEW q \in Requests, At(q, {"write"})' PROVE ReadOK(q)'
    BY DEF OldOK
  <2>2. q # r /\ At(q, {"write"}) /\ req'[q] = req[q]
    BY <2>1 DEF At
  <2>3. ReadOK(q) /\ req[q].tenant \in Tenants /\ req[q].since \in Nat
    <3>1. req[q] \in Request /\ ReadOK(q)
      BY <1>1, <2>2 DEF OldOK, TypeOK
    <3>2. req[q].agent \in Agents /\ req[q].tenant = AgentTenant[req[q].agent]
      BY <1>1, <2>2 DEF RequestOK, At, Actors
    <3> QED
      BY <3>1, <3>2, ConsoleAssumption DEF Request
  <2>4. CASE req[q].tenant # t
    BY <1>5, <2>2, <2>3, <2>4 DEF ReadOK
  <2>5. CASE req[q].tenant = t
    <3>1. req[q].since <= Len(log) /\ \A s \in Settings :
              Leaves(log, {j \in RowsOf(log, s) : j <= req[q].since}, s, req[q].old[s])
      BY <2>3, <2>5 DEF ReadOK, log
    <3>2. req[q].since <= Len(log \o more)
      BY <1>2, <2>3, <3>1, LogGrows, ConcatProperties, LenProperties
    <3>3. \A s \in Settings : Leaves(log \o more, {j \in RowsOf(log \o more, s) : j <= req[q].since},
                                    s, req[q].old[s])
      BY <1>2, <2>3, <3>1, PrefixLeaves
    <3> QED
      BY <1>5, <2>2, <2>5, <3>2, <3>3 DEF ReadOK
  <2> QED
    BY <2>4, <2>5
<1> QED
  BY <1>11, <1>12, <1>13 DEF History

LEMMA HistoryStep == Inv /\ TypeOK' /\ [Next]_vars => History' /\ OldOK'
<1> SUFFICES ASSUME Inv, TypeOK', [Next]_vars PROVE History' /\ OldOK'
  OBVIOUS
<1>1. TypeOK /\ RequestOK /\ OldOK /\ History
  BY DEF Inv, History
<1>2. UNCHANGED store /\ NoNewPut => History' /\ OldOK'
  BY <1>1, HistoryStays, OldStays DEF store
<1>3. CASE UNCHANGED <<store, req>>
  <2>1. NoNewPut
    BY <1>3 DEF NoNewPut, At
  <2> QED
    BY <1>2, <1>3, <2>1
<1>4. ASSUME NEW r \in Requests, Handle(r) PROVE History' /\ OldOK'
  <2>1. ASSUME Answered(r), UNCHANGED store PROVE History' /\ OldOK'
    BY <2>1, <1>1, <1>2, AnsweredIsNoPut
  <2>2. CASE LoginVerifies(r) \/ Logout(r) \/ ClearLogo(r) \/ \E upload \in Uploads : SetLogo(r, upload)
    BY <2>1, <2>2 DEF LoginVerifies, Logout, ClearLogo, SetLogo
  <2>3. CASE Aborts(r)
    BY <2>3, <1>1, AnsweredIsNoPut, OldStays, HistoryStays DEF Aborts
  <2>4. CASE Commit(r)
    BY <2>4, CommitHistory
  <2>5. ASSUME NEW a \in Agents, LoginResolves(r, a) PROVE History' /\ OldOK'
    <3>1. req'[r].at = "verify" /\ \A q \in Requests \ {r} : req'[q] = req[q]
      BY <2>5, <1>1 DEF LoginResolves, TypeOK, Idle
    <3>2. NoNewPut
      BY <3>1 DEF NoNewPut, At
    <3> QED
      BY <2>5, <3>2, <1>2 DEF LoginResolves
  <2>6. ASSUME NEW k \in Tokens, NEW t \in Tenants, NEW purpose \in {"logout", "put", "logo", "clear"},
               Authenticate(r, k, t, purpose)
        PROVE  History' /\ OldOK'
    <3>1. req'[r].at = purpose /\ \A q \in Requests \ {r} : req'[q] = req[q]
      BY <2>6, <1>1 DEF Authenticate, TypeOK, Idle
    <3>2. NoNewPut
      BY <3>1 DEF NoNewPut, At
    <3> QED
      BY <2>6, <3>2, <1>2 DEF Authenticate
  <2>7. CASE Upsert(r)
    <3>1. req[r] \in Request
      BY <1>1 DEF TypeOK
    <3>2. /\ \A q \in Requests \ {r} : req'[q] = req[q]
          /\ req'[r].at = req[r].at /\ req'[r].old = req[r].old /\ req'[r].tenant = req[r].tenant
          /\ req'[r].since = req[r].since
      BY <2>7, <3>1, <1>1 DEF Upsert, TypeOK, Request
    <3>3. NoNewPut
      BY <3>2 DEF NoNewPut, At
    <3> QED
      BY <2>7, <3>3, <1>1, OldStays, HistoryStays DEF Upsert
  <2>8. ASSUME NEW changes \in Changes, PutReads(r, changes), InBounds(changes) PROVE History' /\ OldOK'
    <3>1. /\ \A q \in Requests \ {r} : req'[q] = req[q]
          /\ req'[r].tenant = req[r].tenant /\ req'[r].old = values[req[r].tenant]
          /\ req'[r].since = Len(audit[req[r].tenant]) /\ UNCHANGED <<values, audit>>
      BY <2>8, <1>1, PutReadsShape DEF PutReads, store
    <3>2. ReadOK(r)'
      <4> DEFINE log == audit[req[r].tenant]
      <4>1. req[r].tenant \in Tenants
        BY <2>8, <1>1, ConsoleAssumption DEF PutReads, RequestOK, At, Actors
      <4>2. log \in Seq(Row) /\ Len(log) \in Nat /\ DOMAIN log = 1 .. Len(log)
        BY <1>1, <4>1, LenProperties DEF TypeOK
      <4>3. \A s \in Settings : {j \in RowsOf(log, s) : j <= Len(log)} = RowsOf(log, s)
        BY <4>2 DEF RowsOf
      <4>4. \A s \in Settings : Leaves(log, RowsOf(log, s), s, values[req[r].tenant][s])
        BY <1>1, <4>1 DEF History, AuditEndsAtTheValue
      <4>5. req'[r].since = Len(log) /\ audit'[req'[r].tenant] = log
            /\ req'[r].old = values[req[r].tenant]
        BY <3>1
      <4> HIDE DEF log
      <4>6. \A s \in Settings : Leaves(log, {j \in RowsOf(log, s) : j <= Len(log)}, s, req'[r].old[s])
        BY <4>3, <4>4, <4>5
      <4> DEFINE n == req'[r].since
                 u == req'[r].tenant
      <4>7. n <= Len(audit'[u])
        BY <4>2, <4>5
      <4>8. \A s \in Settings : Leaves(audit'[u], {j \in RowsOf(audit'[u], s) : j <= n}, s, req'[r].old[s])
        BY <4>5, <4>6
      <4> QED
        BY <4>7, <4>8 DEF ReadOK
    <3>3. OldOK'
      BY <3>1, <3>2, <1>1 DEF OldOK, ReadOK, At
    <3> QED
      BY <3>1, <3>3, <1>1, HistoryStays
  <2>9. ASSUME NEW changes \in Changes, PutReads(r, changes), ~InBounds(changes) PROVE History' /\ OldOK'
    BY <2>9, <1>1, AnsweredIsNoPut, OldStays, HistoryStays DEF PutReads, store
  <2> QED
    BY <1>4, <2>2, <2>3, <2>4, <2>5, <2>6, <2>7, <2>8, <2>9 DEF Handle
<1> QED
  BY <1>3, <1>4 DEF Next, vars, CreateAgent, Suspend, Reconfigure, Tick, store

\* Whoever changes a setting or a logo is one of the tenant's, and known.
Own(t, a, h) == AgentTenant[a] = t /\ Hashable(h[a])

LEMMA OwnStep == Inv /\ [Next]_vars => OwnAgentsOnly'
<1> SUFFICES ASSUME Inv, [Next]_vars PROVE OwnAgentsOnly'
  OBVIOUS
<1>1. TypeOK /\ RequestOK /\ HashesOK /\ OwnAgentsOnly
  BY DEF Inv
<1>2. \A t : \A a \in Agents : Own(t, a, hashes) => Own(t, a, hashes')
  BY <1>1, KnownStep DEF Own
<1>3. ASSUME NEW t \in Tenants, NEW i \in DOMAIN audit[t] PROVE Own(t, audit[t][i].agent, hashes')
  <2>1. audit[t][i].agent \in Agents
    <3>1. audit[t] \in Seq(Row)
      BY <1>1 DEF TypeOK
    <3>2. audit[t][i] \in Row
      BY <1>3, <3>1, ElementOfSeq, LenProperties
    <3> QED
      BY <3>2 DEF Row
  <2>2. Own(t, audit[t][i].agent, hashes)
    BY <1>1 DEF OwnAgentsOnly, Own
  <2> QED
    BY <1>2, <2>1, <2>2
<1>4. ASSUME NEW t \in Tenants, logos[t] # None PROVE Own(t, logos[t].by, hashes')
  <2>1. logos[t].by \in Agents
    BY <1>1, <1>4 DEF TypeOK
  <2>2. Own(t, logos[t].by, hashes)
    BY <1>1, <1>4 DEF OwnAgentsOnly, Own
  <2> QED
    BY <1>2, <2>1, <2>2
<1>5. ASSUME NEW r \in Requests, At(r, {"write", "logo"})
      PROVE  Own(req[r].tenant, req[r].agent, hashes')
  <2>1. /\ req[r].agent \in Agents /\ req[r].tenant = AgentTenant[req[r].agent]
        /\ req[r].agent \in Known
    BY <1>1, <1>5 DEF RequestOK, At, Actors, Known
  <2> QED
    BY <1>1, <1>2, <2>1 DEF HashesOK, Own
<1>6. ASSUME \A t \in Tenants : \A i \in DOMAIN audit'[t] : Own(t, audit'[t][i].agent, hashes'),
             \A t \in Tenants : logos'[t] # None => Own(t, logos'[t].by, hashes')
      PROVE  OwnAgentsOnly'
  BY <1>6 DEF OwnAgentsOnly, Own
<1>7. CASE UNCHANGED <<audit, logos>>
  BY <1>3, <1>4, <1>6, <1>7
<1>8. ASSUME NEW r \in Requests, Commit(r) PROVE OwnAgentsOnly'
  <2> DEFINE t == req[r].tenant
             log == audit[t]
             more == AuditOf(r)
  <2>1. req[r].at = "write" /\ t \in Tenants
    BY <1>1, <1>8, ConsoleAssumption DEF Commit, RequestOK, At, Actors
  <2>2. /\ audit' = [audit EXCEPT ![t] = log \o more] /\ logos' = logos
    BY <1>8 DEF Commit
  <2>3. /\ log \in Seq(Row) /\ more \in Seq(Row)
        /\ \A k \in DOMAIN more : more[k].agent = req[r].agent
    BY <1>1, <2>1, AuditOfType DEF TypeOK
  <2>4. Own(t, req[r].agent, hashes')
    BY <1>5, <2>1 DEF At
  <2>5. audit'[t] = log \o more /\ \A u \in Tenants \ {t} : audit'[u] = audit[u]
    BY <1>1, <2>1, <2>2 DEF TypeOK
  <2> HIDE DEF more, log
  <2>6. \A i \in DOMAIN (log \o more) :
            (i \in DOMAIN log /\ (log \o more)[i] = log[i])
            \/ \E k \in DOMAIN more : (log \o more)[i] = more[k]
    BY <2>3, LogGrows
  <2>7. \A i \in DOMAIN (log \o more) : Own(t, (log \o more)[i].agent, hashes')
    BY <1>3, <2>1, <2>3, <2>4, <2>6 DEF log
  <2>8. \A u \in Tenants : \A i \in DOMAIN audit'[u] : Own(u, audit'[u][i].agent, hashes')
    BY <1>3, <2>5, <2>7
  <2> QED
    BY <1>4, <1>6, <2>2, <2>8
<1>9. ASSUME NEW r \in Requests, ClearLogo(r) \/ \E upload \in Uploads : SetLogo(r, upload)
      PROVE  OwnAgentsOnly'
  <2>1. audit' = audit
    BY <1>9 DEF ClearLogo, SetLogo, store
  <2>2. ASSUME NEW t \in Tenants, logos'[t] # None PROVE Own(t, logos'[t].by, hashes')
    <3>1. CASE logos'[t] = logos[t]
      BY <1>4, <2>2, <3>1
    <3>2. CASE logos'[t] # logos[t]
      <4>1. At(r, {"logo"}) /\ t = req[r].tenant /\ logos'[t].by = req[r].agent
        <5>1. CASE ClearLogo(r)
          BY <1>1, <2>2, <3>2, <5>1 DEF ClearLogo, TypeOK
        <5>2. ASSUME NEW upload \in Uploads, SetLogo(r, upload)
              PROVE  At(r, {"logo"}) /\ t = req[r].tenant /\ logos'[t].by = req[r].agent
          <6> DEFINE logo == [kind |-> upload.kind, by |-> req[r].agent]
          <6>1. /\ At(r, {"logo"})
                /\ logos' = [logos EXCEPT ![req[r].tenant] = IF Sniffed(upload) THEN logo ELSE @]
            BY <5>2 DEF SetLogo, At
          <6>2. logo.by = req[r].agent
            OBVIOUS
          <6> HIDE DEF logo
          <6>3. DOMAIN logos = Tenants
            BY <1>1 DEF TypeOK
          <6>4. t = req[r].tenant /\ logos'[t] = logo
            BY <3>2, <6>1, <6>3
          <6> QED
            BY <6>1, <6>2, <6>4
        <5> QED
          BY <1>9, <5>1, <5>2
      <4> QED
        BY <1>5, <4>1 DEF At
    <3> QED
      BY <3>1, <3>2
  <2> QED
    BY <1>3, <1>6, <2>1, <2>2
<1>10. ASSUME NEW r \in Requests, Handle(r) PROVE OwnAgentsOnly'
  BY <1>7, <1>8, <1>9, <1>10 DEF Handle, LoginResolves, LoginVerifies, Authenticate, Logout, PutReads,
                                Upsert, Aborts, store
<1> QED
  BY <1>7, <1>10 DEF Next, vars, CreateAgent, Suspend, Reconfigure, Tick, store

LEMMA InvHolds == Spec => []Inv
<1>1. Inv /\ [Next]_vars => Inv'
  BY TypeStep, RightsStep, HashesStep, OwnStep, HistoryStep DEF Inv, History
<1> QED
  BY <1>1, InitInv, PTL DEF Spec

\* Row-level security's promise as the console sees it: every row of a tenant's audit, and
\* its logo, is by one of its own agents, through a session of theirs, whatever tenant the
\* client named and whatever the work factor of passwords was edited to.
THEOREM SettingsAreTheirOwn == Spec => []OwnAgentsOnly
<1>1. Inv => OwnAgentsOnly
  BY DEF Inv
<1> QED
  BY <1>1, InvHolds, PTL

\* put's audit can be read as the history of each setting: it ends at the value in force,
\* and each row starts where the rows committed when it was read had left the setting,
\* however many puts overlapped.
THEOREM AuditCanBeRead == Spec => []AuditIsTheHistory
<1>1. Inv => AuditIsTheHistory
  BY DEF Inv, AuditIsTheHistory
<1> QED
  BY <1>1, InvHolds, PTL
=============================================================================
