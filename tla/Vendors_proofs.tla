---------------------------- MODULE Vendors_proofs ----------------------------
(***************************************************************************)
(* Theorems about what passes between this system and its vendors.  Of      *)
(* Exchange, for any accounts, replacements, customers, windows and delays: *)
(* who is answered, from where, when and in which thread; what is written   *)
(* of a customer only grows (Grown), so what a message, a conversation or a *)
(* job is known to be stays so until it goes.  Of Router, for any number of *)
(* calls in flight, providers and tasks, every routing of them, threshold,  *)
(* reset window and retry budget.                                           *)
(***************************************************************************)
EXTENDS Exchange, Router, SequenceTheorems, TLAPS

\* An account of this tenant's, on this channel, that the customer wrote to.
OwnedAt(held, tenant, channel, to) ==
    \E a \in held : a.tenant = tenant /\ a.channel = channel /\ a.address = to

\* The customer wrote to one of the tenant's accounts no earlier than `last` says.
Opened(w, held, tenant, channel, from, last) ==
    /\ last \in Nat
    /\ channel \in Windowed =>
          \E k \in DOMAIN w : /\ k[1] = channel /\ k[3] = from
                              /\ OwnedAt(held, tenant, channel, k[2])
                              /\ last <= w[k] + Late(channel)

\* A body waiting to be posted.
PostOK(w, p) ==
    /\ p.at \in Nat
    /\ p.body.vendor \in {"twilio", "telegram", "sendgrid", "meta"}
    /\ \A e \in p.body.events :
          /\ e.said \in Nat
          /\ IsTurn(p.body.vendor, e) => e.person
          /\ e.person => LET k == <<ChannelOf(p.body), e.to, e.from>>
                         IN  k \in DOMAIN w /\ p.at <= w[k] /\ e.said <= w[k]
          /\ p.body.vendor = "meta" /\ IsTurn("meta", e) =>
                \A a \in Accounts \cup Spares : a.address = e.to => ProductOf(p.body, a)

MessageOK(w, held, m) ==
    /\ m.origin.person
    /\ OwnedAt(held, m.tenant, m.channel, m.origin.to)
    /\ Opened(w, held, m.tenant, m.channel, m.sender, m.received)

JobOK(w, held, j) ==
    /\ j.origin # NULL => j.origin.person /\ OwnedAt(held, j.tenant, j.channel, j.origin.to)
    /\ Opened(w, held, j.tenant, j.channel, j.to, j.last)

SentOK(held, s) ==
    /\ s.from \in s.served
    /\ s.origin # NULL => s.origin.person /\ OwnedAt(held, s.tenant, s.channel, s.origin.to)
    /\ s.channel \in Windowed => \E since \in s.ages : since < Window + Late(s.channel)

ClockOK    == now \in Nat /\ \A k \in DOMAIN wrote : wrote[k] \in Nat /\ wrote[k] <= now
AccountsOK == accounts \subseteq served /\ served \subseteq owned /\ owned \subseteq Accounts \cup Spares
CacheOK    == \A k \in DOMAIN cache :
                 cache[k] \in served /\ cache[k].tenant = k[1] /\ cache[k].channel = k[2]

Inv ==
    /\ ClockOK /\ AccountsOK /\ CacheOK
    /\ \A p \in posts : PostOK(wrote, p) /\ p.at <= now
    /\ \A m \in inbound : MessageOK(wrote, owned, m)
    /\ \A k \in DOMAIN conversations : Opened(wrote, owned, k[1], k[2], k[3], conversations[k])
    /\ \A j \in jobs : JobOK(wrote, owned, j)
    /\ \A s \in sent : SentOK(owned, s)
-----------------------------------------------------------------------------
(***************************************************************************)
(* The exchange of mails.                                                  *)
(***************************************************************************)
OneClientEach == \A m, n \in Mailers : m.from = n.from => m = n
Keeps(from)   == \E n \in Mailers : n.from = from /\ n.references

MailOK(e) ==
    /\ e.id \in Nat /\ e.root \in Nat /\ e.refs \in Seq(Nat) /\ e.irt \in Nat \cup {NULL}
    /\ e.refs # <<>> => e.refs[1] = e.root
    /\ e.refs = <<>> /\ e.irt = NULL => e.id = e.root
    /\ Keeps(e.from) => e.refs # <<>> \/ e.irt = NULL

Threaded(thread, from, origin) ==
    thread # NULL => /\ origin.from = from /\ MailOK(origin) /\ thread = ThreadRef(origin)

SentMailOK(s) ==
    /\ s.root \in Nat /\ s.refs \in Seq(Nat)
    /\ Keeps(s.to) => s.root = IF s.refs = <<>> THEN s.id ELSE s.refs[1]
    /\ s.refs # <<>> => s.refs[1] = IF s.origin.irt = NULL \/ s.origin.refs # <<>>
                                       THEN s.origin.root ELSE s.origin.irt

Log == [count : Nat, chats : SUBSET Chats, id : Nat, echoed : SUBSET Nat, agents : Nat]

ThreadInv ==
    /\ written \in Log
    /\ \A p \in posts : p.body.vendor = "sendgrid" => \A e \in p.body.events : MailOK(e)
    /\ \A m \in inbound : m.channel = "email" => Threaded(m.thread, m.sender, m.origin)
    /\ \A j \in jobs : j.channel = "email" => Threaded(j.thread, j.to, j.origin)
    /\ \A s \in sent : s.id \in Nat /\ (s.channel = "email" => SentMailOK(s))
-----------------------------------------------------------------------------
(***************************************************************************)
(* What the adapters make of a body.                                       *)
(***************************************************************************)
LEMMA Constants ==
    /\ Window \in Nat /\ MaxDelay \in Nat /\ NULL \notin Nat
    /\ \A c : Late(c) \in Nat
  BY ExchangeAssumption DEF Late

LEMMA Parsed ==
    ASSUME NEW held, NEW body, NEW time, NEW m \in Parse(held, body, time),
           body.vendor \in {"twilio", "telegram", "sendgrid", "meta"}
    PROVE  \E a \in held, e \in body.events :
              /\ e.to = a.address /\ IsTurn(body.vendor, e)
              /\ IF body.vendor = "meta" THEN a.channel \in {"messenger", "instagram"}
                                         ELSE a.channel = ChannelOf(body)
              /\ m.tenant = a.tenant /\ m.channel = ChannelOf(body)
              /\ m.sender = e.from /\ m.origin = e
              /\ m.received = IF body.vendor \in {"telegram", "meta"} THEN e.said ELSE time
              /\ m.thread = IF body.vendor = "sendgrid" THEN ThreadRef(e) ELSE NULL
<1>1. ChannelOf(body) # NULL
  BY DEF Parse
<1>2. PICK a \in Served(held, body) :
         \E e \in body.events : /\ e.to = a.address /\ IsTurn(body.vendor, e)
                                /\ m = Message(body, e, a, time)
  BY <1>1 DEF Parse, EventsFor
<1>3. PICK e \in body.events : /\ e.to = a.address /\ IsTurn(body.vendor, e)
                               /\ m = Message(body, e, a, time)
  BY <1>2
<1>4. /\ a \in held
      /\ IF body.vendor = "meta" THEN a.channel \in {"messenger", "instagram"}
                                 ELSE a.channel = ChannelOf(body)
  BY DEF Served, Resolve
<1>5. /\ m.tenant = a.tenant /\ m.channel = ChannelOf(body)
      /\ m.sender = e.from /\ m.origin = e
      /\ m.received = IF body.vendor \in {"telegram", "meta"} THEN e.said ELSE time
      /\ m.thread = IF body.vendor = "sendgrid" THEN ThreadRef(e) ELSE NULL
  <2>1. CASE body.vendor = "twilio"
    <3>1. m = TwilioMessage(e, a, time)
      BY <2>1, <1>3 DEF Message
    <3>2. ChannelOf(body) = "whatsapp"
      BY <2>1 DEF ChannelOf
    <3> QED
      BY <2>1, <3>1, <3>2 DEF TwilioMessage, Normalized
  <2>2. CASE body.vendor = "telegram"
    <3>1. m = TelegramMessage(e, a)
      BY <2>2, <1>3 DEF Message
    <3>2. ChannelOf(body) = "telegram"
      BY <2>2 DEF ChannelOf
    <3> QED
      BY <2>2, <3>1, <3>2 DEF TelegramMessage, Normalized
  <2>3. CASE body.vendor = "sendgrid"
    <3>1. m = EmailMessage(e, a, time)
      BY <2>3, <1>3 DEF Message
    <3>2. ChannelOf(body) = "email"
      BY <2>3 DEF ChannelOf
    <3> QED
      BY <2>3, <3>1, <3>2 DEF EmailMessage, Normalized
  <2>4. CASE body.vendor = "meta"
    <3>1. m = MetaMessage(e, a, ChannelOf(body))
      BY <2>4, <1>3 DEF Message
    <3> QED
      BY <2>4, <3>1 DEF MetaMessage, Normalized
  <2> QED
    BY <2>1, <2>2, <2>3, <2>4
<1> QED
  BY <1>3, <1>4, <1>5

-----------------------------------------------------------------------------
(***************************************************************************)
(* What is known stays known.                                              *)
(***************************************************************************)
Grown(w, v) ==
    /\ DOMAIN w \subseteq DOMAIN v
    /\ \A k \in DOMAIN w : w[k] \in Nat /\ v[k] \in Nat /\ w[k] <= v[k]

LEMMA OpenedStays ==
    ASSUME NEW w, NEW v, NEW held, NEW more, Grown(w, v), held \subseteq more,
           NEW t, NEW c, NEW f, NEW last, Opened(w, held, t, c, f, last)
    PROVE  Opened(v, more, t, c, f, last)
<1>1. last \in Nat
  BY DEF Opened
<1>2. ASSUME c \in Windowed
      PROVE  \E k \in DOMAIN v : /\ k[1] = c /\ k[3] = f /\ OwnedAt(more, t, c, k[2])
                                 /\ last <= v[k] + Late(c)
  <2>1. PICK k \in DOMAIN w : /\ k[1] = c /\ k[3] = f /\ OwnedAt(held, t, c, k[2])
                              /\ last <= w[k] + Late(c)
    BY <1>2 DEF Opened
  <2>2. w[k] \in Nat /\ v[k] \in Nat /\ w[k] <= v[k] /\ k \in DOMAIN v
    BY DEF Grown
  <2>3. Late(c) \in Nat
    BY Constants
  <2>4. last <= v[k] + Late(c)
    BY <1>1, <2>1, <2>2, <2>3
  <2>5. OwnedAt(more, t, c, k[2])
    BY <2>1 DEF OwnedAt
  <2> QED
    BY <2>1, <2>2, <2>4, <2>5
<1> QED
  BY <1>1, <1>2 DEF Opened

LEMMA PostStays ==
    ASSUME NEW w, NEW v, Grown(w, v), \A k \in DOMAIN w : w[k] \in Nat,
           NEW p, PostOK(w, p)
    PROVE  PostOK(v, p)
<1> SUFFICES ASSUME NEW e \in p.body.events, e.person
             PROVE  LET k == <<ChannelOf(p.body), e.to, e.from>>
                    IN  k \in DOMAIN v /\ p.at <= v[k] /\ e.said <= v[k]
  BY DEF PostOK
<1> DEFINE k == <<ChannelOf(p.body), e.to, e.from>>
<1>1. k \in DOMAIN w /\ p.at <= w[k] /\ e.said <= w[k] /\ p.at \in Nat /\ e.said \in Nat
  BY DEF PostOK
<1>2. w[k] \in Nat /\ v[k] \in Nat /\ w[k] <= v[k] /\ k \in DOMAIN v
  BY <1>1 DEF Grown
<1> HIDE DEF k
<1>3. p.at <= v[k] /\ e.said <= v[k]
  BY <1>1, <1>2
<1> QED
  BY <1>2, <1>3 DEF k

LEMMA MessageStays ==
    ASSUME NEW w, NEW v, NEW held, NEW more, Grown(w, v), held \subseteq more,
           NEW m, MessageOK(w, held, m)
    PROVE  MessageOK(v, more, m)
<1>1. Opened(v, more, m.tenant, m.channel, m.sender, m.received)
  BY OpenedStays DEF MessageOK
<1> QED
  BY <1>1 DEF MessageOK, OwnedAt

LEMMA JobStays ==
    ASSUME NEW w, NEW v, NEW held, NEW more, Grown(w, v), held \subseteq more,
           NEW j, JobOK(w, held, j)
    PROVE  JobOK(v, more, j)
<1>1. Opened(v, more, j.tenant, j.channel, j.to, j.last)
  BY OpenedStays DEF JobOK
<1> QED
  BY <1>1 DEF JobOK, OwnedAt

LEMMA SentStays ==
    ASSUME NEW held, NEW more, held \subseteq more, NEW s, SentOK(held, s)
    PROVE  SentOK(more, s)
  BY DEF SentOK, OwnedAt

LEMMA SameIsGrown == ClockOK => Grown(wrote, wrote)
  BY DEF ClockOK, Grown

\* What a step leaves behind is as it was.
LEMMA OldStays ==
    ASSUME Inv, Grown(wrote, wrote'), owned \subseteq owned'
    PROVE  /\ \A p \in posts : PostOK(wrote', p)
           /\ \A m \in inbound : MessageOK(wrote', owned', m)
           /\ \A k \in DOMAIN conversations :
                 Opened(wrote', owned', k[1], k[2], k[3], conversations[k])
           /\ \A j \in jobs : JobOK(wrote', owned', j)
           /\ \A s \in sent : SentOK(owned', s)
<1>1. \A p \in posts : PostOK(wrote', p)
  BY PostStays DEF Inv, ClockOK
<1>2. \A m \in inbound : MessageOK(wrote', owned', m)
  BY MessageStays DEF Inv
<1>3. \A k \in DOMAIN conversations :
         Opened(wrote', owned', k[1], k[2], k[3], conversations[k])
  BY OpenedStays DEF Inv
<1>4. \A j \in jobs : JobOK(wrote', owned', j)
  BY JobStays DEF Inv
<1>5. \A s \in sent : SentOK(owned', s)
  BY SentStays DEF Inv
<1> QED
  BY <1>1, <1>2, <1>3, <1>4, <1>5
-----------------------------------------------------------------------------
(***************************************************************************)
(* Who is answered, from where and when, one action at a time.             *)
(***************************************************************************)
LEMMA InitInv == Init => Inv
<1> SUFFICES ASSUME Init PROVE Inv
  OBVIOUS
<1>1. /\ DOMAIN wrote = {} /\ DOMAIN cache = {} /\ DOMAIN conversations = {}
      /\ posts = {} /\ inbound = {} /\ jobs = {} /\ sent = {} /\ now = 0
      /\ owned = Accounts /\ served = Accounts /\ accounts = Accounts
  BY DEF Init
<1> QED
  BY <1>1 DEF Inv, ClockOK, AccountsOK, CacheOK

LEMMA TickInv == ASSUME Inv, Tick PROVE Inv'
<1>1. Grown(wrote, wrote')
  BY SameIsGrown DEF Inv, Tick
<1>2. now' = now + 1 /\ UNCHANGED <<accounts, posts, inbound, conversations, jobs, cache, sent,
                                    wrote, owned, served>>
  BY DEF Tick
<1>3. ClockOK'
  <2> SUFFICES ASSUME NEW k \in DOMAIN wrote PROVE wrote[k] <= now + 1
    BY <1>2 DEF ClockOK, Inv
  <2> QED
    BY DEF ClockOK, Inv
<1>4. \A p \in posts : PostOK(wrote, p) /\ p.at <= now + 1
  BY DEF Inv, PostOK, ClockOK
<1> QED
  BY <1>2, <1>3, <1>4 DEF Inv, AccountsOK, CacheOK

\* A body submitted now.
LEMMA SubmitInv ==
    ASSUME Inv, NEW body, Submit(body),
           body.vendor \in {"twilio", "telegram", "sendgrid", "meta"},
           \A e \in body.events : /\ e.said = now
                                  /\ IsTurn(body.vendor, e) => e.person
                                  /\ body.vendor = "meta" /\ IsTurn("meta", e) =>
                                        \A a \in Accounts \cup Spares :
                                           a.address = e.to => ProductOf(body, a)
    PROVE  Inv'
<1> DEFINE new == [body |-> body, at |-> now]
           k(e) == <<ChannelOf(body), e.to, e.from>>
<1>1. /\ wrote' = Wrote(body) /\ posts' = posts \cup {new}
      /\ UNCHANGED <<now, accounts, inbound, conversations, jobs, cache, sent, owned, served>>
  BY DEF Submit
<1>2. now \in Nat /\ \A w \in DOMAIN wrote : wrote[w] \in Nat /\ wrote[w] <= now
  BY DEF Inv, ClockOK
<1>3. /\ DOMAIN wrote' = Writing(body) \cup DOMAIN wrote
      /\ \A w \in DOMAIN wrote' : wrote'[w] = IF w \in Writing(body) THEN now ELSE wrote[w]
  BY <1>1 DEF Wrote
<1>4. ClockOK' /\ Grown(wrote, wrote')
  BY <1>1, <1>2, <1>3 DEF ClockOK, Grown
<1>5. PostOK(wrote', new)
  <2>1. new.at = now /\ new.body = body
    OBVIOUS
  <2>2. ASSUME NEW e \in body.events, e.person
        PROVE  k(e) \in DOMAIN wrote' /\ now <= wrote'[k(e)] /\ e.said <= wrote'[k(e)]
    <3>1. k(e) \in Writing(body)
      BY <2>2 DEF Writing
    <3> HIDE DEF k
    <3>2. e.said = now
      OBVIOUS
    <3> QED
      BY <3>1, <3>2, <1>2, <1>3
  <2> HIDE DEF new
  <2>3. ASSUME NEW e \in body.events
        PROVE  /\ e.said \in Nat /\ (IsTurn(body.vendor, e) => e.person)
               /\ body.vendor = "meta" /\ IsTurn("meta", e) =>
                     \A a \in Accounts \cup Spares : a.address = e.to => ProductOf(body, a)
    BY <1>2
  <2> QED
    BY <1>2, <2>1, <2>2, <2>3 DEF PostOK
<1>6. new.at <= now
  BY <1>2
<1> HIDE DEF new
<1>7. \A p \in posts : p.at <= now
  BY DEF Inv
<1>8. AccountsOK' /\ CacheOK'
  BY <1>1 DEF Inv, AccountsOK, CacheOK
<1> QED
  BY <1>1, <1>4, <1>5, <1>6, <1>7, <1>8, OldStays DEF Inv

LEMMA WriteChatInv == ASSUME Inv, NEW body \in Chats, WriteChat(body) PROVE Inv'
<1> DEFINE written1 == [body EXCEPT !.events = {[e EXCEPT !.said = now] : e \in body.events}]
<1>1. Submit(written1)
  BY DEF WriteChat
<1>2. /\ body \in Chat
      /\ \A e \in body.events :
            /\ e.kind \in Kinds[body.vendor] /\ (e.person <=> e.kind = "message")
            /\ body.vendor = "meta" => \A a \in Accounts \cup Spares :
                  a.address = e.to => ProductOf(body, a)
  BY ExchangeAssumption
<1>3. body.vendor \in {"twilio", "telegram", "meta"}
  BY <1>2 DEF Chat, Kinds
<1>4. /\ written1.vendor = body.vendor /\ written1.object = body.object
      /\ written1.events = {[e EXCEPT !.said = now] : e \in body.events}
  BY <1>2 DEF Chat
<1>5. ChannelOf(written1) = ChannelOf(body)
  BY <1>4 DEF ChannelOf
<1>6. ASSUME NEW e \in written1.events
      PROVE  /\ e.said = now /\ (IsTurn(body.vendor, e) => e.person)
             /\ body.vendor = "meta" /\ IsTurn("meta", e) =>
                   \A a \in Accounts \cup Spares : a.address = e.to => ProductOf(written1, a)
  <2>1. PICK f \in body.events : e = [f EXCEPT !.said = now]
    BY <1>4
  <2>2. f \in Event
    BY <1>2 DEF Chat
  <2>3. e.said = now /\ e.kind = f.kind /\ e.person = f.person /\ e.to = f.to
    BY <2>1, <2>2 DEF Event
  <2>4. IsTurn(body.vendor, e) => e.person
    BY <1>2, <1>3, <2>3 DEF Kinds, IsTurn, IsCustomerTurn, IsNewMessage
  <2>5. body.vendor = "meta" => \A a \in Accounts \cup Spares :
           a.address = e.to => ProductOf(written1, a)
    BY <1>2, <1>5, <2>3 DEF ProductOf
  <2> QED
    BY <2>3, <2>4, <2>5
<1> HIDE DEF written1
<1> QED
  BY <1>1, <1>3, <1>4, <1>6, SubmitInv

\* A mail of theirs, of any kind: only a message of a person is a turn.
LEMMA MailInv ==
    ASSUME Inv, NEW from, NEW account, NEW kind \in {"message", "auto", "unaligned"},
           NEW refs, NEW irt, NEW root, Submit(Mail(from, account, kind, refs, irt, root))
    PROVE  Inv'
<1> DEFINE body == Mail(from, account, kind, refs, irt, root)
<1>1. body.vendor = "sendgrid"
  BY DEF Mail
<1>2. ASSUME NEW e \in body.events
      PROVE  e.said = now /\ (IsTurn("sendgrid", e) => e.person)
  <2>1. e = [to |-> account.address, from |-> from, id |-> written.id, kind |-> kind,
             refs |-> refs, irt |-> irt, said |-> now, person |-> kind = "message",
             root |-> IF root = NULL THEN written.id ELSE root]
    BY DEF Mail
  <2>2. e.said = now /\ e.kind = kind
    BY <2>1
  <2>3. e.person = (kind = "message")
    BY <2>1, Zenon
  <2>4. IsTurn("sendgrid", e) => kind = "message"
    BY <2>2 DEF IsTurn, IsByPerson, IsAuthenticated
  <2> QED
    BY <2>2, <2>3, <2>4
<1> HIDE DEF body
<1>3. Submit(body)
  BY DEF body
<1> QED
  BY <1>1, <1>2, <1>3, SubmitInv

LEMMA EchoInv == ASSUME Inv, NEW s \in sent, NEW a \in accounts, Echo(s, a) PROVE Inv'
<1> DEFINE body == [vendor |-> "meta", key |-> AppSecret, object |-> "page",
               events |-> {[to |-> s.from, from |-> s.from, id |-> s.id, kind |-> "echo",
                            refs |-> <<>>, irt |-> NULL, said |-> now, person |-> FALSE,
                            root |-> NULL]}]
<1>1. Submit(body)
  BY DEF Echo
<1>2. body.vendor = "meta" /\ \A e \in body.events : e.said = now /\ ~IsTurn("meta", e)
  BY DEF IsTurn, IsCustomerTurn
<1> HIDE DEF body
<1> QED
  BY <1>1, <1>2, SubmitInv

LEMMA PostInv == ASSUME Inv, NEW p \in posts, Post(p) PROVE Inv'
<1>1. /\ posts' = posts \ {p} /\ now - p.at <= MaxDelay
      /\ \A m \in inbound' : m \in inbound \/ m \in Parse(accounts, p.body, now)
      /\ UNCHANGED <<now, accounts, conversations, jobs, cache, sent, wrote, owned, served>>
  BY DEF Post
<1>2. PostOK(wrote, p) /\ p.at <= now /\ now \in Nat /\ p.at \in Nat
  BY DEF Inv, ClockOK, PostOK
<1>3. ASSUME NEW m \in Parse(accounts, p.body, now) PROVE MessageOK(wrote, owned, m)
  <2>1. PICK a \in accounts, e \in p.body.events :
           /\ e.to = a.address /\ IsTurn(p.body.vendor, e)
           /\ IF p.body.vendor = "meta" THEN a.channel \in {"messenger", "instagram"}
                                        ELSE a.channel = ChannelOf(p.body)
           /\ m.tenant = a.tenant /\ m.channel = ChannelOf(p.body)
           /\ m.sender = e.from /\ m.origin = e
           /\ m.received = IF p.body.vendor \in {"telegram", "meta"} THEN e.said ELSE now
    BY <1>2, Parsed DEF PostOK
  <2>2. a \in owned /\ a \in Accounts \cup Spares
    BY DEF Inv, AccountsOK
  <2>3. a.channel = ChannelOf(p.body)
    BY <1>2, <2>1, <2>2 DEF PostOK, ProductOf
  <2>4. m.origin.person /\ OwnedAt(owned, m.tenant, m.channel, m.origin.to)
    BY <1>2, <2>1, <2>2, <2>3 DEF PostOK, OwnedAt
  <2> DEFINE k == <<ChannelOf(p.body), e.to, e.from>>
  <2>5. k \in DOMAIN wrote /\ p.at <= wrote[k] /\ e.said <= wrote[k] /\ e.said \in Nat
    BY <1>2, <2>1, <2>4 DEF PostOK
  <2>6. k[1] = m.channel /\ k[2] = m.origin.to /\ k[3] = m.sender
    BY <2>1
  <2> HIDE DEF k
  <2>7. wrote[k] \in Nat
    BY <2>5 DEF Inv, ClockOK
  <2>8. m.received \in Nat
    BY <1>2, <2>1, <2>5
  <2>9. ASSUME m.channel \in Windowed PROVE m.received <= wrote[k] + Late(m.channel)
    <3>1. CASE p.body.vendor \in {"telegram", "meta"}
      <4>1. m.received = e.said /\ Late(m.channel) \in Nat
        BY <2>1, <3>1, Constants
      <4> QED
        BY <4>1, <2>5, <2>7
    <3>2. CASE p.body.vendor = "twilio"
      <4>1. m.received = now /\ Late(m.channel) = MaxDelay
        BY <2>1, <3>2 DEF ChannelOf, Late
      <4> QED
        BY <4>1, <1>1, <1>2, <2>5, <2>7, Constants
    <3>3. CASE p.body.vendor = "sendgrid"
      BY <2>1, <2>9, <3>3 DEF ChannelOf, Windowed
    <3> QED
      BY <1>2, <3>1, <3>2, <3>3 DEF PostOK
  <2>10. Opened(wrote, owned, m.tenant, m.channel, m.sender, m.received)
    BY <2>4, <2>5, <2>6, <2>8, <2>9 DEF Opened
  <2> QED
    BY <2>4, <2>10 DEF MessageOK
<1>4. \A m \in inbound' : MessageOK(wrote, owned, m)
  BY <1>1, <1>3 DEF Inv
<1>5. ClockOK' /\ AccountsOK' /\ CacheOK'
  BY <1>1 DEF Inv, ClockOK, AccountsOK, CacheOK
<1> QED
  BY <1>1, <1>4, <1>5 DEF Inv

LEMMA HandleInv ==
    ASSUME Inv, NEW m \in inbound, NEW answered \in BOOLEAN, Handle(m, answered)
    PROVE  Inv'
<1> DEFINE j == Job(m, m.received, m.thread, m.origin)
<1>1. /\ inbound' = inbound \ {m}
      /\ \A i \in jobs' : i \in jobs \/ i = j
      /\ DOMAIN conversations' = DOMAIN conversations \cup {Key(m)}
      /\ \A k \in DOMAIN conversations' :
            conversations'[k] = IF k = Key(m) THEN m.received ELSE conversations[k]
      /\ UNCHANGED <<now, accounts, posts, cache, sent, wrote, owned, served>>
  BY DEF Handle
<1>2. MessageOK(wrote, owned, m)
  BY DEF Inv
<1>3. /\ j.tenant = m.tenant /\ j.channel = m.channel /\ j.to = m.sender
      /\ j.last = m.received /\ j.origin = m.origin
  BY DEF Job
<1> HIDE DEF j
<1>4. JobOK(wrote, owned, j)
  BY <1>2, <1>3 DEF JobOK, MessageOK
<1>5. Key(m)[1] = m.tenant /\ Key(m)[2] = m.channel /\ Key(m)[3] = m.sender
  BY DEF Key
<1>6. \A k \in DOMAIN conversations' :
         Opened(wrote, owned, k[1], k[2], k[3], conversations'[k])
  BY <1>1, <1>2, <1>5 DEF Inv, MessageOK
<1>7. ClockOK' /\ AccountsOK' /\ CacheOK'
  BY <1>1 DEF Inv, ClockOK, AccountsOK, CacheOK
<1> QED
  BY <1>1, <1>4, <1>6, <1>7 DEF Inv

LEMMA AgentReplyInv ==
    ASSUME Inv, NEW key \in DOMAIN conversations, AgentReply(key)
    PROVE  Inv'
<1> DEFINE j == Job([tenant |-> key[1], channel |-> key[2], sender |-> key[3]],
                    conversations[key], NULL, NULL)
<1>1. /\ jobs' = jobs \cup {j}
      /\ UNCHANGED <<now, accounts, posts, inbound, conversations, cache, sent, wrote, owned, served>>
  BY DEF AgentReply
<1>2. /\ j.tenant = key[1] /\ j.channel = key[2] /\ j.to = key[3]
      /\ j.last = conversations[key] /\ j.origin = NULL
  BY DEF Job
<1> HIDE DEF j
<1>3. JobOK(wrote, owned, j)
  BY <1>2 DEF Inv, JobOK
<1>4. ClockOK' /\ AccountsOK' /\ CacheOK'
  BY <1>1 DEF Inv, ClockOK, AccountsOK, CacheOK
<1> QED
  BY <1>1, <1>3, <1>4 DEF Inv

LEMMA DeliverInv == ASSUME Inv, NEW job \in jobs, Deliver(job) PROVE Inv'
<1> DEFINE key == <<job.tenant, job.channel>>
           mail(a) == [id |-> written.id, from |-> a.address, tenant |-> job.tenant,
                       channel |-> job.channel, to |-> job.to, refs |-> Headers(job),
                       root |-> IF job.thread = NULL THEN written.id ELSE job.origin.root,
                       ages |-> Ages(job), served |-> AddressesOf(job), origin |-> job.origin]
<1>1. PICK a \in Sender(job) :
         /\ Within(job) /\ jobs' = jobs \ {job} /\ sent' = sent \cup {mail(a)}
         /\ cache' = [k \in DOMAIN cache \cup {key} |-> IF k = key THEN a ELSE cache[k]]
         /\ UNCHANGED <<now, accounts, posts, inbound, conversations, wrote, owned, served>>
  BY DEF Deliver
<1>2. a \in served /\ a.tenant = job.tenant /\ a.channel = job.channel
  <2>1. CASE key \in DOMAIN cache
    <3>1. a = cache[key]
      BY <2>1 DEF Sender
    <3>2. key[1] = job.tenant /\ key[2] = job.channel
      OBVIOUS
    <3> HIDE DEF key
    <3> QED
      BY <2>1, <3>1, <3>2 DEF Inv, CacheOK
  <2>2. CASE key \notin DOMAIN cache
    BY <2>2 DEF Sender, Inv, AccountsOK
  <2> QED
    BY <2>1, <2>2
<1>3. CacheOK'
  <2>1. key[1] = job.tenant /\ key[2] = job.channel
    OBVIOUS
  <2> HIDE DEF key
  <2> QED
    BY <1>1, <1>2, <2>1 DEF Inv, CacheOK
<1>4. JobOK(wrote, owned, job)
  BY DEF Inv
<1>5. job.channel \in Windowed => \E since \in Ages(job) : since < Window + Late(job.channel)
  <2> SUFFICES ASSUME job.channel \in Windowed
               PROVE  \E since \in Ages(job) : since < Window + Late(job.channel)
    OBVIOUS
  <2>1. PICK k \in DOMAIN wrote :
           /\ k[1] = job.channel /\ k[3] = job.to
           /\ OwnedAt(owned, job.tenant, job.channel, k[2])
           /\ job.last <= wrote[k] + Late(job.channel)
    BY <1>4 DEF JobOK, Opened
  <2>2. now - wrote[k] \in Ages(job)
    BY <2>1 DEF Ages, OwnedAt
  <2>3. job.last \in Nat /\ now - job.last < Window
    BY <1>1, <1>4 DEF JobOK, Opened, Within
  <2>4. now \in Nat /\ wrote[k] \in Nat
    BY DEF Inv, ClockOK
  <2>5. Window \in Nat /\ Late(job.channel) \in Nat
    BY Constants
  <2>6. now - wrote[k] < Window + Late(job.channel)
    BY <2>1, <2>3, <2>4, <2>5
  <2> QED
    BY <2>2, <2>6
<1>6. /\ mail(a).tenant = job.tenant /\ mail(a).channel = job.channel
      /\ mail(a).from = a.address /\ mail(a).origin = job.origin /\ mail(a).ages = Ages(job)
      /\ mail(a).served = AddressesOf(job)
  OBVIOUS
<1> HIDE DEF mail
<1>7. SentOK(owned, mail(a))
  <2>1. a.address \in AddressesOf(job)
    BY <1>2 DEF AddressesOf
  <2> QED
    BY <2>1, <1>4, <1>5, <1>6 DEF SentOK, JobOK
<1> HIDE DEF key
<1>8. ClockOK' /\ AccountsOK'
  BY <1>1 DEF Inv, ClockOK, AccountsOK
<1> QED
  BY <1>1, <1>3, <1>7, <1>8 DEF Inv

LEMMA RebindInv == ASSUME Inv, NEW spare \in Spares, Rebind(spare) PROVE Inv'
<1>1. /\ owned' = owned \cup {spare} /\ served' = served \cup {spare}
      /\ \A a \in accounts' : a \in accounts \/ a = spare
      /\ UNCHANGED <<now, posts, inbound, conversations, jobs, cache, sent, wrote>>
  BY DEF Rebind
<1>2. Grown(wrote, wrote')
  BY <1>1, SameIsGrown DEF Inv
<1>3. ClockOK' /\ AccountsOK' /\ CacheOK'
  BY <1>1 DEF Inv, ClockOK, AccountsOK, CacheOK
<1>4. \A p \in posts : p.at <= now
  BY DEF Inv
<1> QED
  BY <1>1, <1>2, <1>3, <1>4, OldStays DEF Inv

LEMMA RemovalInv ==
    ASSUME Inv, RestartSender \/ \E job \in jobs : Fail(job)
    PROVE  Inv'
<1>1. /\ UNCHANGED <<now, accounts, posts, inbound, conversations, sent, wrote, owned>>
      /\ jobs' \subseteq jobs
      /\ \/ UNCHANGED <<cache, served>>
         \/ cache' = <<>> /\ served' = accounts
  BY DEF RestartSender, Fail
<1>2. CacheOK' /\ AccountsOK'
  BY <1>1 DEF Inv, CacheOK, AccountsOK
<1> QED
  BY <1>1, <1>2 DEF Inv, ClockOK

LEMMA StepInv == Inv /\ [Next]_vars => Inv'
<1> SUFFICES ASSUME Inv, [Next]_vars PROVE Inv'
  OBVIOUS
<1>1. CASE Tick
  BY <1>1, TickInv
<1>2. CASE RestartSender
  BY <1>2, RemovalInv
<1>3. CASE \E body \in Chats \ written.chats : WriteChat(body)
  BY <1>3, WriteChatInv
<1>4. CASE \E mailer \in Mailers, a \in accounts : WriteMail(mailer, a)
  BY <1>4, MailInv DEF WriteMail
<1>5. CASE \E mailer \in Mailers, a \in accounts, s \in sent,
              kind \in {"message", "auto", "unaligned"} : AnswerMail(mailer, a, s, kind)
  BY <1>5, MailInv DEF AnswerMail
<1>6. CASE \E s \in sent, a \in accounts : Echo(s, a)
  BY <1>6, EchoInv
<1>7. CASE \E p \in posts : Post(p)
  BY <1>7, PostInv
<1>8. CASE \E m \in inbound, answered \in BOOLEAN : Handle(m, answered)
  BY <1>8, HandleInv
<1>9. CASE \E key \in DOMAIN conversations : AgentReply(key)
  BY <1>9, AgentReplyInv
<1>10. CASE \E job \in jobs : Deliver(job)
  BY <1>10, DeliverInv
<1>11. CASE \E job \in jobs : Fail(job)
  BY <1>11, RemovalInv
<1>12. CASE \E spare \in Spares : Rebind(spare)
  BY <1>12, RebindInv
<1>13. CASE UNCHANGED vars
  BY <1>13 DEF vars, Inv, ClockOK, AccountsOK, CacheOK
<1> QED
  BY <1>1, <1>2, <1>3, <1>4, <1>5, <1>6, <1>7, <1>8, <1>9, <1>10, <1>11, <1>12, <1>13 DEF Next

THEOREM InvHolds == Spec => []Inv
  BY InitInv, StepInv, PTL DEF Spec

\* Whatever five vendors post, in any order and however late, the bot answers people: no
\* echo, receipt, edit, autoresponder or unaligned mail becomes a message, a job or a reply.
THEOREM PeopleAreAnswered == Spec => []OnlyPeopleAreAnswered
<1>1. Inv => OnlyPeopleAreAnswered
  BY DEF Inv, OnlyPeopleAreAnswered, MessageOK, JobOK, SentOK
<1> QED
  BY <1>1, InvHolds, PTL

\* Through batches of several tenants' pages, cached adapters, restarts and accounts that
\* are replaced, a reply leaves by an account of the tenant the customer wrote to, and by
\* none that was replaced before the sender's process began.
THEOREM TenantsAreKeptApart == Spec => []AnsweredByWhomTheyWroteTo
<1>1. Inv => AnsweredByWhomTheyWroteTo
  BY DEF Inv, AnsweredByWhomTheyWroteTo, SentOK, OwnedAt
<1> QED
  BY <1>1, InvHolds, PTL

\* For any window and any delay of the vendors: a freeform message goes to a customer who
\* wrote to the tenant less than a window ago, WhatsApp's delay added.
THEOREM WindowIsKept == Spec => []FreeformInsideWindow
<1>1. Inv => FreeformInsideWindow
  BY DEF Inv, FreeformInsideWindow, SentOK
<1> QED
  BY <1>1, InvHolds, PTL
-----------------------------------------------------------------------------
(***************************************************************************)
(* The thread of an exchange of mails, for customers who each write with    *)
(* one client: one that keeps references, or one that drops them.           *)
(***************************************************************************)
LEMMA ThreadUnchanged ==
    ASSUME ThreadInv, UNCHANGED <<written, inbound, jobs, sent>>, posts' \subseteq posts
    PROVE  ThreadInv'
  BY DEF ThreadInv

LEMMA LogSteps ==
    ASSUME NEW w \in Log
    PROVE  /\ w.id \in Nat /\ w.echoed \subseteq Nat /\ w.chats \subseteq Chats
           /\ [w EXCEPT !.count = @ + 1] \in Log
           /\ [w EXCEPT !.id = @ + 1] \in Log
           /\ [w EXCEPT !.agents = @ + 1] \in Log
           /\ \A n \in Nat : [w EXCEPT !.echoed = @ \cup {n}] \in Log
           /\ \A body \in Chats : [w EXCEPT !.chats = @ \cup {body}] \in Log
  BY DEF Log

LEMMA SubmitThread ==
    ASSUME ThreadInv, NEW body, Submit(body),
           body.vendor = "sendgrid" => \A e \in body.events : MailOK(e),
           written' \in Log,
           UNCHANGED sent
    PROVE  ThreadInv'
<1>1. /\ \A p \in posts' : p \in posts \/ p.body = body
      /\ UNCHANGED <<inbound, jobs>>
  BY DEF Submit
<1> QED
  BY <1>1 DEF ThreadInv

LEMMA WriteChatThread ==
    ASSUME ThreadInv, NEW body \in Chats, WriteChat(body) PROVE ThreadInv'
<1> DEFINE said == [body EXCEPT !.events = {[e EXCEPT !.said = now] : e \in body.events}]
<1>1. Submit(said) /\ UNCHANGED sent
  BY DEF WriteChat, Submit
<1>2. said.vendor # "sendgrid"
  BY ExchangeAssumption DEF Chat, Kinds
<1>3. written' \in Log
  <2>1. [written EXCEPT !.chats = @ \cup {body}] \in Log
    BY LogSteps DEF ThreadInv
  <2> QED
    BY <2>1, LogSteps DEF WriteChat
<1> HIDE DEF said
<1> QED
  BY <1>1, <1>2, <1>3, SubmitThread

LEMMA MailThread ==
    ASSUME ThreadInv, NEW mailer \in Mailers, NEW account, NEW kind, NEW refs, NEW irt, NEW root,
           Submit(Mail(mailer.from, account, kind, refs, irt, root)),
           written' = [written EXCEPT !.id = @ + 1, !.count = @ + 1],
           refs \in Seq(Nat), irt \in Nat \cup {NULL}, root \in Nat \cup {NULL},
           refs # <<>> => refs[1] = root,
           refs = <<>> /\ irt = NULL => root = NULL,
           Keeps(mailer.from) => refs # <<>> \/ irt = NULL,
           root = NULL => refs = <<>>
    PROVE  ThreadInv'
<1> DEFINE e == [to |-> account.address, from |-> mailer.from, id |-> written.id, kind |-> kind,
                 refs |-> refs, irt |-> irt, said |-> now, person |-> kind = "message",
                 root |-> IF root = NULL THEN written.id ELSE root]
           body == [vendor |-> "sendgrid", key |-> account.secret, object |-> NULL,
                    events |-> {e}]
<1>1. Submit(body) /\ UNCHANGED sent
  BY DEF Mail, Submit
<1>2. written.id \in Nat
  BY LogSteps DEF ThreadInv
<1>3. /\ e.from = mailer.from /\ e.id = written.id /\ e.refs = refs /\ e.irt = irt
      /\ e.root = IF root = NULL THEN written.id ELSE root
  OBVIOUS
<1>4. body.events = {e}
  OBVIOUS
<1> HIDE DEF e
<1>5. MailOK(e)
  BY <1>2, <1>3, Constants DEF MailOK
<1>6. written' \in Log
  <2>1. [written EXCEPT !.id = @ + 1] \in Log
    BY LogSteps DEF ThreadInv
  <2> QED
    BY <2>1, LogSteps
<1> HIDE DEF body
<1> QED
  BY <1>1, <1>4, <1>5, <1>6, SubmitThread

LEMMA WriteMailThread ==
    ASSUME ThreadInv, NEW mailer \in Mailers, NEW account, WriteMail(mailer, account)
    PROVE  ThreadInv'
<1>1. <<>> \in Seq(Nat)
  OBVIOUS
<1> QED
  BY <1>1, MailThread DEF WriteMail

LEMMA AnswerMailThread ==
    ASSUME ThreadInv, OneClientEach, NEW mailer \in Mailers, NEW account, NEW s \in sent,
           NEW kind, AnswerMail(mailer, account, s, kind)
    PROVE  ThreadInv'
<1> DEFINE refs == IF mailer.references THEN s.refs \o <<s.id>> ELSE <<>>
<1>1. /\ Submit(Mail(mailer.from, account, kind, refs, s.id, s.root))
      /\ written' = [written EXCEPT !.id = @ + 1, !.count = @ + 1]
      /\ s.channel = "email" /\ s.to = mailer.from
  BY DEF AnswerMail
<1>2. s.id \in Nat /\ SentMailOK(s)
  BY <1>1 DEF ThreadInv
<1>3. s.root \in Nat /\ s.refs \in Seq(Nat)
  BY <1>2 DEF SentMailOK
<1>4. mailer.references \in BOOLEAN
  BY ExchangeAssumption
<1>5. CASE mailer.references
  <2>1. refs = s.refs \o <<s.id>> /\ refs \in Seq(Nat) /\ refs # <<>>
    BY <1>2, <1>3, <1>5
  <2>2. s.root = IF s.refs = <<>> THEN s.id ELSE s.refs[1]
    BY <1>1, <1>2, <1>5 DEF SentMailOK, Keeps
  <2>3. refs[1] = s.root
    BY <1>2, <1>3, <2>1, <2>2
  <2> HIDE DEF refs
  <2> QED
    BY <1>1, <1>2, <1>3, <2>1, <2>3, Constants, MailThread
<1>6. CASE ~mailer.references
  <2>1. refs = <<>> /\ refs \in Seq(Nat)
    BY <1>6
  <2>2. ~Keeps(mailer.from)
    BY <1>6 DEF OneClientEach, Keeps
  <2>3. s.id # NULL /\ s.root # NULL
    BY <1>2, <1>3, Constants
  <2> HIDE DEF refs
  <2> QED
    BY <1>1, <1>2, <1>3, <2>1, <2>2, <2>3, MailThread
<1> QED
  BY <1>4, <1>5, <1>6

LEMMA EchoThread ==
    ASSUME ThreadInv, NEW s \in sent, NEW a \in accounts, Echo(s, a) PROVE ThreadInv'
<1> DEFINE body == [vendor |-> "meta", key |-> AppSecret, object |-> "page",
               events |-> {[to |-> s.from, from |-> s.from, id |-> s.id, kind |-> "echo",
                            refs |-> <<>>, irt |-> NULL, said |-> now, person |-> FALSE,
                            root |-> NULL]}]
<1>1. Submit(body) /\ UNCHANGED sent
  BY DEF Echo, Submit
<1>2. body.vendor # "sendgrid"
  OBVIOUS
<1>3. s.id \in Nat
  BY DEF ThreadInv
<1>4. written' \in Log
  <2>1. [written EXCEPT !.echoed = @ \cup {s.id}] \in Log
    BY <1>3, LogSteps DEF ThreadInv
  <2> QED
    BY <2>1, LogSteps DEF Echo
<1> HIDE DEF body
<1> QED
  BY <1>1, <1>2, <1>4, SubmitThread

LEMMA PostThread == ASSUME Inv, ThreadInv, NEW p \in posts, Post(p) PROVE ThreadInv'
<1>1. /\ posts' = posts \ {p} /\ UNCHANGED <<jobs, sent, written>>
      /\ \A m \in inbound' : m \in inbound \/ m \in Parse(accounts, p.body, now)
  BY DEF Post
<1>2. p.body.vendor \in {"twilio", "telegram", "sendgrid", "meta"}
  BY DEF Inv, PostOK
<1>3. ASSUME NEW m \in Parse(accounts, p.body, now), m.channel = "email"
      PROVE  Threaded(m.thread, m.sender, m.origin)
  <2>1. PICK e \in p.body.events :
           /\ m.sender = e.from /\ m.origin = e /\ m.channel = ChannelOf(p.body)
           /\ m.thread = IF p.body.vendor = "sendgrid" THEN ThreadRef(e) ELSE NULL
    BY <1>2, Parsed
  <2> QED
    BY <2>1 DEF ThreadInv, Threaded
<1> QED
  BY <1>1, <1>3 DEF ThreadInv

LEMMA HandleThread ==
    ASSUME ThreadInv, NEW m \in inbound, NEW answered \in BOOLEAN, Handle(m, answered)
    PROVE  ThreadInv'
<1> DEFINE j == Job(m, m.received, m.thread, m.origin)
<1>1. /\ inbound' = inbound \ {m} /\ UNCHANGED <<posts, sent, written>>
      /\ \A i \in jobs' : i \in jobs \/ i = j
  BY DEF Handle
<1>2. j.channel = m.channel /\ j.to = m.sender /\ j.thread = m.thread /\ j.origin = m.origin
  BY DEF Job
<1> HIDE DEF j
<1> QED
  BY <1>1, <1>2 DEF ThreadInv

LEMMA AgentReplyThread ==
    ASSUME ThreadInv, NEW key \in DOMAIN conversations, AgentReply(key)
    PROVE  ThreadInv'
<1> DEFINE j == Job([tenant |-> key[1], channel |-> key[2], sender |-> key[3]],
                    conversations[key], NULL, NULL)
<1>1. jobs' = jobs \cup {j} /\ UNCHANGED <<posts, inbound, sent>>
  BY DEF AgentReply
<1>2. j.thread = NULL
  BY DEF Job
<1> HIDE DEF j
<1>3. written' \in Log
  BY LogSteps DEF ThreadInv, AgentReply
<1> QED
  BY <1>1, <1>2, <1>3 DEF ThreadInv, Threaded

LEMMA DeliverThread == ASSUME ThreadInv, NEW job \in jobs, Deliver(job) PROVE ThreadInv'
<1> DEFINE mail(a) == [id |-> written.id, from |-> a.address, tenant |-> job.tenant,
                       channel |-> job.channel, to |-> job.to, refs |-> Headers(job),
                       root |-> IF job.thread = NULL THEN written.id ELSE job.origin.root,
                       ages |-> Ages(job), served |-> AddressesOf(job), origin |-> job.origin]
<1>1. PICK a : /\ jobs' = jobs \ {job} /\ sent' = sent \cup {mail(a)}
               /\ written' = [written EXCEPT !.id = @ + 1]
               /\ UNCHANGED <<posts, inbound>>
  BY DEF Deliver
<1>2. written.id \in Nat
  BY LogSteps DEF ThreadInv
<1>3. /\ mail(a).id = written.id /\ mail(a).channel = job.channel /\ mail(a).to = job.to
      /\ mail(a).refs = Headers(job) /\ mail(a).origin = job.origin
      /\ mail(a).root = IF job.thread = NULL THEN written.id ELSE job.origin.root
  OBVIOUS
<1> HIDE DEF mail
<1>4. ASSUME job.channel = "email" PROVE SentMailOK(mail(a))
  <2>1. CASE job.thread = NULL
    <3>1. mail(a).refs = <<>> /\ mail(a).root = written.id
      BY <1>3, <2>1 DEF Headers
    <3> QED
      BY <1>2, <1>3, <3>1 DEF SentMailOK
  <2>2. CASE job.thread # NULL
    <3> DEFINE e == job.origin
    <3>1. e.from = job.to /\ MailOK(e) /\ job.thread = ThreadRef(e)
      BY <1>4, <2>2 DEF ThreadInv, Threaded
    <3>2. mail(a).refs = <<job.thread>> /\ mail(a).root = e.root
      BY <1>3, <2>2 DEF Headers
    <3>3. /\ e.id \in Nat /\ e.root \in Nat /\ e.refs \in Seq(Nat) /\ e.irt \in Nat \cup {NULL}
          /\ (e.refs # <<>> => e.refs[1] = e.root)
          /\ (e.refs = <<>> /\ e.irt = NULL => e.id = e.root)
          /\ (Keeps(job.to) => e.refs # <<>> \/ e.irt = NULL)
      BY <3>1 DEF MailOK
    <3> HIDE DEF e
    <3>4. CASE e.refs # <<>>
      <4>1. job.thread = e.refs[1]
        BY <3>1, <3>4, <3>3 DEF ThreadRef
      <4>2. job.thread = e.root /\ job.thread \in Nat
        BY <4>1, <3>3, <3>4
      <4> QED
        BY <1>3, <3>2, <3>3, <3>4, <4>2 DEF SentMailOK, e
    <3>5. CASE e.refs = <<>> /\ e.irt = NULL
      <4>1. job.thread = e.root /\ job.thread \in Nat
        BY <3>1, <3>3, <3>5 DEF ThreadRef
      <4> QED
        BY <1>3, <3>2, <3>3, <3>5, <4>1 DEF SentMailOK, e
    <3>6. CASE e.refs = <<>> /\ e.irt # NULL
      <4>1. job.thread = e.irt /\ job.thread \in Nat /\ ~Keeps(job.to)
        BY <3>1, <3>3, <3>6 DEF ThreadRef
      <4> QED
        BY <1>3, <3>2, <3>3, <3>6, <4>1 DEF SentMailOK, e
    <3> QED
      BY <3>4, <3>5, <3>6
  <2> QED
    BY <2>1, <2>2
<1>5. written' \in Log
  BY <1>1, LogSteps DEF ThreadInv
<1> QED
  BY <1>1, <1>2, <1>3, <1>4, <1>5 DEF ThreadInv

LEMMA StepThread == Inv /\ OneClientEach /\ ThreadInv /\ [Next]_vars => ThreadInv'
<1> SUFFICES ASSUME Inv, OneClientEach, ThreadInv, [Next]_vars PROVE ThreadInv'
  OBVIOUS
<1>1. CASE Tick \/ RestartSender \/ (\E spare \in Spares : Rebind(spare)) \/ UNCHANGED vars
  BY <1>1, ThreadUnchanged DEF Tick, RestartSender, Rebind, vars
<1>2. CASE \E body \in Chats \ written.chats : WriteChat(body)
  BY <1>2, WriteChatThread
<1>3. CASE \E mailer \in Mailers, a \in accounts : WriteMail(mailer, a)
  BY <1>3, WriteMailThread
<1>4. CASE \E mailer \in Mailers, a \in accounts, s \in sent,
              kind \in {"message", "auto", "unaligned"} : AnswerMail(mailer, a, s, kind)
  BY <1>4, AnswerMailThread
<1>5. CASE \E s \in sent, a \in accounts : Echo(s, a)
  BY <1>5, EchoThread
<1>6. CASE \E p \in posts : Post(p)
  BY <1>6, PostThread
<1>7. CASE \E m \in inbound, answered \in BOOLEAN : Handle(m, answered)
  BY <1>7, HandleThread
<1>8. CASE \E key \in DOMAIN conversations : AgentReply(key)
  BY <1>8, AgentReplyThread
<1>9. CASE \E job \in jobs : Deliver(job)
  BY <1>9, DeliverThread
<1>10. CASE \E job \in jobs : Fail(job)
  <2>1. jobs' \subseteq jobs /\ UNCHANGED <<posts, inbound, sent, written>>
    BY <1>10 DEF Fail
  <2> QED
    BY <2>1 DEF ThreadInv
<1> QED
  BY <1>1, <1>2, <1>3, <1>4, <1>5, <1>6, <1>7, <1>8, <1>9, <1>10 DEF Next

\* However often a customer and the bot answer each other, and in whatever order their
\* mails come: each of ours names the root of its exchange, or what a client that drops
\* references answered.
THEOREM ThreadsStayWhole == ASSUME OneClientEach PROVE Spec => []ThreadKeepsItsRoot
<1>1. Init => ThreadInv
  <2> SUFFICES ASSUME Init PROVE ThreadInv
    OBVIOUS
  <2>1. /\ posts = {} /\ inbound = {} /\ jobs = {} /\ sent = {}
        /\ written = [count |-> 0, chats |-> {}, id |-> 1, echoed |-> {}, agents |-> 0]
    BY DEF Init
  <2> QED
    BY <2>1 DEF ThreadInv, Log
<1>2. Inv /\ ThreadInv /\ [Next]_vars => ThreadInv'
  BY StepThread
<1>3. ThreadInv => ThreadKeepsItsRoot
  BY DEF ThreadInv, SentMailOK, ThreadKeepsItsRoot
<1> QED
  BY <1>1, <1>2, <1>3, InvHolds, PTL DEF Spec
-----------------------------------------------------------------------------
(***************************************************************************)
(* The strengthening: a breaker counts no failure the provider has not had  *)
(* in a row, though calls in flight together and half-open circuits reset   *)
(* it; and a call that awaits a provider awaits one of its candidates.      *)
(***************************************************************************)
CountedOK == \A p \in Providers : failures[p] <= streak[p]
WaitingOK == \A c \in Calls : at[c] = "wait" => rest[c] # <<>>
RouterInv == TypeOK /\ CountedOK /\ WaitingOK /\ OpenAfterOutage /\ FailsOverWhatIsTheirs
-----------------------------------------------------------------------------
\* Whatever is excluded, a task's candidates are providers, in any order and number.
LEMMA CandidatesType ==
    ASSUME NEW task \in Tasks, NEW exclude PROVE Candidates(task, exclude) \in Seq(Providers)
<1>1. Primary[task] \in Providers /\ Failover[task] \in Providers \cup {Nobody}
  BY RouterAssumption
<1>2. /\ Unless(Primary[task], exclude) \in Seq(Providers)
      /\ Unless(Failover[task], exclude) \in Seq(Providers)
  BY <1>1 DEF Unless
<1> QED
  BY <1>2, ConcatProperties DEF Candidates

\* The candidate a call has reached is a provider, and what is left behind it are.
LEMMA CurrentCandidate ==
    ASSUME TypeOK, NEW c \in Calls, rest[c] # <<>>
    PROVE  Head(rest[c]) \in Providers /\ Tail(rest[c]) \in Seq(Providers)
<1>1. rest[c] \in Seq(Providers)
  BY DEF TypeOK
<1> QED
  BY <1>1, HeadTailProperties

\* A saturated counter keeps its range and its order.
LEMMA UpProperties ==
    ASSUME NEW m \in 0 .. MaxStreak, NEW n \in 0 .. MaxStreak, m <= n
    PROVE  /\ Up(m) \in 0 .. MaxStreak /\ Up(n) \in 0 .. MaxStreak /\ Up(m) <= Up(n)
           /\ m + 1 >= Threshold => Up(n) >= Threshold
  BY RouterAssumption DEF Up

LEMMA RouterInitInv == RouterInit => RouterInv
<1> SUFFICES ASSUME RouterInit PROVE RouterInv
  OBVIOUS
<1> USE RouterAssumption
<1>1. TypeOK
  BY DEF RouterInit, TypeOK, Replies
<1>2. CountedOK /\ WaitingOK /\ OpenAfterOutage /\ FailsOverWhatIsTheirs
  BY DEF RouterInit, CountedOK, WaitingOK, OpenAfterOutage, FailsOverWhatIsTheirs
<1> QED
  BY <1>1, <1>2 DEF RouterInv

LEMMA CompleteInv ==
    ASSUME RouterInv, NEW c \in Calls, NEW task \in Tasks, NEW exclude, Complete(c, task, exclude)
    PROVE  RouterInv'
<1> USE RouterAssumption DEF RouterInv, Complete, breaker
<1>1. /\ at' = [at EXCEPT ![c] = "pick"] /\ ended' = [ended EXCEPT ![c] = "ok"]
      /\ answer' = [answer EXCEPT ![c] = Nobody]
      /\ UNCHANGED <<failures, opened, age, tries, streak>>
  OBVIOUS
<1>2. rest' \in [Calls -> Seq(Providers)]
  BY CandidatesType DEF TypeOK
<1>3. TypeOK'
  BY <1>1, <1>2 DEF TypeOK, Replies
<1>4. CountedOK' /\ WaitingOK' /\ OpenAfterOutage'
  BY <1>1 DEF TypeOK, CountedOK, WaitingOK, OpenAfterOutage
<1>5. FailsOverWhatIsTheirs'
  BY <1>1 DEF TypeOK, FailsOverWhatIsTheirs
<1> QED
  BY <1>3, <1>4, <1>5

LEMMA SkipOpenInv == ASSUME RouterInv, NEW c \in Calls, SkipOpen(c) PROVE RouterInv'
<1> USE RouterAssumption DEF RouterInv, SkipOpen, breaker, history
<1>1. TypeOK'
  BY CurrentCandidate DEF TypeOK
<1>2. CountedOK' /\ WaitingOK' /\ OpenAfterOutage' /\ FailsOverWhatIsTheirs'
  BY DEF TypeOK, CountedOK, WaitingOK, OpenAfterOutage, FailsOverWhatIsTheirs
<1> QED
  BY <1>1, <1>2

LEMMA CallProviderInv == ASSUME RouterInv, NEW c \in Calls, CallProvider(c) PROVE RouterInv'
<1> USE RouterAssumption DEF RouterInv
<1> DEFINE p == Head(rest[c])
<1>1. p \in Providers /\ rest[c] # <<>>
  BY CurrentCandidate DEF CallProvider
<1> HIDE DEF p
<1>2. /\ at' = [at EXCEPT ![c] = "wait"] /\ tries' = [tries EXCEPT ![c] = 0]
      /\ UNCHANGED <<rest, answer, ended, streak>>
  BY DEF CallProvider, history
<1>3. \/ /\ opened' = [opened EXCEPT ![p] = FALSE]
         /\ failures' = [failures EXCEPT ![p] = 0]
         /\ age' = [age EXCEPT ![p] = 0]
      \/ UNCHANGED <<failures, opened, age>>
  BY DEF CallProvider, breaker, p
<1>4. /\ failures' \in [Providers -> 0 .. MaxStreak] /\ opened' \in [Providers -> BOOLEAN]
      /\ age' \in [Providers -> 0 .. ResetTicks]
  <2>1. 0 \in 0 .. MaxStreak /\ 0 \in 0 .. ResetTicks /\ FALSE \in BOOLEAN
    OBVIOUS
  <2>2. failures' \in [Providers -> 0 .. MaxStreak] /\ age' \in [Providers -> 0 .. ResetTicks]
    BY <1>3, <2>1 DEF TypeOK
  <2>3. opened' \in [Providers -> BOOLEAN]
    BY <1>3 DEF TypeOK
  <2> QED
    BY <2>2, <2>3
<1>5. TypeOK'
  BY <1>2, <1>4 DEF TypeOK
<1>6. CountedOK'
  <2>1. \A q \in Providers : failures'[q] = failures[q] \/ failures'[q] = 0
    BY <1>3 DEF TypeOK
  <2>2. \A q \in Providers : streak[q] \in Nat
    BY DEF TypeOK
  <2> QED
    BY <1>2, <2>1, <2>2 DEF CountedOK
<1>8. OpenAfterOutage'
  <2>1. \A q \in Providers : opened'[q] => opened[q]
    BY <1>3 DEF TypeOK
  <2> QED
    BY <1>2, <2>1 DEF OpenAfterOutage
<1>7. WaitingOK' /\ FailsOverWhatIsTheirs'
  BY <1>1, <1>2 DEF TypeOK, WaitingOK, FailsOverWhatIsTheirs
<1> QED
  BY <1>5, <1>6, <1>7, <1>8

LEMMA RetryInv == ASSUME RouterInv, NEW c \in Calls, NEW reply, Retry(c, reply) PROVE RouterInv'
<1> USE RouterAssumption DEF RouterInv, Retry, breaker, history
<1>1. TypeOK'
  BY DEF TypeOK
<1>2. CountedOK' /\ WaitingOK' /\ OpenAfterOutage' /\ FailsOverWhatIsTheirs'
  BY DEF CountedOK, WaitingOK, OpenAfterOutage, FailsOverWhatIsTheirs
<1> QED
  BY <1>1, <1>2

LEMMA AnsweredInv == ASSUME RouterInv, NEW c \in Calls, Answered(c) PROVE RouterInv'
<1> USE RouterAssumption DEF RouterInv, Answered
<1>1. Head(rest[c]) \in Providers /\ Head(rest[c]) # Nobody
  BY CurrentCandidate DEF WaitingOK
<1>2. TypeOK'
  <2>1. 0 \in 0 .. MaxStreak /\ 0 \in 0 .. ResetTicks /\ 0 \in 0 .. Retries
    BY DEF TypeOK
  <2>2. /\ failures' \in [Providers -> 0 .. MaxStreak] /\ opened' \in [Providers -> BOOLEAN]
        /\ age' \in [Providers -> 0 .. ResetTicks] /\ streak' \in [Providers -> 0 .. MaxStreak]
    BY <2>1 DEF TypeOK
  <2>3. /\ at' \in [Calls -> {"idle", "pick", "wait"}] /\ tries' \in [Calls -> 0 .. Retries]
        /\ answer' \in [Calls -> Providers \cup {Nobody}]
    BY <1>1, <2>1 DEF TypeOK
  <2> QED
    BY <2>2, <2>3 DEF TypeOK
<1>3. CountedOK' /\ OpenAfterOutage'
  BY <1>1 DEF TypeOK, CountedOK, OpenAfterOutage
<1>4. WaitingOK' /\ FailsOverWhatIsTheirs'
  BY <1>1 DEF TypeOK, WaitingOK, FailsOverWhatIsTheirs
<1> QED
  BY <1>2, <1>3, <1>4

LEMMA UnavailableInv ==
    ASSUME RouterInv, NEW c \in Calls, NEW reply, Unavailable(c, reply) PROVE RouterInv'
<1> USE RouterAssumption DEF RouterInv
<1> DEFINE p == Head(rest[c])
<1>1. p \in Providers /\ Tail(rest[c]) \in Seq(Providers)
  BY CurrentCandidate DEF Unavailable, WaitingOK
<1> HIDE DEF p
<1>2. /\ failures[p] \in 0 .. MaxStreak /\ streak[p] \in 0 .. MaxStreak
      /\ failures[p] <= streak[p]
  BY <1>1 DEF TypeOK, CountedOK
<1>3. /\ Up(failures[p]) \in 0 .. MaxStreak /\ Up(streak[p]) \in 0 .. MaxStreak
      /\ Up(failures[p]) <= Up(streak[p])
      /\ failures[p] + 1 >= Threshold => Up(streak[p]) >= Threshold
  BY <1>2, UpProperties
<1>4. /\ failures' = [failures EXCEPT ![p] = Up(failures[p])]
      /\ streak' = [streak EXCEPT ![p] = Up(streak[p])]
      /\ IF failures[p] + 1 >= Threshold
            THEN opened' = [opened EXCEPT ![p] = TRUE] /\ age' = [age EXCEPT ![p] = 0]
            ELSE UNCHANGED <<opened, age>>
      /\ rest' = [rest EXCEPT ![c] = Tail(rest[c])]
      /\ at' = [at EXCEPT ![c] = "pick"]
      /\ tries' = [tries EXCEPT ![c] = 0]
      /\ UNCHANGED <<answer, ended>>
  BY DEF Unavailable, p
<1>5. TypeOK'
  <2>1. failures' \in [Providers -> 0 .. MaxStreak] /\ streak' \in [Providers -> 0 .. MaxStreak]
    BY <1>1, <1>3, <1>4 DEF TypeOK
  <2>2. opened' \in [Providers -> BOOLEAN] /\ age' \in [Providers -> 0 .. ResetTicks]
    <3>1. \/ opened' = [opened EXCEPT ![p] = TRUE] /\ age' = [age EXCEPT ![p] = 0]
          \/ opened' = opened /\ age' = age
      BY <1>4
    <3>2. opened \in [Providers -> BOOLEAN] /\ age \in [Providers -> 0 .. ResetTicks]
      BY DEF TypeOK
    <3>3. opened' \in [Providers -> BOOLEAN]
      BY <3>1, <3>2
    <3>4. 0 \in 0 .. ResetTicks
      OBVIOUS
    <3>5. age' \in [Providers -> 0 .. ResetTicks]
      BY <3>1, <3>2, <3>4, Zenon
    <3> QED
      BY <3>3, <3>5
  <2>3. rest' \in [Calls -> Seq(Providers)]
    BY <1>1, <1>4 DEF TypeOK
  <2>4. /\ at' \in [Calls -> {"idle", "pick", "wait"}] /\ tries' \in [Calls -> 0 .. Retries]
        /\ answer' = answer /\ ended' = ended
    BY <1>4 DEF TypeOK
  <2> QED
    BY <2>1, <2>2, <2>3, <2>4 DEF TypeOK
<1>6. CountedOK'
  BY <1>1, <1>3, <1>4 DEF TypeOK, CountedOK
<1>7. OpenAfterOutage'
  <2> SUFFICES ASSUME NEW q \in Providers, opened'[q] PROVE streak'[q] >= Threshold
    BY DEF OpenAfterOutage
  <2>1. CASE q # p
    BY <1>4, <2>1 DEF TypeOK, OpenAfterOutage
  <2>2. CASE q = p
    <3>1. streak'[p] = Up(streak[p])
      BY <1>1, <1>4 DEF TypeOK
    <3>2. opened[p] => Up(streak[p]) >= Threshold
      BY <1>1, <1>2 DEF OpenAfterOutage, Up
    <3> QED
      BY <1>3, <1>4, <2>2, <3>1, <3>2
  <2> QED
    BY <2>1, <2>2
<1>8. WaitingOK' /\ FailsOverWhatIsTheirs'
  BY <1>4 DEF TypeOK, WaitingOK, FailsOverWhatIsTheirs
<1> QED
  BY <1>5, <1>6, <1>7, <1>8

LEMMA RejectedInv ==
    ASSUME RouterInv, NEW c \in Calls, NEW reply \in Replies, Rejected(c, reply) PROVE RouterInv'
<1> USE RouterAssumption DEF RouterInv, Rejected, breaker
<1>1. TypeOK'
  BY DEF TypeOK
<1>1a. CountedOK' /\ OpenAfterOutage'
  BY DEF CountedOK, OpenAfterOutage
<1>1b. WaitingOK'
  BY DEF TypeOK, WaitingOK
<1>2. reply \in {"malformed", "garbled"}
  BY DEF Ours, Theirs, OutOfBudget, Replies
<1>3. FailsOverWhatIsTheirs'
  BY <1>2 DEF TypeOK, FailsOverWhatIsTheirs
<1> QED
  BY <1>1, <1>1a, <1>1b, <1>3

LEMMA ExhaustedInv == ASSUME RouterInv, NEW c \in Calls, Exhausted(c) PROVE RouterInv'
<1> USE RouterAssumption DEF RouterInv, Exhausted, breaker, history
<1> QED
  BY DEF TypeOK, CountedOK, WaitingOK, OpenAfterOutage, FailsOverWhatIsTheirs

LEMMA ElapseInv == RouterInv /\ Elapse => RouterInv'
<1> SUFFICES ASSUME RouterInv, Elapse PROVE RouterInv'
  OBVIOUS
<1> USE RouterAssumption DEF RouterInv, Elapse, call, history
<1>1. TypeOK'
  BY DEF TypeOK
<1>2. CountedOK' /\ WaitingOK' /\ OpenAfterOutage' /\ FailsOverWhatIsTheirs'
  BY DEF CountedOK, WaitingOK, OpenAfterOutage, FailsOverWhatIsTheirs
<1> QED
  BY <1>1, <1>2

LEMMA RouterStep == RouterInv /\ [RouterNext]_routerVars => RouterInv'
<1> SUFFICES ASSUME RouterInv, [RouterNext]_routerVars PROVE RouterInv'
  OBVIOUS
<1>1. CASE Elapse
  BY <1>1, ElapseInv
<1>2. ASSUME NEW c \in Calls, Turn(c) \/ Judge(c) PROVE RouterInv'
  BY <1>2, CompleteInv DEF Turn, Judge
<1>3. ASSUME NEW c \in Calls, Proceed(c) PROVE RouterInv'
  BY <1>3, SkipOpenInv, CallProviderInv, ExhaustedInv DEF Proceed
<1>4. ASSUME NEW c \in Calls, Respond(c) PROVE RouterInv'
  BY <1>4, AnsweredInv, RetryInv, UnavailableInv, RejectedInv DEF Respond, Fails
<1>5. CASE UNCHANGED routerVars
  BY <1>5 DEF routerVars, breaker, call, history, RouterInv, TypeOK, CountedOK, WaitingOK, OpenAfterOutage,
     FailsOverWhatIsTheirs
<1> QED
  BY <1>1, <1>2, <1>3, <1>4, <1>5 DEF RouterNext

LEMMA RouterHolds == RouterSpec => []RouterInv
  BY RouterInitInv, RouterStep, PTL DEF RouterSpec

\* _Breaker opens on an outage and on nothing else: however many calls share it and
\* whichever of them half-opens it, a threshold of failures in a row came first.
THEOREM OpensOnOutagesOnly == RouterSpec => []OpenAfterOutage
<1>1. RouterInv => OpenAfterOutage
  BY DEF RouterInv
<1> QED
  BY RouterHolds, <1>1, PTL

\* complete() gives a call up with a candidate untried only over a reply that is
\* our own fault.
THEOREM GivesUpOnOurFaultOnly == RouterSpec => []FailsOverWhatIsTheirs
<1>1. RouterInv => FailsOverWhatIsTheirs
  BY DEF RouterInv
<1> QED
  BY RouterHolds, <1>1, PTL
=============================================================================
