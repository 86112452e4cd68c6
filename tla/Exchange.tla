------------------------------- MODULE Exchange -------------------------------
(***************************************************************************)
(* What customers write on every channel, as far as the reply they get:     *)
(* the adapters, the conversation's last_inbound_at, the jobs of the bot    *)
(* and of the inbox, and senders.py's registry of adapters in the sender.   *)
(* Time is in ticks; Intake and OutboundSender have the queues' faults.     *)
(***************************************************************************)
EXTENDS Adapters

CONSTANTS Accounts,    \* channel_accounts as they start
          Spares,      \* accounts that may take the place of their tenant's own
          Chats,       \* bodies of the chat vendors, each posted once
          Mailers,     \* customers who write email: [from, references]
          Window,      \* service_window_hours, where a channel has one
          MaxDelay,    \* bound: how late a vendor posts
          MaxTime, MaxWritten, MaxReplies  \* bounds: ticks, what customers and pages write, agents' replies

Windowed == {"whatsapp", "messenger", "instagram"}

\* What the chat vendors post, each by its kinds of event: only a message is a person's.
Kinds == [twilio |-> {"message"}, telegram |-> {"message", "edit"},
          meta |-> {"message", "echo", "receipt"}]
Event == [to : STRING, from : STRING, id : Nat, kind : UNION {Kinds[v] : v \in DOMAIN Kinds},
          refs : Seq(Nat), irt : Nat \cup {NULL}, said : Nat, person : BOOLEAN,
          root : Nat \cup {NULL}]
Chat  == [vendor : DOMAIN Kinds, key : STRING \cup {NULL}, object : STRING \cup {NULL},
          events : SUBSET Event]

\* A Meta body's object is the product of the accounts its entries are for: pages and
\* Instagram accounts are numbered apart.
ProductOf(body, account) == account.channel \in {"messenger", "instagram"}
                            => account.channel = ChannelOf(body)

ASSUME ExchangeAssumption ==
    /\ {Window, MaxDelay, MaxTime, MaxWritten, MaxReplies} \subseteq Nat /\ NULL \notin Nat
    /\ Mailers \subseteq [from : STRING, references : BOOLEAN]
    /\ \A body \in Chats :
          /\ body \in Chat
          /\ \A e \in body.events :
                /\ e.kind \in Kinds[body.vendor] /\ (e.person <=> e.kind = "message")
                /\ body.vendor = "meta" => \A a \in Accounts \cup Spares :
                      a.address = e.to => ProductOf(body, a)

VARIABLES now,
          accounts,       \* channel_accounts
          posts,          \* what vendors have yet to post: [body, at]
          claims,         \* the provider message ids claimed
          inbound,        \* messages a worker has yet to handle
          conversations,  \* last_inbound_at, by tenant, channel and sender
          jobs,           \* the outbound stream
          cache,          \* SqlSenderRegistry._cache, by tenant and channel
          sent,           \* what vendors took
          wrote,          \* history: when a customer last wrote to an address of a channel
          owned,          \* history: every account a tenant has had
          served,         \* history: the accounts there were since the sender's process began
          written         \* what customers wrote: how much and what, and the next id

vars == <<now, accounts, posts, claims, inbound, conversations, jobs, cache, sent, wrote, owned, served, written>>

Init ==
    /\ now = 0 /\ accounts = Accounts /\ owned = Accounts /\ served = Accounts
    /\ posts = {} /\ claims = {}
    /\ inbound = {} /\ conversations = <<>> /\ jobs = {} /\ cache = <<>> /\ sent = {}
    /\ wrote = <<>> /\ written = [count |-> 0, chats |-> {}, id |-> 1, echoed |-> {},
                                  agents |-> 0]

Tick == /\ now < MaxTime /\ now' = now + 1
        /\ UNCHANGED <<accounts, posts, claims, inbound, conversations, jobs, cache, sent, wrote, owned, served, written>>

\* Who wrote, and where to.
Writing(body) == {<<ChannelOf(body), e.to, e.from>> : e \in {f \in body.events : f.person}}
Wrote(body)   == [w \in Writing(body) \cup DOMAIN wrote |->
                     IF w \in Writing(body) THEN now ELSE wrote[w]]

Submit(body) ==
    /\ posts' = posts \cup {[body |-> body, at |-> now]}
    /\ wrote' = Wrote(body)
    /\ UNCHANGED <<now, accounts, claims, inbound, conversations, jobs, cache, sent, owned, served>>

\* A chat vendor's body, with the moment it was written in it.
WriteChat(body) ==
    /\ written.count < MaxWritten
    /\ written' = [written EXCEPT !.chats = @ \cup {body}, !.count = @ + 1]
    /\ Submit([body EXCEPT !.events = {[e EXCEPT !.said = now] : e \in body.events}])

\* A customer's mail, or the answer their mail client or their autoresponder, or a domain
\* that is not aligned, gives to one of ours: the references of what it answers, or In-Reply-To alone.
Mail(from, account, kind, refs, irt, root) ==
    [vendor |-> "sendgrid", key |-> account.secret, object |-> NULL,
     events |-> {[to |-> account.address, from |-> from, id |-> written.id, kind |-> kind,
                  refs |-> refs, irt |-> irt, said |-> now, person |-> kind = "message",
                  root |-> IF root = NULL THEN written.id ELSE root]}]
WriteMail(mailer, account) ==
    /\ account.channel = "email" /\ written.count < MaxWritten
    /\ written' = [written EXCEPT !.id = @ + 1, !.count = @ + 1]
    /\ Submit(Mail(mailer.from, account, "message", <<>>, NULL, NULL))
AnswerMail(mailer, account, mail, kind) ==
    /\ account.channel = "email" /\ written.count < MaxWritten
    /\ mail.channel = "email" /\ mail.to = mailer.from /\ mail.from = account.address
    /\ written' = [written EXCEPT !.id = @ + 1, !.count = @ + 1]
    /\ Submit(Mail(mailer.from, account, kind,
                   IF mailer.references THEN mail.refs \o <<mail.id>> ELSE <<>>, mail.id, mail.root))

\* A Meta page's own message, which its webhook hears of too.
Echo(mail, account) ==
    /\ mail.channel = "messenger" /\ account.channel = "messenger" /\ account.address = mail.from
    /\ mail.id \notin written.echoed /\ written.count < MaxWritten
    /\ written' = [written EXCEPT !.echoed = @ \cup {mail.id}, !.count = @ + 1]
    /\ Submit([vendor |-> "meta", key |-> AppSecret, object |-> "page",
               events |-> {[to |-> mail.from, from |-> mail.from, id |-> mail.id, kind |-> "echo",
                            refs |-> <<>>, irt |-> NULL, said |-> now, person |-> FALSE,
                            root |-> NULL]}])

\* A webhook's request: found, verified, parsed, claimed and queued.  A vendor that was
\* refused or not answered posts again for as long as MaxDelay.
Post(p) ==
    /\ now - p.at <= MaxDelay
    /\ posts' = posts \ {p}
    /\ LET fresh == {m \in Parse(accounts, p.body, now) : m.id \notin claims}
       IN  /\ inbound' = inbound \cup fresh
           /\ claims' = claims \cup {m.id : m \in fresh}
    /\ UNCHANGED <<now, accounts, conversations, jobs, cache, sent, wrote, owned, served, written>>

Key(m) == <<m.tenant, m.channel, m.sender>>
Job(m, last, thread, origin) ==
    [tenant |-> m.tenant, channel |-> m.channel, to |-> m.sender, last |-> last,
     thread |-> thread, origin |-> origin]

\* save or touch: the message's own time, whatever is there already.  A retried message
\* is handled after those that came later; a conversation a person has gets no reply.
Handle(m, answered) ==
    /\ inbound' = inbound \ {m}
    /\ conversations' = [k \in DOMAIN conversations \cup {Key(m)} |->
                            IF k = Key(m) THEN m.received ELSE conversations[k]]
    /\ jobs' = IF answered THEN jobs \cup {Job(m, m.received, m.thread, m.origin)} ELSE jobs
    /\ UNCHANGED <<now, accounts, posts, claims, cache, sent, wrote, owned, served, written>>

\* The inbox's reply: the conversation's window, and no thread.
AgentReply(key) ==
    /\ written.agents < MaxReplies /\ written' = [written EXCEPT !.agents = @ + 1]
    /\ jobs' = jobs \cup {Job([tenant |-> key[1], channel |-> key[2], sender |-> key[3]],
                              conversations[key], NULL, NULL)}
    /\ UNCHANGED <<now, accounts, posts, claims, inbound, conversations, cache, sent, wrote, owned, served>>

\* Slip: an adapter is cached for its channel.
CachedByChannel(job) ==
    LET same == {k \in DOMAIN cache : k[2] = job.channel}
    IN  IF same # {} THEN {cache[CHOOSE k \in same : TRUE]}
        ELSE {a \in accounts : a.tenant = job.tenant /\ a.channel = job.channel}

\* for_job: the adapter built first for the tenant's channel, or its row's.
Sender(job) ==
    IF <<job.tenant, job.channel>> \in DOMAIN cache THEN {cache[<<job.tenant, job.channel>>]}
    ELSE {a \in accounts : a.tenant = job.tenant /\ a.channel = job.channel}

\* Slip: the hour the window ends is in it.
WithinOrAt(job) == job.channel \in Windowed => now - job.last <= Window

\* _within_window, by the clock of the send.  A job's last_inbound_at is never None here.
Within(job) == job.channel \in Windowed => now - job.last < Window

\* _headers: the one reference the job carries, as References and as In-Reply-To.
Headers(job) == IF job.thread = NULL THEN <<>> ELSE <<job.thread>>

\* How long ago the customer last wrote to each account the tenant has had.
Ages(job) ==
    {now - wrote[w] : w \in {v \in DOMAIN wrote :
        /\ v[1] = job.channel /\ v[3] = job.to
        /\ \E a \in owned : a.tenant = job.tenant /\ a.channel = v[1] /\ a.address = v[2]}}

\* The addresses the job's tenant has had on its channel while this sender's process ran.
AddressesOf(job) == {a.address : a \in {b \in served : b.tenant = job.tenant /\ b.channel = job.channel}}

\* send: one account, a window that is open, and a vendor that takes it.
Deliver(job) ==
    \E a \in Sender(job) :
        /\ Cardinality(Sender(job)) = 1 /\ Within(job)
        /\ cache' = [k \in DOMAIN cache \cup {<<job.tenant, job.channel>>} |->
                        IF k = <<job.tenant, job.channel>> THEN a ELSE cache[k]]
        /\ jobs' = jobs \ {job}
        /\ sent' = sent \cup {
              [id |-> written.id, from |-> a.address, tenant |-> job.tenant, channel |-> job.channel,
               to |-> job.to, refs |-> Headers(job),
               root |-> IF job.thread = NULL THEN written.id ELSE job.origin.root,
               ages |-> Ages(job), served |-> AddressesOf(job), origin |-> job.origin]}
        /\ written' = [written EXCEPT !.id = @ + 1]
        /\ UNCHANGED <<now, accounts, posts, claims, inbound, conversations, wrote, owned, served>>

\* Unroutable, or OutsideServiceWindow as often as it is delivered: the job is buried.
Fail(job) ==
    /\ Cardinality(Sender(job)) # 1 \/ ~Within(job)
    /\ jobs' = jobs \ {job}
    /\ UNCHANGED <<now, accounts, posts, claims, inbound, conversations, cache, sent, wrote, owned, served, written>>

\* An operator gives a tenant's channel another account; nothing tells the sender.
Rebind(spare) ==
    /\ spare \notin owned
    /\ accounts' = {a \in accounts : a.tenant # spare.tenant \/ a.channel # spare.channel} \cup {spare}
    /\ owned' = owned \cup {spare} /\ served' = served \cup {spare}
    /\ UNCHANGED <<now, posts, claims, inbound, conversations, jobs, cache, sent, wrote, written>>

\* aclose: the sender's process ends and another begins.
RestartSender ==
    /\ cache' = <<>> /\ served' = accounts
    /\ UNCHANGED <<now, accounts, posts, claims, inbound, conversations, jobs, sent, wrote, owned, written>>

Next ==
    \/ Tick \/ RestartSender
    \/ \E body \in Chats \ written.chats : WriteChat(body)
    \/ \E mailer \in Mailers, a \in accounts :
          \/ WriteMail(mailer, a)
          \/ \E s \in sent, kind \in {"message", "auto", "unaligned"} : AnswerMail(mailer, a, s, kind)
    \/ \E s \in sent, a \in accounts : Echo(s, a)
    \/ \E p \in posts : Post(p)
    \/ \E m \in inbound, answered \in BOOLEAN : Handle(m, answered)
    \/ \E key \in DOMAIN conversations : AgentReply(key)
    \/ \E job \in jobs : Deliver(job) \/ Fail(job)
    \/ \E spare \in Spares : Rebind(spare)

Spec == Init /\ [][Next]_vars
-----------------------------------------------------------------------------
\* The bot answers people: no echo of its own messages and no machine's mail, which would
\* answer it back.
OnlyPeopleAreAnswered ==
    \A m \in inbound \cup {j \in jobs \cup sent : j.origin # NULL} : m.origin.person

\* A reply leaves by an account of the tenant that was written to, and that tenant's alone;
\* one that was replaced is used by no sender that began after it was.
AnsweredByWhomTheyWroteTo ==
    \A s \in sent :
        /\ s.from \in s.served
        /\ s.origin # NULL =>
              \E a \in owned : a.tenant = s.tenant /\ a.channel = s.channel /\ a.address = s.origin.to

\* What a vendor may take to post what our webhook then takes the time of.
Late(channel) == IF channel = "whatsapp" THEN MaxDelay ELSE 0

\* Freeform text goes out only while the customer's own last message opens the window, give
\* or take what a vendor took to post it.
FreeformInsideWindow ==
    \A s \in sent : s.channel \in Windowed => \E age \in s.ages : age < Window + Late(s.channel)

\* Every mail of ours names the root of the exchange it is part of; one to a client that
\* keeps no references names the mail of ours that client answered.
ThreadKeepsItsRoot ==
    \A s \in sent : s.channel = "email" /\ s.refs # <<>> =>
        s.refs[1] = IF s.origin.irt = NULL \/ s.origin.refs # <<>> THEN s.origin.root
                                                                 ELSE s.origin.irt
=============================================================================
