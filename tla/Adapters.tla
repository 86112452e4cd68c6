------------------------------- MODULE Adapters -------------------------------
(***************************************************************************)
(* channels/twilio_wa.py, telegram.py, meta.py, sendgrid_email.py and       *)
(* accounts.py: what a vendor posts, made a tenant's messages.  Pure.       *)
(*                                                                         *)
(* A body: [vendor, key, object, events].  An event: [to, from, id, kind,   *)
(* refs, irt, said], its id unique to what the vendor numbers by, and       *)
(* [root, person] for the history.  An account: [tenant, channel, address,  *)
(* secret].                                                                 *)
(***************************************************************************)
EXTENDS Naturals, Sequences, FiniteSets

CONSTANTS AppSecret,   \* Meta's one secret, every page's
          NULL

\* The channel a body is for: Meta's depends on its object, and may be none of ours.
ChannelOf(body) ==
    IF body.vendor = "twilio"         THEN "whatsapp"
    ELSE IF body.vendor = "telegram"  THEN "telegram"
    ELSE IF body.vendor = "sendgrid"  THEN "email"
    ELSE IF body.object = "page"      THEN "messenger"
    ELSE IF body.object = "instagram" THEN "instagram" ELSE NULL

\* resolve, by the address alone: the tenant is what it finds out.
Resolve(accounts, channel, ref) == {a \in accounts : a.channel = channel /\ a.address = ref}

\* meta_update's loop, and the other routes' one lookup: a page is looked for under
\* messenger and only then under instagram, whatever the object says.
Served(accounts, body) ==
    LET Found(ref) ==
            IF body.vendor # "meta" THEN Resolve(accounts, ChannelOf(body), ref)
            ELSE IF Resolve(accounts, "messenger", ref) # {} THEN Resolve(accounts, "messenger", ref)
            ELSE Resolve(accounts, "instagram", ref)
    IN  UNION {Found(e.to) : e \in body.events}

\* Telegram and SendGrid send the account's secret back; Twilio and Meta sign with it, and
\* Meta's is the app's.  Nobody presents what is not configured.
TelegramSecret(body, account) == body.key = account.secret
SendGridSecret(body, account) == body.key = account.secret
TwilioSignature(body, account) == body.key = account.secret
MetaSignature(body) == body.key = AppSecret
Verified(body, account) ==
    /\ body.key # NULL
    /\ CASE body.vendor = "telegram" -> TelegramSecret(body, account)
         [] body.vendor = "sendgrid" -> SendGridSecret(body, account)
         [] body.vendor = "twilio"   -> TwilioSignature(body, account)
         [] OTHER                    -> MetaSignature(body)

\* _is_customer_turn: our own messages come back, and so do receipts.
IsCustomerTurn(event) == event.kind \notin {"echo", "receipt"}

\* _MESSAGE_KEYS: of a chat's updates, the new messages.
IsNewMessage(event) == event.kind # "edit"

\* _refuse_machine_mail: what no person wrote is not to be answered.
IsByPerson(event) == event.kind # "auto"

\* authentication: a domain that is aligned with the From stands behind it.
IsAuthenticated(event) == event.kind # "unaligned"

\* Slip: an echo of our own message is a message like any other.
AnyMessage(vendor, event) == event.kind \in {"message", "echo"}

IsTurn(vendor, event) ==
    /\ vendor = "meta"     => IsCustomerTurn(event)
    /\ vendor = "telegram" => IsNewMessage(event)
    /\ vendor = "sendgrid" => IsByPerson(event) /\ IsAuthenticated(event)

\* Slip: the leaf, the message that was replied to.
LastReference(event) ==
    IF event.refs # <<>> THEN event.refs[Len(event.refs)]
    ELSE IF event.irt # NULL THEN event.irt ELSE event.id

\* _thread_ref: the first reference, what it is in reply to, or itself.
ThreadRef(event) ==
    IF event.refs # <<>> THEN Head(event.refs)
    ELSE IF event.irt # NULL THEN event.irt ELSE event.id

\* Each vendor's normalized message.  Meta and Telegram say when it was sent; Twilio's and
\* an email are received when they are parsed, however late they are posted.  A Telegram
\* id is unique in its chat.
Normalized(event, account, channel, id, received, thread) ==
    [tenant |-> account.tenant, channel |-> channel, sender |-> event.from, id |-> id,
     received |-> received, thread |-> thread, origin |-> event]
TwilioMessage(e, account, now) == Normalized(e, account, "whatsapp", <<e.id>>, now, NULL)
TelegramMessage(e, account)    == Normalized(e, account, "telegram", <<e.from, e.id>>, e.said, NULL)
MetaMessage(e, account, channel) == Normalized(e, account, channel, <<e.id>>, e.said, NULL)
EmailMessage(e, account, now)  == Normalized(e, account, "email", <<e.id>>, now, ThreadRef(e))
Message(body, event, account, now) ==
    IF body.vendor = "twilio"        THEN TwilioMessage(event, account, now)
    ELSE IF body.vendor = "telegram" THEN TelegramMessage(event, account)
    ELSE IF body.vendor = "sendgrid" THEN EmailMessage(event, account, now)
    ELSE MetaMessage(event, account, ChannelOf(body))

\* _events: another page's entries are another tenant's.
EventsFor(body, account) == {e \in body.events : e.to = account.address}

\* parse_inbound, over every account the body serves.
Parse(accounts, body, now) ==
    LET verified == {a \in Served(accounts, body) : Verified(body, a)}
    IN  IF ChannelOf(body) = NULL THEN {}
        ELSE UNION {{Message(body, e, a, now)
                       : e \in {f \in EventsFor(body, a) : IsTurn(body.vendor, f)}} : a \in verified}
=============================================================================
