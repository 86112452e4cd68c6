------------------------------- MODULE Intake -------------------------------
(***************************************************************************)
(* api/webhooks.py with the idempotency log and the queue of                *)
(* channels/valkey.py: a vendor POSTs a delivery, the handler claims each   *)
(* message id it carries, puts the message on the inbound stream and only   *)
(* then answers 200.  Twilio, Telegram and email deliveries carry one       *)
(* message, Meta's carry several; the loop is the same.                     *)
(*                                                                         *)
(* Vendors redeliver what they were not told was delivered, and now and     *)
(* then what they were.  A call to Valkey can fail, and can also be applied *)
(* and still raise, when the reply is lost or late.                         *)
(***************************************************************************)
EXTENDS Naturals, FiniteSets

CONSTANTS Messages,      \* customers' messages, each to one account
          Ids, IdOf,     \* the provider_message_id the adapter gives each
          Deliveries,    \* POST bodies a vendor may send
          Carries,       \* the messages in each
          Verdict,       \* what verification and parsing may make of it
          Requests,      \* requests being served at one time
          None,          \* no delivery or message
          MaxFails,      \* bound: Valkey calls that fail outright
          MaxLost,       \* bound: Valkey calls applied whose reply is lost
          MaxCrashes,    \* bound: handlers that die
          MaxExpiries,   \* bound: claims that outlive their TTL
          MaxRepeats     \* bound: redeliveries after a 200

ASSUME IntakeAssumption ==
    /\ Carries \in [Deliveries -> SUBSET Messages]
    /\ IdOf \in [Messages -> Ids]
    /\ None \notin Messages \cup Deliveries
    /\ Verdict \in [Deliveries -> SUBSET {"accepted", "ignored", "refused"}]
    /\ IsFiniteSet(Requests) /\ IsFiniteSet(Messages)
    /\ {MaxFails, MaxLost, MaxCrashes, MaxExpiries, MaxRepeats} \subseteq Nat

VARIABLES claims,    \* the keys SET NX EX holds
          queued,    \* entries on the inbound stream, per message
          at,        \* where each request is
          serving,   \* the delivery each request serves
          left,      \* messages of it the loop has not finished
          current,   \* the message the loop is on
          told,      \* deliveries the vendor was answered 200 for
          early,     \* history: messages passed over as duplicates while their
                     \* claimant was still on its way to the queue
          fails, lost, crashes, expiries, repeats

faults  == <<fails, lost, crashes, expiries, repeats>>
request == <<at, serving, left, current>>
vars    == <<claims, queued, request, told, early, faults>>

Stages == {"idle", "verify", "claim", "publish", "release"}

Init ==
    /\ claims = {}
    /\ queued = [m \in Messages |-> 0]
    /\ at = [r \in Requests |-> "idle"]
    /\ serving = [r \in Requests |-> None]
    /\ left = [r \in Requests |-> {}]
    /\ current = [r \in Requests |-> None]
    /\ told = {} /\ early = {}
    /\ fails = 0 /\ lost = 0 /\ crashes = 0 /\ expiries = 0 /\ repeats = 0

\* How a call to Valkey ends: "ok", "fail" (not applied) or "lost" (applied, raises).
Call(outcome) ==
    /\ \/ outcome = "ok"   /\ UNCHANGED <<fails, lost>>
       \/ outcome = "fail" /\ fails < MaxFails /\ fails' = fails + 1 /\ UNCHANGED lost
       \/ outcome = "lost" /\ lost < MaxLost /\ lost' = lost + 1 /\ UNCHANGED fails
    /\ UNCHANGED <<crashes, expiries, repeats>>
Outcomes == {"ok", "fail", "lost"}
Applied(outcome) == outcome \in {"ok", "lost"}

\* The vendor POSTs a delivery it was not told about, or repeats one it was.
Post(r, d) ==
    /\ at[r] = "idle"
    /\ IF d \in told
          THEN repeats < MaxRepeats /\ repeats' = repeats + 1
          ELSE UNCHANGED repeats
    /\ at' = [at EXCEPT ![r] = "verify"]
    /\ serving' = [serving EXCEPT ![r] = d]
    /\ left' = [left EXCEPT ![r] = Carries[d]]
    /\ UNCHANGED <<claims, queued, current, told, early, fails, lost, crashes, expiries>>

\* The request is over, and all it held in memory with it.
Over(r, then) ==
    /\ at' = [at EXCEPT ![r] = then]
    /\ serving' = [serving EXCEPT ![r] = None]
    /\ left' = [left EXCEPT ![r] = {}]
    /\ current' = [current EXCEPT ![r] = None]

\* The response: 200 tells the vendor, anything else asks for a retry.
Answer(r, ok) ==
    /\ told' = IF ok THEN told \cup {serving[r]} ELSE told
    /\ Over(r, "idle")

\* The loop takes up another message of the delivery, or answers 200 after the last.
NextMessage(r, remaining) ==
    IF remaining = {}
       THEN Answer(r, TRUE)
       ELSE /\ at' = [at EXCEPT ![r] = "claim"]
            /\ left' = [left EXCEPT ![r] = remaining]
            /\ \E m \in remaining : current' = [current EXCEPT ![r] = m]
            /\ UNCHANGED <<serving, told>>

(***************************************************************************)
(* Account, credential and body are checked before anything is claimed.     *)
(* A refusal is a 4xx; a delivery that is not a customer's message is       *)
(* answered 200 and processed as nothing.                                   *)
(* What comes of it may change with the account between two POSTs.          *)
(***************************************************************************)
Verify(r) ==
    /\ at[r] = "verify"
    /\ \/ "refused" \in Verdict[serving[r]] /\ Answer(r, FALSE)
       \/ "ignored" \in Verdict[serving[r]] /\ Answer(r, TRUE)
       \/ "accepted" \in Verdict[serving[r]] /\ NextMessage(r, left[r])
    /\ UNCHANGED <<claims, queued, early, faults>>

\* The claim was won: on to the queue.
Proceed(r) ==
    /\ at' = [at EXCEPT ![r] = "publish"]
    /\ UNCHANGED <<serving, left, current, told>>

Holding(r, id) == at[r] \in {"publish", "release"} /\ IdOf[current[r]] = id

\* A duplicate is passed over, like a message that was queued.
PassOver(r) ==
    /\ early' = IF \E q \in Requests : Holding(q, IdOf[current[r]])
                   THEN early \cup {current[r]} ELSE early
    /\ NextMessage(r, left[r] \ {current[r]})

\* Slip: SET without NX, which every request wins.
ClaimAlways(r) ==
    /\ at[r] = "claim"
    /\ claims' = claims \cup {IdOf[current[r]]}
    /\ Proceed(r)
    /\ UNCHANGED <<queued, early, faults>>

\* Slip: a duplicate is answered with a refusal.
RefuseDuplicate(r) ==
    /\ at[r] = "claim"
    /\ claims' = claims \cup {IdOf[current[r]]}
    /\ IF IdOf[current[r]] \in claims THEN Answer(r, FALSE) ELSE Proceed(r)
    /\ UNCHANGED <<queued, early, faults>>

(***************************************************************************)
(* SET NX EX.  A held key means a duplicate, which is passed over.  An      *)
(* exception is nobody's to catch here and becomes a 500.                   *)
(***************************************************************************)
Claim(r) ==
    /\ at[r] = "claim"
    /\ \E outcome \in Outcomes :
          /\ Call(outcome)
          /\ claims' = IF Applied(outcome) THEN claims \cup {IdOf[current[r]]} ELSE claims
          /\ \/ outcome # "ok" /\ Answer(r, FALSE) /\ UNCHANGED early
             \/ outcome = "ok" /\ IdOf[current[r]] \in claims /\ PassOver(r)
             \/ outcome = "ok" /\ IdOf[current[r]] \notin claims /\ Proceed(r) /\ UNCHANGED early
    /\ UNCHANGED queued

\* XADD onto the inbound stream, as far as it was applied.
Enqueue(r, outcome) ==
    /\ Call(outcome)
    /\ queued' = IF Applied(outcome) THEN [queued EXCEPT ![current[r]] = @ + 1] ELSE queued

\* The message is published; whatever is raised leads to the release.
PublishMessage(r) ==
    /\ at[r] = "publish"
    /\ \E outcome \in Outcomes :
          /\ Enqueue(r, outcome)
          /\ \/ outcome = "ok" /\ NextMessage(r, left[r] \ {current[r]})
             \/ /\ outcome # "ok"
                /\ at' = [at EXCEPT ![r] = "release"]
                /\ UNCHANGED <<serving, left, current, told>>
    /\ UNCHANGED <<claims, early>>

\* Slip: 503 with the claim kept, so the retry is a duplicate of nothing.
KeepClaim(r) ==
    /\ at[r] = "release"
    /\ Answer(r, FALSE)
    /\ UNCHANGED <<claims, queued, early, faults>>

\* DEL of the claim, then 503; a DEL that raises is a 500 with the claim as it is.
Release(r) ==
    /\ at[r] = "release"
    /\ \E outcome \in Outcomes :
          /\ Call(outcome)
          /\ claims' = IF Applied(outcome) THEN claims \ {IdOf[current[r]]} ELSE claims
    /\ Answer(r, FALSE)
    /\ UNCHANGED <<queued, early>>

\* The serving process dies: the vendor gets no answer, the claim stays.
Crash(r) ==
    /\ at[r] # "idle"
    /\ crashes < MaxCrashes
    /\ crashes' = crashes + 1
    /\ Over(r, "idle")
    /\ UNCHANGED <<claims, queued, told, early, fails, lost, expiries, repeats>>

\* The key reaches ttl_seconds.
Expire(id) ==
    /\ id \in claims
    /\ expiries < MaxExpiries
    /\ expiries' = expiries + 1
    /\ claims' = claims \ {id}
    /\ UNCHANGED <<queued, request, told, early, fails, lost, crashes, repeats>>

Serve(r) == Verify(r) \/ Claim(r) \/ PublishMessage(r) \/ Release(r)

Next ==
    \/ \E r \in Requests : (\E d \in Deliveries : Post(r, d)) \/ Serve(r) \/ Crash(r)
    \/ \E id \in Ids : Expire(id)

Spec == Init /\ [][Next]_vars

(***************************************************************************)
(* A request that was accepted runs, and "vendors retry for hours": what    *)
(* was not answered 200 is posted again, however often the slot is taken.   *)
(***************************************************************************)
FairSpec ==
    /\ Spec
    /\ \A r \in Requests : WF_vars(Serve(r))
    /\ \A d \in Deliveries : SF_vars(\E r \in Requests : d \notin told /\ Post(r, d))
-----------------------------------------------------------------------------
TypeOK ==
    /\ claims \in SUBSET Ids
    /\ queued \in [Messages -> Nat]
    /\ at \in [Requests -> Stages]
    /\ serving \in [Requests -> Deliveries \cup {None}]
    /\ left \in [Requests -> SUBSET Messages]
    /\ current \in [Requests -> Messages \cup {None}]
    /\ told \in SUBSET Deliveries
    /\ early \in SUBSET Messages
    /\ fails \in 0 .. MaxFails /\ lost \in 0 .. MaxLost
    /\ crashes \in 0 .. MaxCrashes /\ expiries \in 0 .. MaxExpiries
    /\ repeats \in 0 .. MaxRepeats

\* SET NX makes the way from claim to publish exclusive: two requests are on it
\* for one message only after a claim expired under the first.
OneClaimant ==
    expiries = 0 => \A id \in Ids : \A q, r \in Requests :
                       Holding(q, id) /\ Holding(r, id) => q = r

\* "A vendor redelivery produces one turn, not two": a message is enqueued twice
\* only when a publish was applied and still raised, or its claim expired before
\* the vendor gave up.
NoUnexplainedDuplicate == \A m \in Messages : queued[m] <= 1 + lost + expiries

\* What a vendor was told is never taken back by its own redelivery: a message
\* whose entry was added with its claim kept is not claimed again.
ClaimKeptOnceQueued ==
    lost = 0 /\ expiries = 0 =>
        \A m \in Messages : queued[m] > 0 => IdOf[m] \in claims

\* A claim is what stands between a redelivery and a second turn: it is exclusive,
\* it is kept while its message is queued, and no message is queued twice without
\* a fault to explain it.
ClaimsAreHonoured == OneClaimant /\ NoUnexplainedDuplicate /\ ClaimKeptOnceQueued

\* "The message is not on the queue, so the one thing we must not do is tell the
\* vendor it was delivered", and how far the code keeps that.  A message its vendor was told about, that is on
\* no queue and in no request, was passed over for a claimant that then failed,
\* or fell to a fault of its own: a death, a lost reply, or a release that failed
\* after its publish had.  No fault costs a second message of the batch.
Accepted(d) == Verdict[d] = {"accepted"}
Missing ==
    {m \in Messages :
        /\ queued[m] = 0 /\ \E d \in told : Accepted(d) /\ m \in Carries[d]
        /\ \A r \in Requests : ~Holding(r, IdOf[m])}
EachLossIsAFault == Cardinality(Missing \ early) <= crashes + lost + (fails \div 2)

\* Every delivery that passes verification is answered 200 in the end, whatever
\* became of the requests before the last.
EventuallyTold == \A d \in Deliveries : Accepted(d) => <>(d \in told)
=============================================================================
