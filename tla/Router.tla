-------------------------------- MODULE Router --------------------------------
(***************************************************************************)
(* llm/router.py: complete() over a task's candidates, with one circuit     *)
(* breaker per provider, and llm/http.py: the retries of one provider's     *)
(* request.  The breakers live in one process; a call awaits the provider   *)
(* between reading its breaker and recording the result.  Time is the age   *)
(* of an open circuit, counted up to reset_seconds.                         *)
(***************************************************************************)
EXTENDS Naturals, Sequences

CONSTANTS Calls,         \* calls of complete() that may be in flight together
          Providers,
          Tasks,         \* llm/routing's tasks
          Primary,       \* a task's first candidate
          Failover,      \* and its second, Nobody where routing names none
          Nobody,        \* no provider excluded, or answering
          Threshold, ResetTicks,
          Retries,       \* max_retries of one request
          MaxStreak      \* bound: failures in a row that history counts

ASSUME RouterAssumption ==
    /\ Primary \in [Tasks -> Providers]
    /\ Failover \in [Tasks -> Providers \cup {Nobody}]
    /\ Nobody \notin Providers
    /\ Threshold \in Nat \ {0} /\ ResetTicks \in Nat \ {0}
    /\ Retries \in Nat
    /\ MaxStreak \in Nat /\ MaxStreak >= Threshold

VARIABLES failures,   \* each breaker's consecutive failures
          opened,     \* opened_at is set
          age,        \* ticks since it was
          at,         \* where each call is
          rest,       \* candidates it has not passed, the current one first
          tries,      \* its requests to the current candidate that failed
          answer,     \* the provider whose completion it returned last
          ended,      \* history: the reply that ended it with an error of ours
          streak      \* history: failures of a provider since it last answered

breaker == <<failures, opened, age>>
call    == <<at, rest, tries, answer>>
history == <<ended, streak>>
routerVars == <<breaker, call, history>>

(***************************************************************************)
(* What comes back for one request: a completion; a 200 whose body cannot   *)
(* be read; a 4xx about the request; a 4xx about the account's spend, told  *)
(* from the former by a code or a phrase; 429 or 5xx; no response at all.   *)
(***************************************************************************)
Replies == {"ok", "garbled", "malformed", "budget", "busy", "lost"}

OutOfBudget(reply) == reply = "budget"

\* Slip: a status of 4xx is ours, whatever it says.
TheirsByStatus(reply) == reply \in {"busy", "lost"}

\* ProviderUnavailable, and the transport error that becomes one.
Theirs(reply) == reply \in {"busy", "lost"} \/ OutOfBudget(reply)
Ours(reply)   == reply # "ok" /\ ~Theirs(reply)

Up(n) == IF n < MaxStreak THEN n + 1 ELSE n

RouterInit ==
    /\ failures = [p \in Providers |-> 0]
    /\ opened = [p \in Providers |-> FALSE]
    /\ age = [p \in Providers |-> 0]
    /\ at = [c \in Calls |-> "idle"]
    /\ rest = [c \in Calls |-> <<>>]
    /\ tries = [c \in Calls |-> 0]
    /\ answer = [c \in Calls |-> Nobody]
    /\ ended = [c \in Calls |-> "ok"]
    /\ streak = [p \in Providers |-> 0]

\* A task's candidates in order, without the provider excluded.
Unless(p, exclude) == IF p \in {Nobody, exclude} THEN <<>> ELSE <<p>>
Candidates(task, exclude) == Unless(Primary[task], exclude) \o Unless(Failover[task], exclude)

\* complete() is called; the judge bars the provider it grades.
Complete(c, task, exclude) ==
    /\ at[c] = "idle"
    /\ at' = [at EXCEPT ![c] = "pick"]
    /\ rest' = [rest EXCEPT ![c] = Candidates(task, exclude)]
    /\ answer' = [answer EXCEPT ![c] = Nobody]
    /\ ended' = [ended EXCEPT ![c] = "ok"]
    /\ UNCHANGED <<breaker, tries, streak>>

\* is_open: an open circuit past its window is closed by being asked.
Expired(p) == opened[p] /\ age[p] >= ResetTicks

\* Slip: the window never ends.
StaysOpen(p) == opened[p]

IsOpen(p)  == opened[p] /\ ~Expired(p)

\* The candidate's circuit is open: on to the next one.
SkipOpen(c) ==
    /\ at[c] = "pick" /\ rest[c] # <<>>
    /\ IsOpen(Head(rest[c]))
    /\ rest' = [rest EXCEPT ![c] = Tail(@)]
    /\ UNCHANGED <<breaker, at, tries, answer, history>>

\* The call goes to the provider; a half-open circuit forgets its failures.
CallProvider(c) ==
    /\ at[c] = "pick" /\ rest[c] # <<>>
    /\ LET p == Head(rest[c]) IN
          /\ ~IsOpen(p)
          /\ IF Expired(p)
                THEN /\ opened' = [opened EXCEPT ![p] = FALSE]
                     /\ failures' = [failures EXCEPT ![p] = 0]
                     /\ age' = [age EXCEPT ![p] = 0]
                ELSE UNCHANGED breaker
    /\ at' = [at EXCEPT ![c] = "wait"]
    /\ tries' = [tries EXCEPT ![c] = 0]
    /\ UNCHANGED <<rest, answer, history>>

\* Its last attempt failed like this one, and the backoff has passed.
Retry(c, reply) ==
    /\ at[c] = "wait"
    /\ Theirs(reply)
    /\ tries[c] < Retries
    /\ tries' = [tries EXCEPT ![c] = @ + 1]
    /\ UNCHANGED <<breaker, at, rest, answer, history>>

\* Slip: failures are counted since the start and not in a row.
AnsweredUnforgetting(c) ==
    /\ at[c] = "wait"
    /\ LET p == Head(rest[c]) IN
          /\ opened' = [opened EXCEPT ![p] = FALSE]
          /\ age' = [age EXCEPT ![p] = 0]
          /\ answer' = [answer EXCEPT ![c] = p]
          /\ streak' = [streak EXCEPT ![p] = 0]
    /\ at' = [at EXCEPT ![c] = "idle"]
    /\ tries' = [tries EXCEPT ![c] = 0]
    /\ UNCHANGED <<failures, rest, ended>>

\* The provider answers: the circuit closes and the completion is returned.
Answered(c) ==
    /\ at[c] = "wait"
    /\ LET p == Head(rest[c]) IN
          /\ failures' = [failures EXCEPT ![p] = 0]
          /\ opened' = [opened EXCEPT ![p] = FALSE]
          /\ age' = [age EXCEPT ![p] = 0]
          /\ answer' = [answer EXCEPT ![c] = p]
          /\ streak' = [streak EXCEPT ![p] = 0]
    /\ at' = [at EXCEPT ![c] = "idle"]
    /\ tries' = [tries EXCEPT ![c] = 0]
    /\ UNCHANGED <<rest, ended>>

\* The last attempt failed: counted once for the request, and at the threshold
\* the circuit opens.
Unavailable(c, reply) ==
    /\ at[c] = "wait"
    /\ Theirs(reply)
    /\ tries[c] = Retries
    /\ LET p == Head(rest[c]) IN
          /\ failures' = [failures EXCEPT ![p] = Up(@)]
          /\ IF failures[p] + 1 >= Threshold
                THEN opened' = [opened EXCEPT ![p] = TRUE] /\ age' = [age EXCEPT ![p] = 0]
                ELSE UNCHANGED <<opened, age>>
          /\ streak' = [streak EXCEPT ![p] = Up(@)]
    /\ rest' = [rest EXCEPT ![c] = Tail(@)]
    /\ at' = [at EXCEPT ![c] = "pick"]
    /\ tries' = [tries EXCEPT ![c] = 0]
    /\ UNCHANGED <<answer, ended>>

\* Any other error is ours: it is neither retried nor failed over, and no breaker
\* hears of it.
Rejected(c, reply) ==
    /\ at[c] = "wait"
    /\ Ours(reply)
    /\ at' = [at EXCEPT ![c] = "idle"]
    /\ tries' = [tries EXCEPT ![c] = 0]
    /\ ended' = [ended EXCEPT ![c] = reply]
    /\ UNCHANGED <<breaker, rest, answer, streak>>

\* AllProvidersUnavailable.
Exhausted(c) ==
    /\ at[c] = "pick" /\ rest[c] = <<>>
    /\ at' = [at EXCEPT ![c] = "idle"]
    /\ UNCHANGED <<breaker, rest, tries, answer, history>>

Elapse ==
    /\ \E p \in Providers : opened[p] /\ age[p] < ResetTicks
    /\ age' = [p \in Providers |->
          IF opened[p] /\ age[p] < ResetTicks THEN age[p] + 1 ELSE age[p]]
    /\ UNCHANGED <<failures, opened, call, history>>

Proceed(c) == SkipOpen(c) \/ CallProvider(c) \/ Exhausted(c)
Fails(c)   == \E reply \in Replies :
                Retry(c, reply) \/ Unavailable(c, reply) \/ Rejected(c, reply)
Respond(c) == Answered(c) \/ Fails(c)
Turn(c)    == \E task \in Tasks : Complete(c, task, Nobody)
Judge(c)   == \E task \in Tasks, p \in Providers : Complete(c, task, p)

RouterNext == Elapse \/ \E c \in Calls : Turn(c) \/ Judge(c) \/ Proceed(c) \/ Respond(c)

RouterSpec == RouterInit /\ [][RouterNext]_routerVars

(***************************************************************************)
(* Time passes, turns keep coming, and a provider's call always ends, in a  *)
(* timeout if nothing else.                                                 *)
(***************************************************************************)
RouterFairSpec ==
    /\ RouterSpec
    /\ WF_routerVars(Elapse)
    /\ \A c \in Calls :
          SF_routerVars(Turn(c)) /\ WF_routerVars(Proceed(c)) /\ WF_routerVars(Respond(c))
-----------------------------------------------------------------------------
TypeOK ==
    /\ failures \in [Providers -> 0 .. MaxStreak]
    /\ opened \in [Providers -> BOOLEAN]
    /\ age \in [Providers -> 0 .. ResetTicks]
    /\ at \in [Calls -> {"idle", "pick", "wait"}]
    /\ rest \in [Calls -> Seq(Providers)]
    /\ tries \in [Calls -> 0 .. Retries]
    /\ answer \in [Calls -> Providers \cup {Nobody}]
    /\ ended \in [Calls -> Replies]
    /\ streak \in [Providers -> 0 .. MaxStreak]

\* "Five failures spread across an hour of healthy traffic is not an outage":
\* an open circuit follows a threshold of failures with no answer among them.
OpenAfterOutage == \A p \in Providers : opened[p] => streak[p] >= Threshold

\* "Failing over would hide it while doubling the cost of every broken call": a
\* call that ends without an answer while a candidate is left untried ends on a
\* reply no other vendor could better, a request of ours that is wrong or a
\* completion nobody can read; a spend cap, an overload and a lost connection
\* never end it.
FailsOverWhatIsTheirs ==
    \A c \in Calls :
        at[c] = "idle" /\ answer[c] = Nobody /\ rest[c] # <<>>
            => ended[c] \in {"malformed", "garbled"}

\* An outage ends with the vendor's: a provider that from some time on answers
\* whatever it is asked answers again and again, so neither its circuit nor its
\* failover keeps the turns from it for ever.
Lets(c, p) == at[c] = "wait" /\ Head(rest[c]) = p => ~Fails(c)
ComesBack(p) ==
    (<>[][\A c \in Calls : Lets(c, p)]_routerVars) => []<>(\E c \in Calls : answer[c] = p)
RecoversToPrimary ==
    \A p \in Providers :
        (\A task \in Tasks : Primary[task] = p) => ComesBack(p)
=============================================================================
