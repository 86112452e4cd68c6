---------------------------- MODULE OutboundSender ----------------------------
(***************************************************************************)
(* workers/outbound.py: the sender, run by StreamConsumer's loop for every  *)
(* job on the outbound stream.  All jobs are one tenant's: the token bucket *)
(* in Valkey is kept per tenant and the buckets do not touch.               *)
(*                                                                         *)
(* Time is relative.  A tick is what refills Refill units; a token costs    *)
(* Cost units, so that fractions of a token are units.  What the bucket     *)
(* stores as "at" is kept as its age by the host's monotonic clock, and the *)
(* clock a process read as the ticks gone since.                            *)
(***************************************************************************)
EXTENDS StreamConsumer, Integers

CONSTANTS Capacity, Refill, Cost,
          BlockTicks,     \* how long block_ms holds an empty read
          MaxLag,         \* bound: ticks between reading the clock and writing the bucket
          MaxSkew,        \* bound: uptime the bucket can have recorded before a reboot
          MaxReboots      \* bound: reboots of the host

ASSUME SenderAssumption ==
    {Capacity, Refill, Cost, BlockTicks, MaxLag, MaxSkew, MaxReboots} \subseteq Nat

VARIABLES bucket,     \* the hash in Valkey: whether it exists, units, age
          step,       \* where in _handle each process is
          read,       \* the hash as each process read it
          lag,        \* ticks since each process read the clock
          reboots,
          allowance   \* history: units a perfect bucket would have left

limiter  == <<bucket, step, read, lag, reboots>>
sendVars == <<vars, limiter, allowance>>

Least(a, b) == IF a < b THEN a ELSE b

Full    == [stored |-> FALSE, units |-> Capacity, age |-> 0]
Steps   == {"route", "read", "write", "send"}

\* Beyond this age any bucket is full, so ages are not counted further.
OldAge  == Capacity + (MaxSkew + MaxLag) * Refill

SendInit ==
    /\ Init
    /\ bucket = Full
    /\ step = [w \in Workers |-> "route"]
    /\ read = [w \in Workers |-> Full]
    /\ lag = [w \in Workers |-> 0]
    /\ reboots = 0
    /\ allowance = Capacity

SendAt(w, e, s) == Handling(w, e) /\ stage[w] = "handle" /\ e \notin blank[w] /\ step[w] = s

\* The handler is left, and what it read with it.
SendLeave(w) ==
    /\ step' = [step EXCEPT ![w] = "route"]
    /\ read' = [read EXCEPT ![w] = Full]
    /\ lag' = [lag EXCEPT ![w] = 0]

\* for_job finds the tenant's own adapter; take_token then reads the clock.
Route(w, e) ==
    /\ SendAt(w, e, "route")
    /\ step' = [step EXCEPT ![w] = "read"]
    /\ lag' = [lag EXCEPT ![w] = 0]
    /\ UNCHANGED <<vars, bucket, read, reboots, allowance>>

\* for_job finds no sender for this tenant and channel: terminal.
Unroutable(w, e) ==
    /\ SendAt(w, e, "route")
    /\ HandleTerminal(w, e)
    /\ SendLeave(w)
    /\ UNCHANGED <<bucket, reboots, allowance>>

\* HGETALL.
ReadBucket(w, e) ==
    /\ SendAt(w, e, "read")
    /\ read' = [read EXCEPT ![w] = bucket]
    /\ step' = [step EXCEPT ![w] = "write"]
    /\ UNCHANGED <<vars, bucket, lag, reboots, allowance>>

\* What the hash holds by the clock the process read; a missing hash is full.
\* The hash read ages while the process holds it, its clock stands still.
Refilled(w) ==
    IF read[w].stored
       THEN Least(Capacity, read[w].units + (read[w].age - lag[w]) * Refill)
       ELSE Capacity

\* HSET, over whatever others stored since the read.
Store(w, units) == bucket' = [stored |-> TRUE, units |-> units, age |-> lag[w]]

\* Slip: the token is not taken off what is stored.
TakeNothing(w, e) ==
    /\ SendAt(w, e, "write") /\ Refilled(w) >= Cost
    /\ Store(w, Refilled(w))
    /\ step' = [step EXCEPT ![w] = "send"]
    /\ allowance' = allowance - Cost
    /\ UNCHANGED <<vars, read, lag, reboots>>

\* HSET with one token less; the job may be sent.
TakeToken(w, e) ==
    /\ SendAt(w, e, "write") /\ Refilled(w) >= Cost
    /\ Store(w, Refilled(w) - Cost)
    /\ step' = [step EXCEPT ![w] = "send"]
    /\ allowance' = allowance - Cost
    /\ UNCHANGED <<vars, read, lag, reboots>>

\* Slip: take_token's answer is returned on, and the job acked unsent.
ThrottleAway(w, e) ==
    /\ SendAt(w, e, "write") /\ Refilled(w) < Cost
    /\ Store(w, Refilled(w))
    /\ Goto(w, "ack")
    /\ SendLeave(w)
    /\ UNCHANGED <<stream, pel, crashes, history, reboots, allowance>>

\* HSET of the refill alone, and RateLimited raised.
Throttle(w, e) ==
    /\ SendAt(w, e, "write") /\ Refilled(w) < Cost
    /\ Store(w, Refilled(w))
    /\ HandleError(w, e)
    /\ SendLeave(w)
    /\ UNCHANGED <<reboots, allowance>>

\* The vendor takes the message.
Send(w, e) ==
    /\ SendAt(w, e, "send")
    /\ Work(w, e)
    /\ UNCHANGED <<limiter, allowance>>

\* send returns.
Sent(w, e) ==
    /\ HandleOk(w, e)
    /\ SendLeave(w)
    /\ UNCHANGED <<bucket, reboots, allowance>>

\* Anything else raised: the registry, Valkey, the vendor's refusal, or the
\* vendor's answer lost after it took the message.
FailSend(w, e) ==
    /\ HandleError(w, e)
    /\ SendLeave(w)
    /\ UNCHANGED <<bucket, reboots, allowance>>

Deliver(w, e) ==
    \/ Route(w, e) \/ Unroutable(w, e) \/ ReadBucket(w, e) \/ TakeToken(w, e)
    \/ Throttle(w, e) \/ Send(w, e) \/ Sent(w, e) \/ FailSend(w, e)

\* Time passing: every clock and the perfect bucket.
Pass(n) ==
    /\ \A w \in Workers : step[w] \in {"read", "write"} => lag[w] + n <= MaxLag
    /\ lag' = [w \in Workers |-> IF step[w] \in {"read", "write"} THEN lag[w] + n ELSE 0]
    /\ bucket' = [bucket EXCEPT !.age = Least(OldAge, @ + n)]
    /\ read' = [w \in Workers |-> [read[w] EXCEPT
                   !.age = IF step[w] = "write" THEN Least(OldAge, @ + n) ELSE @]]
    /\ allowance' = Least(Capacity, allowance + n * Refill)
    /\ UNCHANGED <<step, reboots>>

Tick == Pass(1) /\ UNCHANGED vars

\* The loop around the handler.  A read that finds nothing new blocks.
SendLoop(w) ==
    \/ /\ \/ EnsureGroup(w) \/ ReadHistory(w)
          \/ ReadNew(w) /\ Undelivered # {}
          \/ \E e \in Entries : MissingPayload(w, e) \/ CountAttempts(w, e) \/ Bury(w, e) \/ Ack(w, e)
       /\ UNCHANGED <<limiter, allowance>>
    \/ ReadNew(w) /\ Undelivered = {} /\ Pass(BlockTicks)

StopSender(w) == Crash(w) /\ SendLeave(w) /\ UNCHANGED <<bucket, reboots, allowance>>
StartSender(w) == Restart(w) /\ UNCHANGED <<limiter, allowance>>

(***************************************************************************)
(* The host reboots while every process is down: Valkey brings the hash     *)
(* back from disk and time.monotonic starts again, so "at" may lie ahead.   *)
(***************************************************************************)
Reboot ==
    /\ \A w \in Workers : pass[w] = "down"
    /\ reboots < MaxReboots
    /\ reboots' = reboots + 1
    /\ \E uptime \in 0 .. MaxSkew : bucket' = [bucket EXCEPT !.age = -uptime]
    /\ UNCHANGED <<vars, step, read, lag, allowance>>

SendNext ==
    \/ Publish /\ UNCHANGED <<limiter, allowance>>
    \/ Tick \/ Reboot
    \/ \E w \in Workers : SendLoop(w) \/ StopSender(w) \/ StartSender(w)
                          \/ \E e \in Entries : Deliver(w, e)

SendSpec == SendInit /\ [][SendNext]_sendVars
-----------------------------------------------------------------------------
Hash == [stored : BOOLEAN, units : Int, age : Int]

SendTypeOK ==
    /\ TypeOK
    /\ bucket \in Hash /\ read \in [Workers -> Hash]
    /\ step \in [Workers -> Steps]
    /\ lag \in [Workers -> 0 .. MaxLag]
    /\ reboots \in 0 .. MaxReboots
    /\ allowance \in Int

\* "The limit exists because Meta's is real": over any stretch of time one
\* sender draws no more tokens than the capacity and the refill of that time
\* allow.  A draw is dated by the clock read before it, hence one stall's refill.
\* Two senders break this: each writes over the draw the other has just stored.
RateIsBounded == allowance + MaxLag * Refill >= 0

\* A job is refused a token while a perfect bucket has one to give.
RefusedWhatIsLeft(w, e) == Throttle(w, e) /\ allowance - lag[w] * Refill >= Cost

\* "Refilling by elapsed time": the limit is the rate in both directions.  No step takes
\* the draws over it, and until the host's clock starts again none refuses what is left.
RateIsKept ==
    [][/\ RateIsBounded'
       /\ \A w \in Workers, e \in Entries : reboots = 0 => ~RefusedWhatIsLeft(w, e)]_sendVars

\* The sender is a StreamConsumer.
SendImplementsConsumer == Spec
=============================================================================
