--------------------------- MODULE StreamConsumer ---------------------------
(***************************************************************************)
(* workers/streams.py: the loop both stream workers run, against one Valkey *)
(* stream and one consumer group.  The handler is abstracted to how it ends *)
(* and to whether its effects were committed before it ended.               *)
(*                                                                         *)
(* Every await of the loop is a step of its own, so a process may die, or   *)
(* another process may run, between any two of them.  The last three        *)
(* variables are history: what happened to each entry, which Valkey or the  *)
(* handler's own stores would show.                                        *)
(***************************************************************************)
EXTENDS Naturals, FiniteSets

CONSTANTS Workers,      \* processes running this loop
          Names,        \* consumer names
          NameOf,       \* the consumer name each process was built with
          Nobody,       \* the owner of an entry that is not pending
          BatchSize, MaxAttempts, MaxLen,
          MaxEntries,   \* bound: entries ever published
          MaxCrashes    \* bound: process deaths

ASSUME ConsumerAssumption ==
    /\ IsFiniteSet(Workers)
    /\ NameOf \in [Workers -> Names]
    /\ Nobody \notin Names
    /\ BatchSize \in Nat \ {0}
    /\ MaxAttempts \in Nat \ {0}
    /\ MaxLen \in Nat \ {0}
    /\ MaxEntries \in Nat
    /\ MaxCrashes \in Nat

VARIABLES
    tail,        \* ids handed out by XADD; the stream is trimmed+1 .. tail
    trimmed,     \* ids up to this one were dropped by MAXLEN
    group,       \* the consumer group exists
    cursor,      \* the group's last-delivered id
    owner,       \* the pending entries list: the consumer an entry is pending for
    deliveries,  \* the delivery count of the pending entries list
    pass,        \* where run_once is: "down", "start", "history" or "new"
    stage,       \* within the pass: reading, handling an entry, or settling it
    hand,        \* what is left of the batch the process read
    blank,       \* the part of it that came back without a payload
    crashes,
    effects,     \* how often the handler's effects were committed, per entry
    dead,        \* rows in the dead-letter stream, per entry
    acked        \* entries whose XACK was applied

stream  == <<tail, trimmed>>
pel     == <<group, cursor, owner, deliveries>>
process == <<pass, stage, hand, blank>>
history == <<effects, dead, acked>>
vars    == <<stream, pel, process, crashes, history>>

Entries == 1 .. MaxEntries
Passes  == {"down", "start", "history", "new"}
Stages  == {"read", "handle", "worked", "count", "bury", "ack"}

Oldest(S, e) == e \in S /\ \A f \in S : e <= f

\* The first BatchSize ids of S, which is what COUNT keeps of a reply.
FirstOf(S) == {e \in S : Cardinality({f \in S : f < e}) < BatchSize}

Pending(e)     == owner[e] # Nobody

\* Slip: the history read starts from ">" and never sees a pending entry.
NonePending(w) == {}

PendingFor(w)  == {e \in Entries : owner[e] = NameOf[w]}
Undelivered    == {e \in Entries : e > cursor /\ e > trimmed /\ e <= tail}

Init ==
    /\ tail = 0 /\ trimmed = 0
    /\ group = FALSE /\ cursor = 0
    /\ owner = [e \in Entries |-> Nobody]
    /\ deliveries = [e \in Entries |-> 0]
    /\ pass = [w \in Workers |-> "start"]
    /\ stage = [w \in Workers |-> "read"]
    /\ hand = [w \in Workers |-> {}]
    /\ blank = [w \in Workers |-> {}]
    /\ crashes = 0
    /\ effects = [e \in Entries |-> 0]
    /\ dead = [e \in Entries |-> 0]
    /\ acked = {}

(***************************************************************************)
(* XADD with an approximate MAXLEN: whole nodes are dropped from the front, *)
(* so the stream may keep more than MaxLen entries but never fewer.         *)
(***************************************************************************)
Publish ==
    /\ tail < MaxEntries
    /\ tail' = tail + 1
    /\ \E k \in 0 .. MaxEntries :
          /\ k >= trimmed
          /\ k = trimmed \/ k + MaxLen <= tail + 1
          /\ trimmed' = k
    /\ UNCHANGED <<pel, process, crashes, history>>

\* Slip: XGROUP CREATE from "$", the end of the stream.
EnsureGroupAtEnd(w) ==
    /\ pass[w] = "start"
    /\ group' = TRUE
    /\ cursor' = IF group THEN cursor ELSE tail
    /\ pass' = [pass EXCEPT ![w] = "history"]
    /\ UNCHANGED <<stream, owner, deliveries, stage, hand, blank, crashes, history>>

\* XGROUP CREATE from id 0, with the rerun tolerated (BUSYGROUP).
EnsureGroup(w) ==
    /\ pass[w] = "start"
    /\ group' = TRUE
    /\ cursor' = IF group THEN cursor ELSE 0
    /\ pass' = [pass EXCEPT ![w] = "history"]
    /\ UNCHANGED <<stream, owner, deliveries, stage, hand, blank, crashes, history>>

\* Slip: run_once is called once and not in a loop.
OnePass(p) == IF p = "history" THEN "new" ELSE "done"

\* The other cursor once a batch is done: history, then new, then the next run_once.
OtherPass(p) == IF p = "history" THEN "new" ELSE "history"

\* What a read leaves the process with.  An empty reply ends the pass.
Receive(w, batch, missing) ==
    /\ hand' = [hand EXCEPT ![w] = batch]
    /\ blank' = [blank EXCEPT ![w] = missing]
    /\ stage' = [stage EXCEPT ![w] = IF batch = {} THEN "read" ELSE "handle"]
    /\ pass' = [pass EXCEPT ![w] = IF batch = {} THEN OtherPass(@) ELSE @]

(***************************************************************************)
(* XREADGROUP from "0": the process's own consumer name's oldest pending    *)
(* entries, each redelivered and counted.  An entry that was trimmed while  *)
(* it was pending comes back without its fields and is not counted.         *)
(***************************************************************************)
ReadHistory(w) ==
    /\ pass[w] = "history" /\ stage[w] = "read"
    /\ LET batch   == FirstOf(PendingFor(w))
           missing == {e \in batch : e <= trimmed}
       IN /\ deliveries' = [e \in Entries |->
                IF e \in batch \ missing THEN deliveries[e] + 1 ELSE deliveries[e]]
          /\ Receive(w, batch, missing)
    /\ UNCHANGED <<stream, group, cursor, owner, crashes, history>>

\* XREADGROUP from ">": undelivered entries become pending for this consumer name.
ReadNew(w) ==
    /\ pass[w] = "new" /\ stage[w] = "read"
    /\ LET batch == FirstOf(Undelivered)
       IN /\ cursor' \in {cursor} \cup batch
          /\ \A e \in batch : e <= cursor'
          /\ owner' = [e \in Entries |-> IF e \in batch THEN NameOf[w] ELSE owner[e]]
          /\ deliveries' = [e \in Entries |-> IF e \in batch THEN 1 ELSE deliveries[e]]
          /\ Receive(w, batch, {})
    /\ UNCHANGED <<stream, group, crashes, history>>

\* The entry the loop over the batch has reached.
Handling(w, e) == pass[w] \in {"history", "new"} /\ Oldest(hand[w], e)

\* The loop moves to the next entry, or the pass ends.
NextEntry(w, e) ==
    LET rest == hand[w] \ {e}
    IN Receive(w, rest, blank[w] \ {e})

Goto(w, s) ==
    /\ stage' = [stage EXCEPT ![w] = s]
    /\ UNCHANGED <<pass, hand, blank>>

\* An entry without a payload is buried unhandled.
MissingPayload(w, e) ==
    /\ Handling(w, e) /\ stage[w] = "handle"
    /\ e \in blank[w]
    /\ Goto(w, "bury")
    /\ UNCHANGED <<stream, pel, crashes, history>>

\* The handler's effects become durable, with its return still to come.
Work(w, e) ==
    /\ Handling(w, e) /\ stage[w] = "handle"
    /\ e \notin blank[w]
    /\ effects' = [effects EXCEPT ![e] = @ + 1]
    /\ Goto(w, "worked")
    /\ UNCHANGED <<stream, pel, crashes, dead, acked>>

\* The handler returns.
HandleOk(w, e) ==
    /\ Handling(w, e) /\ stage[w] = "worked"
    /\ Goto(w, "ack")
    /\ UNCHANGED <<stream, pel, crashes, history>>

\* Slip: a terminal failure is acked without its dead-letter row.
DropTerminal(w, e) ==
    /\ Handling(w, e) /\ stage[w] = "handle"
    /\ e \notin blank[w]
    /\ Goto(w, "ack")
    /\ UNCHANGED <<stream, pel, crashes, history>>

\* The handler raises TerminalFailure: buried on the first attempt.
HandleTerminal(w, e) ==
    /\ Handling(w, e) /\ stage[w] = "handle"
    /\ e \notin blank[w]
    /\ Goto(w, "bury")
    /\ UNCHANGED <<stream, pel, crashes, history>>

\* Any other exception, raised before or after the handler's effects were durable.
HandleError(w, e) ==
    /\ Handling(w, e) /\ stage[w] \in {"handle", "worked"}
    /\ e \notin blank[w]
    /\ Goto(w, "count")
    /\ UNCHANGED <<stream, pel, crashes, history>>

\* XPENDING's answer for one id, whoever it is pending for.
Attempts(e) == IF Pending(e) THEN deliveries[e] ELSE 1

\* Slip: one attempt too many.
CountOneMore(w, e) ==
    /\ Handling(w, e) /\ stage[w] = "count"
    /\ IF Attempts(e) > MaxAttempts THEN Goto(w, "bury") ELSE NextEntry(w, e)
    /\ UNCHANGED <<stream, pel, crashes, history>>

\* Bury an entry that used up its attempts, leave any other pending.
CountAttempts(w, e) ==
    /\ Handling(w, e) /\ stage[w] = "count"
    /\ IF Attempts(e) >= MaxAttempts THEN Goto(w, "bury") ELSE NextEntry(w, e)
    /\ UNCHANGED <<stream, pel, crashes, history>>

\* The first half of _bury: the dead-letter row is written.
Bury(w, e) ==
    /\ Handling(w, e) /\ stage[w] = "bury"
    /\ dead' = [dead EXCEPT ![e] = @ + 1]
    /\ Goto(w, "ack")
    /\ UNCHANGED <<stream, pel, crashes, effects, acked>>

\* XACK, after the handler returned or as the second half of _bury.
Ack(w, e) ==
    /\ Handling(w, e) /\ stage[w] = "ack"
    /\ owner' = [owner EXCEPT ![e] = Nobody]
    /\ acked' = acked \cup {e}
    /\ NextEntry(w, e)
    /\ UNCHANGED <<stream, group, cursor, deliveries, crashes, effects, dead>>

(***************************************************************************)
(* The process dies, or a Valkey call raises out of run_once and ends it.   *)
(* The pending entries list survives; everything the process held does not. *)
(***************************************************************************)
Crash(w) ==
    /\ pass[w] # "down"
    /\ crashes < MaxCrashes
    /\ crashes' = crashes + 1
    /\ pass' = [pass EXCEPT ![w] = "down"]
    /\ stage' = [stage EXCEPT ![w] = "read"]
    /\ hand' = [hand EXCEPT ![w] = {}]
    /\ blank' = [blank EXCEPT ![w] = {}]
    /\ UNCHANGED <<stream, pel, history>>

\* The container's restart policy brings the process back under the same name.
Restart(w) ==
    /\ pass[w] = "down"
    /\ pass' = [pass EXCEPT ![w] = "start"]
    /\ UNCHANGED <<stream, pel, stage, hand, blank, crashes, history>>

\* One step of run_once.
RunOnce(w) ==
    \/ EnsureGroup(w) \/ ReadHistory(w) \/ ReadNew(w)
    \/ \E e \in Entries :
          \/ MissingPayload(w, e) \/ Work(w, e) \/ HandleOk(w, e)
          \/ HandleTerminal(w, e) \/ HandleError(w, e) \/ CountAttempts(w, e) \/ Bury(w, e) \/ Ack(w, e)

Next ==
    \/ Publish
    \/ \E w \in Workers : RunOnce(w) \/ Crash(w) \/ Restart(w)

Spec == Init /\ [][Next]_vars

(***************************************************************************)
(* The worker process is an endless loop over run_once and its container is *)
(* restarted unless stopped, so both are fair.  Publishing and dying are    *)
(* not.                                                                    *)
(***************************************************************************)
FairSpec == Spec /\ \A w \in Workers : WF_vars(RunOnce(w)) /\ WF_vars(Restart(w))
-----------------------------------------------------------------------------
(***************************************************************************)
(* Properties                                                              *)
(***************************************************************************)
TypeOK ==
    /\ tail \in 0 .. MaxEntries
    /\ trimmed \in 0 .. MaxEntries
    /\ group \in BOOLEAN
    /\ cursor \in 0 .. MaxEntries
    /\ owner \in [Entries -> Names \cup {Nobody}]
    /\ deliveries \in [Entries -> Nat]
    /\ pass \in [Workers -> Passes]
    /\ stage \in [Workers -> Stages]
    /\ hand \in [Workers -> SUBSET Entries]
    /\ blank \in [Workers -> SUBSET Entries]
    /\ crashes \in 0 .. MaxCrashes
    /\ effects \in [Entries -> Nat]
    /\ dead \in [Entries -> Nat]
    /\ acked \in SUBSET Entries

\* An entry MAXLEN took before anybody was given it.
Dropped(e) == e <= trimmed /\ deliveries[e] = 0

\* "Ack after the work, never before": an acked entry was handled or dead-lettered.
AckedAfterWork == \A e \in acked : effects[e] > 0 \/ dead[e] > 0

\* Every published entry is owed to somebody until it is acked: still in the
\* stream ahead of the cursor, or pending for a consumer.  The one exception is
\* an entry with at least MaxLen newer ones behind it.
NothingLost ==
    \A e \in 1 .. tail :
        e \in acked \/ Pending(e) \/ e \in Undelivered \/ e + MaxLen <= tail

\* While each name belongs to one process, an entry in a process's hands is
\* pending for it: nobody else can have acked it, or be handling it.
NamesAreExclusive == \A v, w \in Workers : NameOf[v] = NameOf[w] => v = w
HeldByItsOwner ==
    NamesAreExclusive =>
        \A w \in Workers : \A e \in hand[w] : owner[e] = NameOf[w]

\* The retry budget: no entry is delivered more often than max_attempts allows,
\* but for one more delivery per process death.  A redelivered entry that was
\* trimmed meanwhile is not counted by Valkey and cannot break this.
DeliveryBound ==
    NamesAreExclusive => \A e \in Entries : deliveries[e] <= MaxAttempts + crashes

\* A handler's effects are repeated at most once per delivery.
EffectsWithinDeliveries == \A e \in Entries : effects[e] <= deliveries[e]

\* A second dead-letter row for one entry takes a death between XADD and XACK.
DeadLetteredOnce ==
    NamesAreExclusive => \A e \in Entries : dead[e] <= 1 + crashes

\* Retries stay bounded through deaths, restarts and trimming: each entry is in one
\* process's hands, is delivered within its attempts, has at most one effect per
\* delivery and is buried once, each up to one more per death.
RetriesAreBounded ==
    HeldByItsOwner /\ DeliveryBound /\ EffectsWithinDeliveries /\ DeadLetteredOnce

\* The consumer keeps the queue's promise.
Queue == INSTANCE AtLeastOnce WITH
            Items     <- Entries,
            accepted  <- 1 .. tail,
            worked    <- {e \in Entries : effects[e] > 0},
            reported  <- {e \in Entries : dead[e] > 0},
            forgotten <- acked,
            dropped   <- {e \in 1 .. tail : Dropped(e)}
KeepsTheQueuePromise == Queue!QSafe
\* Every published entry is acked in the end, or was dropped undelivered.
EventuallySettled == Queue!Settled
=============================================================================
