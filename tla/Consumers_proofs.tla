--------------------------- MODULE Consumers_proofs ---------------------------
(***************************************************************************)
(* Theorems about the consumers of the two streams: StreamConsumer's loop,  *)
(* for every number of processes, assignment of consumer names, batch size, *)
(* retry budget and stream cap; then InboundTurn and OutboundSender, each   *)
(* shown to be that consumer first, so that what is proved of the loop      *)
(* holds of them too, for every backlog, agent, rate, stall and reboot.     *)
(***************************************************************************)
EXTENDS InboundTurn, OutboundSender, FiniteSetTheorems, TLAPS

(***************************************************************************)
(* The strengthening the safety theorems need: the group's cursor never     *)
(* outruns the stream; whatever is pending, in a process's hands, worked,   *)
(* buried or acked was delivered; and a process about to ack has worked.    *)
(***************************************************************************)
CursorOK   == cursor <= tail /\ trimmed <= tail /\ (~group => cursor = 0)
GroupOK    == \A w \in Workers : pass[w] \in {"history", "new"} => group
DeliveredOK(e) == deliveries[e] > 0 /\ e <= cursor
PendingOK  == \A e \in Entries : Pending(e) => DeliveredOK(e)
HandOK     == \A w \in Workers : \A e \in hand[w] : DeliveredOK(e)
TouchedOK  == \A e \in Entries :
                 (effects[e] > 0 \/ dead[e] > 0 \/ e \in acked) => DeliveredOK(e)
AboutToAck == \A w \in Workers : \A e \in Entries :
                 stage[w] \in {"worked", "ack"} /\ Oldest(hand[w], e)
                     => effects[e] > 0 \/ dead[e] > 0
Inv == TypeOK /\ CursorOK /\ GroupOK /\ PendingOK /\ HandOK /\ TouchedOK
       /\ AboutToAck /\ AckedAfterWork /\ NothingLost
-----------------------------------------------------------------------------
\* COUNT keeps the oldest ids: whatever is older than one of them is one of them.
LEMMA FirstOfIsPrefix ==
    ASSUME NEW S \in SUBSET Entries, NEW e \in S, NEW f \in FirstOf(S), e <= f
    PROVE  e \in FirstOf(S)
<1> DEFINE Below(x) == {g \in S : g < x}
<1>1. IsFiniteSet(Entries)
  BY FS_Interval, ConsumerAssumption DEF Entries
<1>2. IsFiniteSet(Below(f)) /\ Below(f) \subseteq Entries
  BY <1>1, FS_Subset DEF Entries
<1>3. Below(e) \subseteq Below(f)
  <2>1. f \in Int /\ e \in Int /\ \A g \in S : g \in Int
    BY ConsumerAssumption DEF FirstOf, Entries
  <2>2. \A g \in S : g < e => g < f
    BY <2>1
  <2> QED
    BY <2>2
<1>4. IsFiniteSet(Below(e)) /\ Cardinality(Below(e)) <= Cardinality(Below(f))
  BY <1>2, <1>3, FS_Subset
<1>5. Cardinality(Below(e)) \in Nat /\ Cardinality(Below(f)) \in Nat
  BY <1>2, <1>4, FS_CardinalityType
<1>6. Cardinality(Below(f)) < BatchSize
  BY DEF FirstOf
<1> QED
  BY <1>4, <1>5, <1>6, ConsumerAssumption DEF FirstOf

LEMMA FirstOfSubset == ASSUME NEW S PROVE FirstOf(S) \subseteq S
  BY DEF FirstOf

\* What Receive leaves of the process variables has their types.
LEMMA ReceiveType ==
    ASSUME TypeOK, NEW w \in Workers, NEW batch \in SUBSET Entries,
           NEW missing \in SUBSET Entries, Receive(w, batch, missing)
    PROVE  /\ pass' \in [Workers -> Passes] /\ stage' \in [Workers -> Stages]
           /\ hand' \in [Workers -> SUBSET Entries]
           /\ blank' \in [Workers -> SUBSET Entries]
  BY DEF Receive, TypeOK, OtherPass, Passes, Stages

LEMMA InitInv == Init => Inv
<1> SUFFICES ASSUME Init PROVE Inv
  OBVIOUS
<1>1. TypeOK
  <2>1. 0 \in 0 .. MaxEntries /\ 0 \in 0 .. MaxCrashes
    BY ConsumerAssumption
  <2>2. /\ owner \in [Entries -> Names \cup {Nobody}]
        /\ deliveries \in [Entries -> Nat]
        /\ effects \in [Entries -> Nat] /\ dead \in [Entries -> Nat]
    BY DEF Init
  <2>3. /\ pass \in [Workers -> Passes] /\ stage \in [Workers -> Stages]
        /\ hand \in [Workers -> SUBSET Entries] /\ blank \in [Workers -> SUBSET Entries]
    BY DEF Init, Passes, Stages
  <2> QED
    BY <2>1, <2>2, <2>3 DEF Init, TypeOK
<1>2. CursorOK /\ GroupOK
  BY DEF Init, CursorOK, GroupOK
<1>3. PendingOK /\ HandOK /\ TouchedOK
  <2>1. \A e \in Entries : ~Pending(e) /\ effects[e] = 0 /\ dead[e] = 0
    BY DEF Init, Pending
  <2>2. acked = {} /\ \A w \in Workers : hand[w] = {}
    BY DEF Init
  <2> QED
    BY <2>1, <2>2 DEF PendingOK, HandOK, TouchedOK
<1>4. AboutToAck /\ AckedAfterWork
  BY DEF Init, AboutToAck, AckedAfterWork
<1>5. NothingLost
  BY SMT DEF Init, NothingLost
<1> QED
  BY <1>1, <1>2, <1>3, <1>4, <1>5 DEF Inv

LEMMA TypeStep == TypeOK /\ [Next]_vars => TypeOK'
<1> SUFFICES ASSUME TypeOK, [Next]_vars PROVE TypeOK'
  OBVIOUS
<1> USE ConsumerAssumption
<1>1. CASE Publish
  BY <1>1 DEF Publish, TypeOK, pel, process, history
<1>2. ASSUME NEW w \in Workers, EnsureGroup(w) PROVE TypeOK'
  BY <1>2 DEF EnsureGroup, TypeOK, stream, history, Passes
<1>3. ASSUME NEW w \in Workers, ReadHistory(w) PROVE TypeOK'
  <2> DEFINE batch == FirstOf(PendingFor(w))
             missing == {e \in batch : e <= trimmed}
  <2>1. batch \in SUBSET Entries /\ missing \in SUBSET Entries
    BY DEF FirstOf, PendingFor
  <2>2. Receive(w, batch, missing)
    BY <1>3 DEF ReadHistory
  <2>3. deliveries' \in [Entries -> Nat]
    BY <1>3 DEF ReadHistory, TypeOK
  <2>4. /\ pass' \in [Workers -> Passes] /\ stage' \in [Workers -> Stages]
        /\ hand' \in [Workers -> SUBSET Entries] /\ blank' \in [Workers -> SUBSET Entries]
    BY <2>1, <2>2, ReceiveType
  <2> QED
    BY <1>3, <2>3, <2>4 DEF ReadHistory, TypeOK, stream, history
<1>4. ASSUME NEW w \in Workers, ReadNew(w) PROVE TypeOK'
  <2> DEFINE batch == FirstOf(Undelivered)
  <2>1. batch \in SUBSET Entries /\ {} \in SUBSET Entries
    BY DEF FirstOf, Undelivered
  <2>2. Receive(w, batch, {})
    BY <1>4 DEF ReadNew
  <2>3. cursor' \in 0 .. MaxEntries
    BY <1>4, <2>1 DEF ReadNew, TypeOK, Entries
  <2>4. owner' \in [Entries -> Names \cup {Nobody}] /\ deliveries' \in [Entries -> Nat]
    BY <1>4 DEF ReadNew, TypeOK
  <2> QED
    BY <1>4, <2>1, <2>2, <2>3, <2>4, ReceiveType DEF ReadNew, TypeOK, stream, history
<1>5. ASSUME NEW w \in Workers, NEW e \in Entries,
             \/ MissingPayload(w, e) \/ HandleTerminal(w, e)
             \/ HandleOk(w, e) \/ HandleError(w, e) PROVE TypeOK'
  BY <1>5 DEF MissingPayload, HandleTerminal, HandleOk, HandleError, Goto, TypeOK, stream, pel, history, Stages
<1>6. ASSUME NEW w \in Workers, NEW e \in Entries, Work(w, e) PROVE TypeOK'
  BY <1>6 DEF Work, Goto, TypeOK, stream, pel, Stages
<1>7. ASSUME NEW w \in Workers, NEW e \in Entries, CountAttempts(w, e) PROVE TypeOK'
  <2>1. CASE Goto(w, "bury")
    BY <1>7, <2>1 DEF CountAttempts, Goto, TypeOK, stream, pel, history, Stages
  <2>2. CASE NextEntry(w, e)
    <3>1. hand[w] \ {e} \in SUBSET Entries /\ blank[w] \ {e} \in SUBSET Entries
      BY DEF TypeOK
    <3>2. /\ pass' \in [Workers -> Passes] /\ stage' \in [Workers -> Stages]
          /\ hand' \in [Workers -> SUBSET Entries]
          /\ blank' \in [Workers -> SUBSET Entries]
      BY <2>2, <3>1, ReceiveType DEF NextEntry
    <3>3. UNCHANGED <<stream, pel, crashes, history>>
      BY <1>7 DEF CountAttempts
    <3> QED
      BY <3>2, <3>3 DEF TypeOK, stream, pel, history
  <2> QED
    BY <1>7, <2>1, <2>2 DEF CountAttempts
<1>8. ASSUME NEW w \in Workers, NEW e \in Entries, Bury(w, e) PROVE TypeOK'
  BY <1>8 DEF Bury, Goto, TypeOK, stream, pel, Stages
<1>9. ASSUME NEW w \in Workers, NEW e \in Entries, Ack(w, e) PROVE TypeOK'
  <2>1. hand[w] \ {e} \in SUBSET Entries /\ blank[w] \ {e} \in SUBSET Entries
    BY DEF TypeOK
  <2>2. /\ pass' \in [Workers -> Passes] /\ stage' \in [Workers -> Stages]
        /\ hand' \in [Workers -> SUBSET Entries]
        /\ blank' \in [Workers -> SUBSET Entries]
    BY <1>9, <2>1, ReceiveType DEF Ack, NextEntry
  <2> QED
    BY <1>9, <2>2 DEF Ack, TypeOK, stream
<1>10. ASSUME NEW w \in Workers, Crash(w) PROVE TypeOK'
  BY <1>10 DEF Crash, TypeOK, stream, pel, history, Passes, Stages
<1>11. ASSUME NEW w \in Workers, Restart(w) PROVE TypeOK'
  BY <1>11 DEF Restart, TypeOK, stream, pel, history, Passes
<1>12. CASE UNCHANGED vars
  BY <1>12 DEF vars, TypeOK, stream, pel, process, history
<1> QED
  BY <1>1, <1>2, <1>3, <1>4, <1>5, <1>6, <1>7, <1>8, <1>9, <1>10, <1>11, <1>12
  DEF Next, RunOnce

-----------------------------------------------------------------------------
LEMMA OldestIsUnique ==
    ASSUME NEW S \in SUBSET Entries, NEW e, NEW f, Oldest(S, e), Oldest(S, f)
    PROVE  e = f
<1>1. e \in Int /\ f \in Int /\ e <= f /\ f <= e
  BY ConsumerAssumption DEF Oldest, Entries
<1> QED
  BY <1>1

\* A read or a move to the next entry never leaves a process about to ack.
LEMMA ReceiveNeverAcks ==
    ASSUME TypeOK, NEW w \in Workers, NEW batch, NEW missing, Receive(w, batch, missing)
    PROVE  /\ stage'[w] \notin {"worked", "ack"}
           /\ \A v \in Workers \ {w} : stage'[v] = stage[v] /\ hand'[v] = hand[v]
           /\ hand'[w] = batch
           /\ \A v \in Workers : pass'[v] \in {"history", "new"} => pass[v] \in {"history", "new"}
                                                                    \/ v = w
  BY DEF Receive, TypeOK

\* Steps that touch neither the stream nor the pending entries list keep the
\* facts about what was delivered.
LEMMA DataFrame ==
    ASSUME CursorOK, PendingOK, NothingLost, UNCHANGED <<stream, pel>>,
           acked \subseteq acked'
    PROVE  CursorOK' /\ PendingOK' /\ NothingLost'
<1>1. CursorOK' /\ PendingOK'
  BY DEF CursorOK, PendingOK, Pending, DeliveredOK, stream, pel
<1>2. Undelivered' = Undelivered
  BY DEF Undelivered, stream, pel
<1>3. tail' = tail /\ owner' = owner
  BY DEF stream, pel
<1>4. ASSUME NEW e \in 1 .. tail
      PROVE  e \in acked' \/ Pending(e)' \/ e \in Undelivered' \/ e + MaxLen <= tail'
  <2>1. e \in acked \/ Pending(e) \/ e \in Undelivered \/ e + MaxLen <= tail
    BY DEF NothingLost
  <2>2. Pending(e)' <=> Pending(e)
    BY <1>3 DEF Pending
  <2> QED
    BY <2>1, <2>2, <1>2, <1>3
<1> QED
  BY <1>1, <1>4, <1>3 DEF NothingLost

(***************************************************************************)
(* A step on the entry e a process is handling, which may only add to what  *)
(* was done to e and shorten what is left of the batch, and which is about  *)
(* to ack only if e was worked or buried.                                   *)
(***************************************************************************)
LEMMA HandlingStep ==
    ASSUME Inv, TypeOK', NEW w \in Workers, NEW e \in Entries, e \in hand[w],
           UNCHANGED <<stream, pel, acked>>,
           \A x \in Entries : effects'[x] >= effects[x] /\ dead'[x] >= dead[x],
           \A x \in Entries \ {e} : effects'[x] = effects[x] /\ dead'[x] = dead[x],
           \A v \in Workers \ {w} : stage'[v] = stage[v] /\ hand'[v] = hand[v],
           \A v \in Workers : pass'[v] \in {"history", "new"}
                                  => pass[v] \in {"history", "new"} \/ v = w,
           pass[w] \in {"history", "new"},
           hand'[w] \subseteq hand[w],
           stage'[w] \in {"worked", "ack"} => \A x \in Entries : Oldest(hand'[w], x)
                                    => effects'[x] > 0 \/ dead'[x] > 0
    PROVE  Inv'
<1> USE DEF Inv
<1>1. CursorOK' /\ PendingOK' /\ NothingLost'
  BY DataFrame
<1>2. GroupOK'
  BY DEF GroupOK, pel
<1>3. \A x : DeliveredOK(x)' <=> DeliveredOK(x)
  BY DEF DeliveredOK, pel
<1>4. HandOK'
  BY <1>3 DEF HandOK
<1>5. DeliveredOK(e)
  BY DEF HandOK
<1>6. TouchedOK'
  <2> SUFFICES ASSUME NEW x \in Entries, (effects[x] > 0 \/ dead[x] > 0 \/ x \in acked)'
               PROVE  DeliveredOK(x)
    BY <1>3 DEF TouchedOK
  <2>1. CASE x = e
    BY <2>1, <1>5
  <2>2. CASE x # e
    BY <2>2 DEF TouchedOK
  <2> QED
    BY <2>1, <2>2
<1>7. AboutToAck'
  <2> SUFFICES ASSUME NEW v \in Workers, NEW x \in Entries,
                      stage'[v] \in {"worked", "ack"}, Oldest(hand'[v], x)
               PROVE  effects'[x] > 0 \/ dead'[x] > 0
    BY DEF AboutToAck, Oldest
  <2>1. CASE v = w
    BY <2>1
  <2>2. CASE v # w
    <3>1. effects[x] > 0 \/ dead[x] > 0
      BY <2>2 DEF AboutToAck
    <3>2. effects[x] \in Nat /\ dead[x] \in Nat /\ effects'[x] \in Nat /\ dead'[x] \in Nat
      BY DEF TypeOK
    <3> QED
      BY <3>1, <3>2
  <2> QED
    BY <2>1, <2>2
<1>8. AckedAfterWork'
  <2> SUFFICES ASSUME NEW x \in acked PROVE effects'[x] > 0 \/ dead'[x] > 0
    BY DEF AckedAfterWork
  <2>1. x \in Entries /\ (effects[x] > 0 \/ dead[x] > 0)
    BY DEF AckedAfterWork, TypeOK
  <2>2. effects[x] \in Nat /\ dead[x] \in Nat /\ effects'[x] \in Nat /\ dead'[x] \in Nat
    BY <2>1 DEF TypeOK
  <2> QED
    BY <2>1, <2>2
<1> QED
  BY <1>1, <1>2, <1>4, <1>6, <1>7, <1>8

LEMMA PublishInv == Inv /\ Publish => Inv'
<1> SUFFICES ASSUME Inv, Publish PROVE Inv'
  OBVIOUS
<1> USE ConsumerAssumption DEF Inv
<1>1. TypeOK'
  BY TypeStep DEF Next
<1>2. PICK k \in 0 .. MaxEntries : /\ trimmed' = k /\ tail' = tail + 1 /\ k >= trimmed
                                   /\ k = trimmed \/ k + MaxLen <= tail + 1
  BY DEF Publish
<1>3. UNCHANGED <<pel, process, history>>
  BY DEF Publish
<1>4. /\ tail \in Nat /\ trimmed \in Nat /\ cursor \in Nat
      /\ cursor <= tail /\ trimmed <= tail /\ (~group => cursor = 0)
  BY DEF TypeOK, CursorOK
<1>5. CursorOK'
  BY <1>2, <1>3, <1>4 DEF CursorOK, pel
<1>6. GroupOK' /\ PendingOK' /\ HandOK' /\ TouchedOK' /\ AboutToAck' /\ AckedAfterWork'
  BY <1>3 DEF GroupOK, PendingOK, HandOK, TouchedOK, AboutToAck, AckedAfterWork,
              DeliveredOK, Pending, pel, process, history
<1>7. NothingLost'
  <2> SUFFICES ASSUME NEW e \in 1 .. tail'
               PROVE  e \in acked' \/ Pending(e)' \/ e \in Undelivered' \/ e + MaxLen <= tail'
    BY DEF NothingLost
  <2>1. e \in Nat /\ e \in Entries
    BY <1>1, <1>2, <1>4 DEF TypeOK, Entries
  <2>2. e <= trimmed' => e + MaxLen <= tail' \/ e <= trimmed
    BY <1>2, <1>4, <2>1
  <2>3. e \in Undelivered' <=> e > cursor /\ e > trimmed' /\ e <= tail'
    BY <2>1, <1>3 DEF Undelivered, pel
  <2>4. CASE e = tail + 1
    BY <2>1, <2>2, <2>3, <2>4, <1>2, <1>4
  <2>5. CASE e \in 1 .. tail
    <3>1. e \in acked \/ Pending(e) \/ e \in Undelivered \/ e + MaxLen <= tail
      BY <2>5 DEF NothingLost
    <3>2. e \in Undelivered => e > cursor /\ e > trimmed
      BY DEF Undelivered
    <3>3. acked' = acked /\ (Pending(e)' <=> Pending(e))
      BY <1>3 DEF Pending, pel, history
    <3> QED
      BY <3>1, <3>2, <3>3, <2>1, <2>2, <2>3, <1>2, <1>4
  <2> QED
    BY <2>1, <2>4, <2>5, <1>2, <1>4
<1> QED
  BY <1>1, <1>5, <1>6, <1>7

LEMMA ReadHistoryInv == ASSUME Inv, NEW w \in Workers, ReadHistory(w) PROVE Inv'
<1> USE DEF Inv
<1> DEFINE batch == FirstOf(PendingFor(w))
           missing == {e \in batch : e <= trimmed}
<1>1. TypeOK'
  BY TypeStep DEF Next, RunOnce
<1>2. Receive(w, batch, missing) /\ batch \subseteq Entries
  BY DEF ReadHistory, FirstOf, PendingFor
<1>3. /\ UNCHANGED <<stream, group, cursor, owner, history>>
      /\ \A e \in Entries : deliveries'[e] >= deliveries[e]
  BY DEF ReadHistory, TypeOK
<1>4. \A e \in Entries : DeliveredOK(e) => DeliveredOK(e)'
  <2> SUFFICES ASSUME NEW e \in Entries, DeliveredOK(e) PROVE DeliveredOK(e)'
    OBVIOUS
  <2>1. deliveries'[e] \in Nat /\ deliveries[e] \in Nat
    BY <1>1 DEF TypeOK
  <2> QED
    BY <2>1, <1>3 DEF DeliveredOK
<1>5. \A e \in batch : DeliveredOK(e)'
  <2> SUFFICES ASSUME NEW e \in batch PROVE DeliveredOK(e)
    BY <1>2, <1>4
  <2>1. e \in Entries /\ owner[e] = NameOf[w]
    BY DEF FirstOf, PendingFor
  <2>2. NameOf[w] # Nobody
    BY ConsumerAssumption
  <2> QED
    BY <2>1, <2>2 DEF PendingOK, Pending
<1>6. CursorOK' /\ NothingLost'
  BY <1>3 DEF CursorOK, NothingLost, Undelivered, Pending, stream, history
<1>7. PendingOK' /\ TouchedOK'
  BY <1>3, <1>4 DEF PendingOK, TouchedOK, Pending, history
<1>8. HandOK'
  <2> SUFFICES ASSUME NEW v \in Workers, NEW e \in hand'[v] PROVE DeliveredOK(e)'
    BY DEF HandOK
  <2>1. CASE v = w
    BY <2>1, <1>2, <1>5, ReceiveNeverAcks
  <2>2. CASE v # w
    BY <2>2, <1>2, <1>4, ReceiveNeverAcks DEF HandOK, TypeOK
  <2> QED
    BY <2>1, <2>2
<1>9. AboutToAck' /\ AckedAfterWork'
  BY <1>2, <1>3, ReceiveNeverAcks DEF AboutToAck, AckedAfterWork, history, Oldest
<1>10. GroupOK'
  <2>1. pass[w] = "history"
    BY DEF ReadHistory
  <2> QED
    BY <2>1, <1>2, <1>3, ReceiveNeverAcks DEF GroupOK
<1> QED
  BY <1>1, <1>6, <1>7, <1>8, <1>9, <1>10

LEMMA ReadNewInv == ASSUME Inv, NEW w \in Workers, ReadNew(w) PROVE Inv'
<1> USE ConsumerAssumption DEF Inv
<1> DEFINE batch == FirstOf(Undelivered)
<1>1. TypeOK'
  BY TypeStep DEF Next, RunOnce
<1>2. Receive(w, batch, {}) /\ batch \subseteq Undelivered /\ batch \subseteq Entries
  BY DEF ReadNew, FirstOf, Undelivered
<1>3. /\ UNCHANGED <<stream, group, history>>
      /\ cursor' \in {cursor} \cup batch
      /\ \A e \in batch : e <= cursor'
      /\ \A e \in Entries : owner'[e] = IF e \in batch THEN NameOf[w] ELSE owner[e]
      /\ \A e \in Entries : deliveries'[e] = IF e \in batch THEN 1 ELSE deliveries[e]
  BY DEF ReadNew
<1>4. /\ tail \in Nat /\ trimmed \in Nat /\ cursor \in Nat /\ cursor' \in Nat
      /\ cursor <= tail /\ trimmed <= tail /\ (~group => cursor = 0)
      /\ tail' = tail /\ trimmed' = trimmed
  BY <1>1, <1>3 DEF TypeOK, CursorOK, stream
<1>5. cursor <= cursor' /\ cursor' <= tail
  BY <1>2, <1>3, <1>4 DEF Undelivered, Entries
<1>6. group
  BY DEF ReadNew, GroupOK
<1>7. CursorOK' /\ GroupOK'
  BY <1>3, <1>4, <1>5, <1>6 DEF CursorOK, GroupOK
<1>8. \A e \in Entries : DeliveredOK(e) => DeliveredOK(e)'
  BY <1>3, <1>4, <1>5 DEF DeliveredOK, Entries
<1>9. \A e \in batch : DeliveredOK(e)'
  BY <1>2, <1>3 DEF DeliveredOK
<1>10. PendingOK' /\ TouchedOK'
  <2>1. PendingOK'
    <3> SUFFICES ASSUME NEW e \in Entries, owner'[e] # Nobody PROVE DeliveredOK(e)'
      BY DEF PendingOK, Pending
    <3>1. CASE e \in batch
      BY <3>1, <1>9
    <3>2. CASE e \notin batch
      BY <3>2, <1>3, <1>8 DEF PendingOK, Pending
    <3> QED
      BY <3>1, <3>2
  <2>2. TouchedOK'
    BY <1>3, <1>8 DEF TouchedOK, history
  <2> QED
    BY <2>1, <2>2
<1>11. HandOK'
  <2> SUFFICES ASSUME NEW v \in Workers, NEW e \in hand'[v] PROVE DeliveredOK(e)'
    BY DEF HandOK
  <2>1. CASE v = w
    BY <2>1, <1>2, <1>9, ReceiveNeverAcks
  <2>2. CASE v # w
    BY <2>2, <1>2, <1>8, ReceiveNeverAcks DEF HandOK, TypeOK
  <2> QED
    BY <2>1, <2>2
<1>12. AboutToAck' /\ AckedAfterWork'
  BY <1>2, <1>3, ReceiveNeverAcks DEF AboutToAck, AckedAfterWork, history, Oldest
<1>13. NothingLost'
  <2> SUFFICES ASSUME NEW e \in 1 .. tail
               PROVE  e \in acked \/ Pending(e)' \/ e \in Undelivered' \/ e + MaxLen <= tail
    BY <1>3, <1>4 DEF NothingLost, history
  <2>1. e \in Entries /\ e \in Nat
    BY DEF TypeOK, Entries
  <2>2. CASE e \in acked \/ e + MaxLen <= tail
    BY <2>2
  <2>3. CASE Pending(e)
    BY <2>1, <2>3, <1>3 DEF Pending
  <2>4. CASE e \in Undelivered /\ e > cursor'
    BY <2>1, <2>4, <1>4 DEF Undelivered
  <2>5. CASE e \in Undelivered /\ e <= cursor'
    <3>1. cursor' \in batch
      BY <2>1, <2>5, <1>3, <1>4 DEF Undelivered
    <3>2. Undelivered \in SUBSET Entries
      BY DEF Undelivered
    <3>3. e \in batch
      BY <2>5, <3>1, <3>2, FirstOfIsPrefix
    <3> QED
      BY <2>1, <3>3, <1>3 DEF Pending
  <2>6. e \in acked \/ Pending(e) \/ e \in Undelivered \/ e + MaxLen <= tail
    BY DEF NothingLost
  <2> QED
    BY <2>1, <2>2, <2>3, <2>4, <2>5, <2>6, <1>4
<1> QED
  BY <1>1, <1>7, <1>10, <1>11, <1>12, <1>13

LEMMA EnsureGroupInv == ASSUME Inv, NEW w \in Workers, EnsureGroup(w) PROVE Inv'
<1> USE DEF Inv
<1>1. TypeOK'
  BY TypeStep DEF Next, RunOnce
<1>2. cursor' = cursor /\ group'
  BY DEF EnsureGroup, CursorOK
<1>3. UNCHANGED <<stream, owner, deliveries, stage, hand, history>>
  BY DEF EnsureGroup
<1> QED
  BY <1>1, <1>2, <1>3 DEF CursorOK, GroupOK, PendingOK, HandOK, TouchedOK, AboutToAck,
     AckedAfterWork, NothingLost, DeliveredOK, Pending, Undelivered, stream, history

LEMMA CrashRestartInv ==
    ASSUME Inv, NEW w \in Workers, Crash(w) \/ Restart(w) PROVE Inv'
<1> USE DEF Inv
<1>1. TypeOK'
  BY TypeStep DEF Next
<1>2. UNCHANGED <<stream, pel, history>>
  BY DEF Crash, Restart
<1>3. /\ \A v \in Workers : hand'[v] \subseteq hand[v]
      /\ \A v \in Workers : stage'[v] \in {"worked", "ack"}
            => stage[v] \in {"worked", "ack"} /\ hand'[v] = hand[v]
      /\ \A v \in Workers : pass'[v] \in {"history", "new"} => pass[v] \in {"history", "new"}
  BY DEF Crash, Restart, TypeOK
<1>4. CursorOK' /\ PendingOK' /\ NothingLost'
  BY <1>2, DataFrame DEF history
<1>5. GroupOK' /\ HandOK' /\ TouchedOK'
  BY <1>2, <1>3 DEF GroupOK, HandOK, TouchedOK, DeliveredOK, pel, history
<1>6. AboutToAck' /\ AckedAfterWork'
  BY <1>2, <1>3 DEF AboutToAck, AckedAfterWork, history
<1> QED
  BY <1>1, <1>4, <1>5, <1>6

LEMMA HandlingInv ==
    ASSUME Inv, NEW w \in Workers, NEW e \in Entries,
           \/ MissingPayload(w, e) \/ Work(w, e) \/ HandleOk(w, e)
           \/ HandleTerminal(w, e) \/ HandleError(w, e) \/ CountAttempts(w, e) \/ Bury(w, e)
    PROVE  Inv'
<1> USE DEF Inv
<1>1. TypeOK'
  BY TypeStep DEF Next, RunOnce
<1>2. /\ e \in hand[w] /\ Oldest(hand[w], e) /\ pass[w] \in {"history", "new"}
      /\ stage[w] \in {"handle", "worked", "count", "bury"}
      /\ UNCHANGED <<stream, pel, acked>>
  BY DEF MissingPayload, Work, HandleOk, HandleTerminal, HandleError, CountAttempts, Bury,
         Handling, Oldest, history
<1>3. /\ \A x \in Entries : effects'[x] >= effects[x] /\ dead'[x] >= dead[x]
      /\ \A x \in Entries \ {e} : effects'[x] = effects[x] /\ dead'[x] = dead[x]
  <2>1. \A x \in Entries : effects[x] \in Nat /\ dead[x] \in Nat
    BY DEF TypeOK
  <2> QED
    BY <2>1 DEF MissingPayload, Work, HandleOk, HandleTerminal, HandleError, CountAttempts, Bury,
              history, TypeOK
<1>4. \/ \E st \in Stages : Goto(w, st)
      \/ NextEntry(w, e)
  BY DEF MissingPayload, Work, HandleOk, HandleTerminal, HandleError, CountAttempts, Bury, Stages
<1> DEFINE Local ==
      /\ \A v \in Workers \ {w} : stage'[v] = stage[v] /\ hand'[v] = hand[v]
      /\ \A v \in Workers : pass'[v] \in {"history", "new"}
                               => pass[v] \in {"history", "new"} \/ v = w
      /\ hand'[w] \subseteq hand[w]
<1>5. Local
  <2>1. ASSUME NEW st \in Stages, Goto(w, st) PROVE Local
    BY <2>1 DEF Goto, TypeOK
  <2>2. ASSUME NextEntry(w, e) PROVE Local
    BY <2>2, ReceiveNeverAcks DEF NextEntry
  <2> QED
    BY <1>4, <2>1, <2>2
<1>6. ASSUME stage'[w] \in {"worked", "ack"}, NEW x \in Entries, Oldest(hand'[w], x)
      PROVE  effects'[x] > 0 \/ dead'[x] > 0
  <2>1. /\ UNCHANGED hand
        /\ \/ effects' = [effects EXCEPT ![e] = @ + 1]
           \/ dead' = [dead EXCEPT ![e] = @ + 1]
           \/ stage[w] = "worked" /\ UNCHANGED <<effects, dead>>
    BY <1>6, ReceiveNeverAcks DEF MissingPayload, Work, HandleOk, HandleTerminal, HandleError,
       CountAttempts, Bury, NextEntry, Goto, TypeOK, history
  <2>2. x = e
    BY <1>2, <1>6, <2>1, OldestIsUnique DEF TypeOK
  <2>3. effects[e] \in Nat /\ dead[e] \in Nat
    BY DEF TypeOK
  <2>4. stage[w] = "worked" => effects[e] > 0 \/ dead[e] > 0
    BY <1>2 DEF AboutToAck
  <2> QED
    BY <2>1, <2>2, <2>3, <2>4 DEF TypeOK
<1> QED
  BY <1>1, <1>2, <1>3, <1>5, <1>6, HandlingStep

LEMMA AckInv == ASSUME Inv, NEW w \in Workers, NEW e \in Entries, Ack(w, e) PROVE Inv'
<1> USE DEF Inv
<1>1. TypeOK'
  BY TypeStep DEF Next, RunOnce
<1>2. /\ e \in hand[w] /\ Oldest(hand[w], e) /\ pass[w] \in {"history", "new"}
      /\ stage[w] = "ack" /\ Receive(w, hand[w] \ {e}, blank[w] \ {e})
      /\ UNCHANGED <<stream, group, cursor, deliveries, effects, dead>>
      /\ acked' = acked \cup {e}
      /\ \A x \in Entries : owner'[x] = IF x = e THEN Nobody ELSE owner[x]
  BY DEF Ack, Handling, Oldest, NextEntry, TypeOK
<1>3. DeliveredOK(e) /\ \A x : DeliveredOK(x)' <=> DeliveredOK(x)
  BY <1>2 DEF HandOK, DeliveredOK
<1>4. effects[e] > 0 \/ dead[e] > 0
  BY <1>2 DEF AboutToAck
<1>5. CursorOK' /\ GroupOK'
  BY <1>2, ReceiveNeverAcks DEF CursorOK, GroupOK, stream
<1>6. PendingOK' /\ TouchedOK'
  BY <1>2, <1>3 DEF PendingOK, TouchedOK, Pending
<1>7. HandOK'
  <2> SUFFICES ASSUME NEW v \in Workers, NEW x \in hand'[v] PROVE DeliveredOK(x)
    BY <1>3 DEF HandOK
  <2>1. hand'[v] \subseteq hand[v]
    BY <1>2, ReceiveNeverAcks
  <2> QED
    BY <2>1 DEF HandOK
<1>8. AboutToAck' /\ AckedAfterWork'
  BY <1>2, <1>4, ReceiveNeverAcks DEF AboutToAck, AckedAfterWork, Oldest
<1>9. NothingLost'
  <2> SUFFICES ASSUME NEW x \in 1 .. tail
               PROVE  x \in acked' \/ Pending(x)' \/ x \in Undelivered \/ x + MaxLen <= tail
    BY <1>2 DEF NothingLost, Undelivered, stream
  <2>1. x \in Entries
    <3>1. tail \in 0 .. MaxEntries /\ MaxEntries \in Nat
      BY ConsumerAssumption DEF TypeOK
    <3> QED
      BY <3>1 DEF Entries
  <2>2. x \in acked \/ Pending(x) \/ x \in Undelivered \/ x + MaxLen <= tail
    BY DEF NothingLost
  <2>3. CASE x = e
    BY <2>3, <1>2
  <2>4. CASE x # e
    <3>1. Pending(x)' <=> Pending(x)
      BY <2>1, <2>4, <1>2 DEF Pending
    <3> QED
      BY <2>2, <3>1, <1>2
  <2> QED
    BY <2>3, <2>4
<1> QED
  BY <1>1, <1>5, <1>6, <1>7, <1>8, <1>9

LEMMA InvStep == Inv /\ [Next]_vars => Inv'
<1> SUFFICES ASSUME Inv, [Next]_vars PROVE Inv'
  OBVIOUS
<1>1. CASE Publish
  BY <1>1, PublishInv
<1>2. CASE \E w \in Workers : RunOnce(w)
  BY <1>2, EnsureGroupInv, ReadHistoryInv, ReadNewInv, HandlingInv, AckInv DEF RunOnce
<1>3. CASE \E w \in Workers : Crash(w) \/ Restart(w)
  BY <1>3, CrashRestartInv
<1>4. CASE UNCHANGED vars
  BY <1>4 DEF vars, stream, pel, process, history, Inv, TypeOK, CursorOK, GroupOK, PendingOK,
     HandOK, TouchedOK, AboutToAck, AckedAfterWork, NothingLost, DeliveredOK, Pending,
     Undelivered, Oldest
<1> QED
  BY <1>1, <1>2, <1>3, <1>4 DEF Next

LEMMA InvHolds == Spec => []Inv
  BY InitInv, InvStep, PTL DEF Spec

\* Every variable keeps its type, for every instance.
THEOREM TypeCorrect == Spec => []TypeOK
<1>1. Inv => TypeOK
  BY DEF Inv
<1> QED
  BY InvHolds, <1>1, PTL

\* _process acks after the work or the burial and never before, however many
\* processes share the stream and whenever any of them dies.
THEOREM AcksAfterTheWork == Spec => []AckedAfterWork
<1>1. Inv => AckedAfterWork
  BY DEF Inv
<1> QED
  BY InvHolds, <1>1, PTL

\* No entry disappears unacked, whatever dies when, unless the backlog behind
\* it reached the stream's cap.
THEOREM NothingIsLost == Spec => []NothingLost
<1>1. Inv => NothingLost
  BY DEF Inv
<1> QED
  BY InvHolds, <1>1, PTL
-----------------------------------------------------------------------------
(***************************************************************************)
(* The retry budget.  Whoever reads has nothing in hand; an entry's effects *)
(* and those its holders may still commit stay within its deliveries; an    *)
(* entry no process holds has a delivery left, and one that nobody is about *)
(* to ack has a burial left.  The last two take exclusive names.            *)
(***************************************************************************)
ReadsEmptyHanded == \A w \in Workers : stage[w] = "read" => hand[w] = {}

\* A process that holds e and may still commit the handler's effects on it.
Owes(w, e) == e \in hand[w] \ blank[w] /\ (stage[w] = "handle" \/ ~Oldest(hand[w], e))
Owing(e)   == {w \in Workers : Owes(w, e)}
OwedOK(e)  == effects[e] + Cardinality(Owing(e)) <= deliveries[e]

Held(e)     == \E w \in Workers : e \in hand[w]
Settling(e) == \E w \in Workers : stage[w] = "ack" /\ Oldest(hand[w], e)

BudgetOK(e) == /\ deliveries[e] <= MaxAttempts + crashes
               /\ Pending(e) /\ ~Held(e) => deliveries[e] < MaxAttempts + crashes
BuriedOK(e) == /\ dead[e] <= 1 + crashes
               /\ Pending(e) /\ ~Settling(e) => dead[e] <= crashes

RetryInv ==
    /\ ReadsEmptyHanded
    /\ \A e \in Entries : OwedOK(e)
    /\ HeldByItsOwner
    /\ NamesAreExclusive => \A e \in Entries : BudgetOK(e) /\ BuriedOK(e)

LEMMA OwingIsFinite ==
    ASSUME NEW e
    PROVE  /\ IsFiniteSet(Owing(e)) /\ Cardinality(Owing(e)) \in Nat
           /\ IsFiniteSet(Owing(e)') /\ Cardinality(Owing(e)') \in Nat
<1>1. Owing(e) \subseteq Workers /\ Owing(e)' \subseteq Workers
  BY DEF Owing
<1> QED
  BY <1>1, ConsumerAssumption, FS_Subset, FS_CardinalityType

\* A step that lets nobody owe more, or one process more for a delivery more, or one
\* process fewer for an effect more, keeps effects within deliveries.
LEMMA OwedStep ==
    ASSUME TypeOK, TypeOK', NEW e \in Entries, OwedOK(e), NEW w \in Workers,
           \/ /\ Owing(e)' \subseteq Owing(e)
              /\ effects'[e] = effects[e] /\ deliveries'[e] >= deliveries[e]
           \/ /\ Owing(e)' \subseteq Owing(e) \cup {w}
              /\ effects'[e] = effects[e] /\ deliveries'[e] = deliveries[e] + 1
           \/ /\ Owing(e)' \subseteq Owing(e) \ {w} /\ w \in Owing(e)
              /\ effects'[e] = effects[e] + 1 /\ deliveries'[e] = deliveries[e]
    PROVE  OwedOK(e)'
<1> DEFINE n == Cardinality(Owing(e))
           m == Cardinality(Owing(e)')
<1>1. n \in Nat /\ m \in Nat /\ IsFiniteSet(Owing(e))
  BY OwingIsFinite
<1>2. effects[e] \in Nat /\ effects'[e] \in Nat /\ deliveries[e] \in Nat /\ deliveries'[e] \in Nat
  BY DEF TypeOK
<1>3. effects[e] + n <= deliveries[e]
  BY DEF OwedOK
<1>4. SUFFICES effects'[e] + m <= deliveries'[e]
  BY DEF OwedOK
<1> HIDE DEF n, m
<1>5. CASE Owing(e)' \subseteq Owing(e) /\ effects'[e] = effects[e] /\ deliveries'[e] >= deliveries[e]
  <2>1. m <= n
    BY <1>1, <1>5, FS_Subset DEF n, m
  <2> QED
    BY <1>1, <1>2, <1>3, <1>5, <2>1
<1>6. CASE /\ Owing(e)' \subseteq Owing(e) \cup {w}
           /\ effects'[e] = effects[e] /\ deliveries'[e] = deliveries[e] + 1
  <2>1. /\ IsFiniteSet(Owing(e) \cup {w})
        /\ Cardinality(Owing(e) \cup {w}) = IF w \in Owing(e) THEN n ELSE n + 1
    BY <1>1, FS_AddElement DEF n
  <2>2. m <= Cardinality(Owing(e) \cup {w})
    BY <1>6, <2>1, FS_Subset DEF m
  <2>3. m <= n + 1
    BY <1>1, <2>1, <2>2
  <2> QED
    BY <1>1, <1>2, <1>3, <1>6, <2>3
<1>7. CASE /\ Owing(e)' \subseteq Owing(e) \ {w} /\ w \in Owing(e)
           /\ effects'[e] = effects[e] + 1 /\ deliveries'[e] = deliveries[e]
  <2>1. IsFiniteSet(Owing(e) \ {w}) /\ Cardinality(Owing(e) \ {w}) = n - 1
    BY <1>1, <1>7, FS_RemoveElement DEF n
  <2>2. m <= Cardinality(Owing(e) \ {w})
    BY <1>7, <2>1, FS_Subset DEF m
  <2>3. m <= n - 1
    BY <2>1, <2>2
  <2> QED
    BY <1>1, <1>2, <1>3, <1>7, <2>3
<1> QED
  BY <1>5, <1>6, <1>7

\* Only w's own hand, stage and blanks change.
Alone(w) == \A v \in Workers \ {w} :
                hand'[v] = hand[v] /\ blank'[v] = blank[v] /\ stage'[v] = stage[v]

LEMMA ReceiveAlone ==
    ASSUME TypeOK, NEW w \in Workers, NEW batch, NEW missing, Receive(w, batch, missing)
    PROVE  /\ Alone(w)
           /\ hand'[w] = batch /\ blank'[w] = missing
           /\ stage'[w] = IF batch = {} THEN "read" ELSE "handle"
  BY DEF Receive, TypeOK, Alone

LEMMA GotoAlone ==
    ASSUME TypeOK, NEW w \in Workers, NEW s, Goto(w, s)
    PROVE  Alone(w) /\ hand'[w] = hand[w] /\ blank'[w] = blank[w] /\ stage'[w] = s
  BY DEF Goto, TypeOK, Alone

\* While names are exclusive, one process holds an entry at a time.
LEMMA OneHolder ==
    ASSUME RetryInv, NamesAreExclusive, NEW v \in Workers, NEW w \in Workers, NEW e,
           e \in hand[v], e \in hand[w]
    PROVE  v = w
  BY DEF RetryInv, HeldByItsOwner, NamesAreExclusive

LEMMA RetryInit == Init => RetryInv
<1> SUFFICES ASSUME Init PROVE RetryInv
  OBVIOUS
<1> USE ConsumerAssumption
<1>1. ReadsEmptyHanded /\ HeldByItsOwner
  BY DEF Init, ReadsEmptyHanded, HeldByItsOwner
<1>2. ASSUME NEW e \in Entries PROVE OwedOK(e)
  <2>1. Owing(e) = {}
    BY DEF Init, Owing, Owes
  <2> QED
    BY <2>1, FS_EmptySet DEF OwedOK, Init
<1>3. ASSUME NEW e \in Entries PROVE BudgetOK(e) /\ BuriedOK(e)
  BY DEF Init, BudgetOK, BuriedOK, Pending
<1> QED
  BY <1>1, <1>2, <1>3 DEF RetryInv

\* A step after which every process holds, and stands at, what it did before.
LEMMA QuietRetry ==
    ASSUME TypeOK, RetryInv, UNCHANGED <<owner, deliveries, stage, hand, blank, history>>,
           crashes' = crashes
    PROVE  RetryInv'
<1>1. ReadsEmptyHanded' /\ HeldByItsOwner'
  BY DEF RetryInv, ReadsEmptyHanded, HeldByItsOwner, NamesAreExclusive
<1>2. ASSUME NEW e \in Entries PROVE OwedOK(e)'
  BY DEF RetryInv, OwedOK, Owing, Owes, Oldest, history
<1>3. ASSUME NamesAreExclusive, NEW e \in Entries PROVE BudgetOK(e)' /\ BuriedOK(e)'
  BY <1>3 DEF RetryInv, BudgetOK, BuriedOK, Pending, Held, Settling, Oldest, history
<1> QED
  BY <1>1, <1>2, <1>3 DEF RetryInv, NamesAreExclusive

LEMMA CrashRetry == ASSUME TypeOK, TypeOK', RetryInv, NEW w \in Workers, Crash(w) PROVE RetryInv'
<1> USE ConsumerAssumption
<1>1. /\ Alone(w) /\ hand'[w] = {} /\ blank'[w] = {} /\ stage'[w] = "read"
      /\ crashes' = crashes + 1 /\ UNCHANGED <<owner, deliveries, effects, dead>>
  BY DEF Crash, Alone, TypeOK, pel, history
<1>2. ReadsEmptyHanded' /\ HeldByItsOwner'
  BY <1>1 DEF RetryInv, ReadsEmptyHanded, HeldByItsOwner, NamesAreExclusive, Alone
<1>3. ASSUME NEW e \in Entries PROVE OwedOK(e)'
  <2>1. Owing(e)' \subseteq Owing(e)
    BY <1>1 DEF Owing, Owes, Oldest, Alone
  <2>2. effects'[e] = effects[e] /\ deliveries'[e] >= deliveries[e]
    BY <1>1 DEF TypeOK
  <2> QED
    BY <2>1, <2>2, OwedStep DEF RetryInv
<1>4. ASSUME NamesAreExclusive, NEW e \in Entries PROVE BudgetOK(e)' /\ BuriedOK(e)'
  <2>1. /\ crashes \in Nat /\ deliveries[e] \in Nat /\ dead[e] \in Nat /\ MaxAttempts \in Nat
        /\ deliveries[e] <= MaxAttempts + crashes /\ dead[e] <= 1 + crashes
    BY <1>4 DEF TypeOK, RetryInv, BudgetOK, BuriedOK
  <2> QED
    BY <1>1, <2>1 DEF BudgetOK, BuriedOK
<1> QED
  BY <1>2, <1>3, <1>4 DEF RetryInv, NamesAreExclusive

LEMMA ReadHistoryRetry ==
    ASSUME Inv, TypeOK', RetryInv, NEW w \in Workers, ReadHistory(w) PROVE RetryInv'
<1> USE ConsumerAssumption
<1> DEFINE batch   == FirstOf(PendingFor(w))
           missing == {e \in batch : e <= trimmed}
<1>1. /\ TypeOK /\ hand[w] = {} /\ stage[w] = "read"
      /\ Receive(w, batch, missing) /\ batch \subseteq PendingFor(w)
      /\ UNCHANGED <<owner, crashes, effects, dead>>
      /\ \A e \in Entries : deliveries'[e] = IF e \in batch \ missing THEN deliveries[e] + 1
                                                                   ELSE deliveries[e]
  BY FirstOfSubset DEF ReadHistory, RetryInv, ReadsEmptyHanded, Inv, history
<1> HIDE DEF batch, missing
<1>2. /\ Alone(w) /\ hand'[w] = batch /\ blank'[w] = missing
      /\ stage'[w] \in {"read", "handle"} /\ (stage'[w] = "read" => batch = {})
  BY <1>1, ReceiveAlone
<1>3. ReadsEmptyHanded'
  BY <1>2 DEF RetryInv, ReadsEmptyHanded, Alone
<1>4. HeldByItsOwner'
  BY <1>1, <1>2 DEF RetryInv, HeldByItsOwner, NamesAreExclusive, Alone, PendingFor
<1>5. ASSUME NEW e \in Entries PROVE OwedOK(e)'
  <2>1. Owing(e)' \subseteq Owing(e) \cup {w}
    BY <1>2 DEF Owing, Owes, Oldest, Alone
  <2>2. e \notin batch \ missing => Owing(e)' \subseteq Owing(e)
    BY <1>1, <1>2 DEF Owing, Owes, Oldest, Alone
  <2>3. deliveries[e] \in Nat
    BY <1>1 DEF TypeOK
  <2> QED
    BY <1>1, <2>1, <2>2, <2>3, OwedStep DEF RetryInv
<1>6. ASSUME NamesAreExclusive, NEW e \in Entries PROVE BudgetOK(e)' /\ BuriedOK(e)'
  <2>1. /\ crashes \in Nat /\ deliveries[e] \in Nat /\ dead[e] \in Nat /\ MaxAttempts \in Nat
        /\ BudgetOK(e) /\ BuriedOK(e)
    BY <1>1, <1>6 DEF TypeOK, RetryInv
  <2>2. e \in batch => Pending(e) /\ ~Held(e)
    <3> SUFFICES ASSUME e \in batch PROVE Pending(e) /\ ~Held(e)
      OBVIOUS
    <3>1. owner[e] = NameOf[w] /\ NameOf[w] # Nobody
      BY <1>1 DEF PendingFor
    <3>2. ASSUME NEW v \in Workers, e \in hand[v] PROVE FALSE
      <4>1. v # w
        BY <1>1, <3>2
      <4>2. owner[e] = NameOf[v]
        BY <1>6, <3>2 DEF RetryInv, HeldByItsOwner
      <4> QED
        BY <1>6, <3>1, <4>1, <4>2 DEF NamesAreExclusive
    <3> QED
      BY <3>1, <3>2 DEF Pending, Held
  <2>3. BudgetOK(e)'
    <3>1. CASE e \in batch
      <4>1. deliveries[e] < MaxAttempts + crashes /\ deliveries'[e] <= deliveries[e] + 1
        BY <1>1, <2>1, <2>2, <3>1 DEF BudgetOK
      <4>2. Held(e)'
        BY <1>2, <3>1 DEF Held
      <4>3. deliveries'[e] <= MaxAttempts + crashes
        BY <1>1, <2>1, <4>1 DEF TypeOK
      <4> QED
        BY <1>1, <4>2, <4>3 DEF BudgetOK
    <3>2. CASE e \notin batch
      <4>1. Held(e) => Held(e)'
        BY <1>1, <1>2 DEF Held, Alone
      <4> QED
        BY <1>1, <2>1, <3>2, <4>1 DEF BudgetOK, Pending
    <3> QED
      BY <3>1, <3>2
  <2>4. Settling(e) => Settling(e)'
    BY <1>1, <1>2 DEF Settling, Alone, Oldest
  <2> QED
    BY <1>1, <2>1, <2>3, <2>4 DEF BuriedOK, Pending
<1> QED
  BY <1>3, <1>4, <1>5, <1>6 DEF RetryInv, NamesAreExclusive

LEMMA ReadNewRetry ==
    ASSUME Inv, TypeOK', RetryInv, NEW w \in Workers, ReadNew(w) PROVE RetryInv'
<1> USE ConsumerAssumption
<1> DEFINE batch == FirstOf(Undelivered)
<1>1. /\ TypeOK /\ hand[w] = {} /\ stage[w] = "read"
      /\ Receive(w, batch, {}) /\ batch \subseteq Undelivered
      /\ UNCHANGED <<crashes, effects, dead>>
      /\ \A e \in Entries : /\ owner'[e] = IF e \in batch THEN NameOf[w] ELSE owner[e]
                            /\ deliveries'[e] = IF e \in batch THEN 1 ELSE deliveries[e]
  BY FirstOfSubset DEF ReadNew, RetryInv, ReadsEmptyHanded, Inv, history
<1>2. ASSUME NEW e \in batch
      PROVE  /\ e \in Entries /\ ~DeliveredOK(e) /\ ~Pending(e)
             /\ effects[e] = 0 /\ dead[e] = 0
             /\ \A v \in Workers : e \notin hand[v]
  <2>1. e \in Undelivered
    BY <1>1
  <2>2. e \in Entries /\ ~DeliveredOK(e)
    BY <1>1, <2>1 DEF Undelivered, DeliveredOK, TypeOK, Entries
  <2>3. effects[e] \in Nat /\ dead[e] \in Nat
    BY <1>1, <2>2 DEF TypeOK
  <2> QED
    BY <2>2, <2>3 DEF Inv, PendingOK, HandOK, TouchedOK
<1> HIDE DEF batch
<1>3. /\ Alone(w) /\ hand'[w] = batch /\ blank'[w] = {}
      /\ stage'[w] \in {"read", "handle"} /\ (stage'[w] = "read" => batch = {})
  BY <1>1, ReceiveAlone
<1>4. ReadsEmptyHanded'
  BY <1>3 DEF RetryInv, ReadsEmptyHanded, Alone
<1>5. HeldByItsOwner'
  <2> SUFFICES ASSUME NamesAreExclusive, NEW v \in Workers, NEW e \in hand'[v]
               PROVE  owner'[e] = NameOf[v]
    BY DEF HeldByItsOwner, NamesAreExclusive
  <2>1. CASE v = w
    BY <1>1, <1>2, <1>3, <2>1
  <2>2. CASE v # w
    <3>1. e \in hand[v] /\ e \in Entries
      BY <1>1, <1>3, <2>2 DEF Alone, TypeOK
    <3>2. owner[e] = NameOf[v] /\ e \notin batch
      BY <1>2, <3>1 DEF RetryInv, HeldByItsOwner
    <3> QED
      BY <1>1, <3>1, <3>2
  <2> QED
    BY <2>1, <2>2
<1>6. ASSUME NEW e \in Entries PROVE OwedOK(e)'
  <2>1. CASE e \in batch
    <3>1. Owing(e)' \subseteq {w}
      BY <1>2, <1>3, <2>1 DEF Owing, Owes, Oldest, Alone
    <3>2. IsFiniteSet({w}) /\ Cardinality({w}) = 1
      BY FS_Singleton
    <3>3. Cardinality(Owing(e)') <= 1
      BY <3>1, <3>2, FS_Subset
    <3>4. effects'[e] = 0 /\ deliveries'[e] = 1 /\ Cardinality(Owing(e)') \in Nat
      BY <1>1, <1>2, <2>1, OwingIsFinite
    <3> QED
      BY <3>3, <3>4 DEF OwedOK
  <2>2. CASE e \notin batch
    <3>1. Owing(e)' \subseteq Owing(e)
      BY <1>3, <2>2 DEF Owing, Owes, Oldest, Alone
    <3>2. effects'[e] = effects[e] /\ deliveries'[e] >= deliveries[e]
      BY <1>1, <2>2 DEF TypeOK
    <3> QED
      BY <1>1, <3>1, <3>2, OwedStep DEF RetryInv
  <2> QED
    BY <2>1, <2>2
<1>7. ASSUME NamesAreExclusive, NEW e \in Entries PROVE BudgetOK(e)' /\ BuriedOK(e)'
  <2>1. /\ crashes \in Nat /\ MaxAttempts \in Nat /\ MaxAttempts >= 1
        /\ BudgetOK(e) /\ BuriedOK(e)
    BY <1>1, <1>7 DEF TypeOK, RetryInv
  <2>2. CASE e \in batch
    <3>1. Held(e)' /\ deliveries'[e] = 1 /\ dead'[e] = 0 /\ crashes' = crashes
      BY <1>1, <1>2, <1>3, <2>2 DEF Held
    <3> QED
      BY <2>1, <3>1 DEF BudgetOK, BuriedOK
  <2>3. CASE e \notin batch
    <3>1. (Held(e) => Held(e)') /\ (Settling(e) => Settling(e)')
      BY <1>1, <1>3 DEF Held, Settling, Alone, Oldest
    <3> QED
      BY <1>1, <2>1, <2>3, <3>1 DEF BudgetOK, BuriedOK, Pending
  <2> QED
    BY <2>2, <2>3
<1> QED
  BY <1>4, <1>5, <1>6, <1>7 DEF RetryInv, NamesAreExclusive

\* Leaving an entry for the next one in the batch: nobody owes more for it.
LEMMA OwingMovesOn ==
    ASSUME TypeOK, NEW w \in Workers, NEW e \in Entries, Oldest(hand[w], e), Alone(w),
           hand'[w] = hand[w] \ {e}, blank'[w] = blank[w] \ {e}, NEW x \in Entries
    PROVE  Owing(x)' \subseteq Owing(x)
<1> SUFFICES ASSUME NEW v \in Workers, Owes(v, x)' PROVE Owes(v, x)
  BY DEF Owing
<1>1. CASE v = w
  <2>1. x \in hand[w] /\ x \notin blank[w] /\ x # e
    BY <1>1 DEF Owes
  <2>2. ~Oldest(hand[w], x)
    BY <2>1, OldestIsUnique DEF TypeOK
  <2> QED
    BY <1>1, <2>1, <2>2 DEF Owes
<1>2. CASE v # w
  BY <1>2 DEF Owes, Oldest, Alone
<1> QED
  BY <1>1, <1>2

LEMMA HandlingRetry ==
    ASSUME Inv, TypeOK', RetryInv, NEW w \in Workers, NEW e \in Entries,
           \/ MissingPayload(w, e) \/ Work(w, e) \/ HandleOk(w, e)
           \/ HandleTerminal(w, e) \/ HandleError(w, e) \/ CountAttempts(w, e) \/ Bury(w, e)
    PROVE  RetryInv'
<1> USE ConsumerAssumption
<1>1. /\ TypeOK /\ e \in hand[w] /\ Oldest(hand[w], e)
      /\ stage[w] \in {"handle", "worked", "count", "bury"}
      /\ UNCHANGED <<owner, deliveries, crashes>>
      /\ \A x \in Entries \ {e} : effects'[x] = effects[x] /\ dead'[x] = dead[x]
  BY DEF Inv, TypeOK, MissingPayload, Work, HandleOk, HandleTerminal, HandleError, CountAttempts,
         Bury, Handling, Oldest, pel, history
\* What the step does to the process, and to the entry's effects and burials.
<1>2. \/ /\ hand'[w] = hand[w] /\ blank'[w] = blank[w]
         /\ stage'[w] \in {"worked", "count", "bury", "ack"}
      \/ /\ hand'[w] = hand[w] \ {e} /\ blank'[w] = blank[w] \ {e}
         /\ stage'[w] = IF hand'[w] = {} THEN "read" ELSE "handle"
         /\ Attempts(e) < MaxAttempts /\ UNCHANGED <<effects, dead>>
  <2>1. CASE CountAttempts(w, e)
    <3>1. Attempts(e) \in Nat
      BY <1>1 DEF Attempts, TypeOK
    <3> QED
      BY <1>1, <2>1, <3>1, GotoAlone, ReceiveAlone DEF CountAttempts, NextEntry, history
  <2>2. CASE \E s \in {"worked", "count", "bury", "ack"} : Goto(w, s)
    BY <1>1, <2>2, GotoAlone
  <2> QED
    BY <2>1, <2>2 DEF MissingPayload, Work, HandleOk, HandleTerminal, HandleError, Bury
<1>3. Alone(w)
  BY <1>1, GotoAlone, ReceiveAlone DEF MissingPayload, Work, HandleOk, HandleTerminal,
     HandleError, CountAttempts, Bury, NextEntry
<1>4. \/ effects'[e] = effects[e]
      \/ /\ effects'[e] = effects[e] + 1
         /\ stage[w] = "handle" /\ stage'[w] = "worked" /\ e \notin blank[w]
  BY <1>1, GotoAlone DEF TypeOK, MissingPayload, Work, HandleOk, HandleTerminal, HandleError,
     CountAttempts, Bury, history
<1>5. \/ dead'[e] = dead[e]
      \/ dead'[e] = dead[e] + 1 /\ stage[w] = "bury" /\ stage'[w] = "ack" /\ hand'[w] = hand[w]
  BY <1>1, GotoAlone DEF TypeOK, MissingPayload, Work, HandleOk, HandleTerminal, HandleError,
     CountAttempts, Bury, history
<1>6. ReadsEmptyHanded'
  BY <1>1, <1>2, <1>3 DEF RetryInv, ReadsEmptyHanded, Alone
<1>7. HeldByItsOwner'
  BY <1>1, <1>2, <1>3 DEF RetryInv, HeldByItsOwner, NamesAreExclusive, Alone
<1>8. ASSUME NEW x \in Entries PROVE Owing(x)' \subseteq Owing(x)
  <2>1. CASE hand'[w] = hand[w] /\ blank'[w] = blank[w] /\ stage'[w] # "handle"
    BY <1>3, <2>1 DEF Owing, Owes, Oldest, Alone
  <2>2. CASE hand'[w] = hand[w] \ {e} /\ blank'[w] = blank[w] \ {e}
    BY <1>1, <1>3, <2>2, OwingMovesOn
  <2> QED
    BY <1>2, <2>1, <2>2
<1>9. ASSUME NEW x \in Entries PROVE OwedOK(x)'
  <2>1. CASE effects'[x] = effects[x]
    <3>1. deliveries'[x] >= deliveries[x]
      BY <1>1 DEF TypeOK
    <3> QED
      BY <1>1, <1>8, <2>1, <3>1, OwedStep DEF RetryInv
  <2>2. CASE effects'[x] # effects[x]
    <3>1. x = e /\ effects'[e] = effects[e] + 1
          /\ stage[w] = "handle" /\ stage'[w] = "worked" /\ e \notin blank[w]
      BY <1>1, <1>4, <2>2
    <3>2. hand'[w] = hand[w]
      BY <1>2, <3>1
    <3>3. w \in Owing(x)
      BY <1>1, <3>1 DEF Owing, Owes
    <3>4. w \notin Owing(x)'
      BY <1>1, <3>1, <3>2 DEF Owing, Owes, Oldest
    <3>5. Owing(x)' \subseteq Owing(x) \ {w}
      BY <1>8, <3>4
    <3> QED
      BY <1>1, <3>1, <3>3, <3>5, OwedStep DEF RetryInv
  <2> QED
    BY <2>1, <2>2
<1>10. ASSUME NamesAreExclusive, NEW x \in Entries PROVE BudgetOK(x)' /\ BuriedOK(x)'
  <2>1. /\ crashes \in Nat /\ MaxAttempts \in Nat /\ deliveries[x] \in Nat /\ dead[x] \in Nat
        /\ BudgetOK(x) /\ BuriedOK(x)
    BY <1>1, <1>10 DEF TypeOK, RetryInv
  <2>2. Pending(e)
    BY <1>1, <1>10 DEF RetryInv, HeldByItsOwner, Pending
  <2>3. BudgetOK(x)'
    <3>1. CASE Held(x) => Held(x)'
      BY <1>1, <2>1, <3>1 DEF BudgetOK, Pending
    <3>2. CASE Held(x) /\ ~Held(x)'
      <4>1. x = e /\ Attempts(e) < MaxAttempts
        BY <1>2, <1>3, <3>2 DEF Held, Alone
      <4>2. deliveries[x] < MaxAttempts
        BY <2>2, <4>1 DEF Attempts
      <4> QED
        BY <1>1, <2>1, <4>2 DEF BudgetOK
    <3> QED
      BY <3>1, <3>2
  <2>4. BuriedOK(x)'
    <3>1. CASE x # e
      <4>1. Settling(x) => Settling(x)'
        BY <1>1, <1>3 DEF Settling, Alone
      <4> QED
        BY <1>1, <2>1, <3>1, <4>1 DEF BuriedOK, Pending
    <3>2. CASE x = e
      <4>1. \A v \in Workers \ {w} : ~(stage[v] = "ack" /\ Oldest(hand[v], e))
        BY <1>1, <1>10, OneHolder DEF Oldest
      <4>2. ~Settling(e)
        BY <1>1, <4>1 DEF Settling
      <4>3. dead[e] <= crashes
        BY <2>1, <2>2, <3>2, <4>2 DEF BuriedOK
      <4>4. CASE dead'[e] = dead[e]
        BY <1>1, <2>1, <3>2, <4>3, <4>4 DEF BuriedOK
      <4>5. CASE dead'[e] = dead[e] + 1 /\ stage'[w] = "ack" /\ hand'[w] = hand[w]
        <5>1. Settling(e)'
          BY <1>1, <4>5 DEF Settling, Oldest
        <5> QED
          BY <1>1, <2>1, <3>2, <4>3, <4>5, <5>1 DEF BuriedOK
      <4> QED
        BY <1>5, <4>4, <4>5
    <3> QED
      BY <3>1, <3>2
  <2> QED
    BY <2>3, <2>4
<1> QED
  BY <1>6, <1>7, <1>9, <1>10 DEF RetryInv, NamesAreExclusive

LEMMA AckRetry ==
    ASSUME Inv, TypeOK', RetryInv, NEW w \in Workers, NEW e \in Entries, Ack(w, e)
    PROVE  RetryInv'
<1> USE ConsumerAssumption
<1>1. /\ TypeOK /\ e \in hand[w] /\ Oldest(hand[w], e) /\ stage[w] = "ack"
      /\ Receive(w, hand[w] \ {e}, blank[w] \ {e})
      /\ UNCHANGED <<deliveries, crashes, effects, dead>>
      /\ \A x \in Entries : owner'[x] = IF x = e THEN Nobody ELSE owner[x]
  BY DEF Inv, TypeOK, Ack, Handling, Oldest, NextEntry
<1>2. /\ Alone(w) /\ hand'[w] = hand[w] \ {e} /\ blank'[w] = blank[w] \ {e}
      /\ stage'[w] = IF hand'[w] = {} THEN "read" ELSE "handle"
  BY <1>1, ReceiveAlone
<1>3. ReadsEmptyHanded'
  BY <1>2 DEF RetryInv, ReadsEmptyHanded, Alone
<1>4. HeldByItsOwner'
  <2> SUFFICES ASSUME NamesAreExclusive, NEW v \in Workers, NEW x \in hand'[v]
               PROVE  owner'[x] = NameOf[v]
    BY DEF HeldByItsOwner, NamesAreExclusive
  <2>1. x \in hand[v] /\ x \in Entries /\ (v = w => x # e)
    BY <1>1, <1>2 DEF Alone, TypeOK
  <2>2. owner[x] = NameOf[v] /\ x # e
    BY <1>1, <2>1, OneHolder DEF RetryInv, HeldByItsOwner
  <2> QED
    BY <1>1, <2>1, <2>2
<1>5. ASSUME NEW x \in Entries PROVE OwedOK(x)'
  <2>1. Owing(x)' \subseteq Owing(x)
    BY <1>1, <1>2, OwingMovesOn
  <2>2. effects'[x] = effects[x] /\ deliveries'[x] >= deliveries[x]
    BY <1>1 DEF TypeOK
  <2> QED
    BY <1>1, <2>1, <2>2, OwedStep DEF RetryInv
<1>6. ASSUME NamesAreExclusive, NEW x \in Entries PROVE BudgetOK(x)' /\ BuriedOK(x)'
  <2>1. BudgetOK(x) /\ BuriedOK(x)
    BY <1>6 DEF RetryInv
  <2>2. CASE x = e
    BY <1>1, <2>1, <2>2 DEF BudgetOK, BuriedOK, Pending
  <2>3. CASE x # e
    <3>1. (Held(x) => Held(x)') /\ (Settling(x) => Settling(x)')
      BY <1>1, <1>2, <2>3, OldestIsUnique DEF Held, Settling, Alone, Oldest, TypeOK
    <3> QED
      BY <1>1, <2>1, <2>3, <3>1 DEF BudgetOK, BuriedOK, Pending
  <2> QED
    BY <2>2, <2>3
<1> QED
  BY <1>3, <1>4, <1>5, <1>6 DEF RetryInv, NamesAreExclusive

LEMMA RetryStep == Inv /\ Inv' /\ RetryInv /\ [Next]_vars => RetryInv'
<1> SUFFICES ASSUME Inv, TypeOK, TypeOK', RetryInv, [Next]_vars PROVE RetryInv'
  BY DEF Inv
<1>1. CASE Publish
  BY <1>1, QuietRetry DEF Publish, pel, process
<1>2. ASSUME NEW w \in Workers, RunOnce(w) PROVE RetryInv'
  <2>1. CASE EnsureGroup(w)
    BY <2>1, QuietRetry DEF EnsureGroup
  <2> QED
    BY <1>2, <2>1, ReadHistoryRetry, ReadNewRetry, HandlingRetry, AckRetry DEF RunOnce
<1>3. ASSUME NEW w \in Workers, Crash(w) \/ Restart(w) PROVE RetryInv'
  BY <1>3, CrashRetry, QuietRetry DEF Restart, pel
<1>4. CASE UNCHANGED vars
  BY <1>4, QuietRetry DEF vars, pel, process
<1> QED
  BY <1>1, <1>2, <1>3, <1>4 DEF Next

\* run_once, _process and _bury retry within bounds for any number of processes and
\* deaths: with a name of its own each process handles its entries alone, max_attempts
\* bounds the deliveries and one row the burials, each up to one more per death; and
\* effects never outnumber deliveries, whoever shares a name.
THEOREM RetriesStayBounded == Spec => []RetriesAreBounded
<1>1. Init => RetryInv
  BY RetryInit
<1>2. Inv /\ RetryInv => RetriesAreBounded
  <2> SUFFICES ASSUME Inv, RetryInv PROVE RetriesAreBounded
    OBVIOUS
  <2>1. ASSUME NEW e \in Entries PROVE effects[e] <= deliveries[e]
    <3>1. effects[e] \in Nat /\ deliveries[e] \in Nat /\ Cardinality(Owing(e)) \in Nat
      BY OwingIsFinite DEF Inv, TypeOK
    <3> QED
      BY <3>1 DEF RetryInv, OwedOK
  <2> QED
    BY <2>1 DEF RetryInv, BudgetOK, BuriedOK, RetriesAreBounded, DeliveryBound,
       EffectsWithinDeliveries, DeadLetteredOnce
<1> QED
  BY <1>1, <1>2, RetryStep, InvHolds, PTL DEF Spec
-----------------------------------------------------------------------------
(***************************************************************************)
(* The consumer implements AtLeastOnce.  The abbreviations are what the     *)
(* refinement mapping makes of the abstract queue's variables.              *)
(***************************************************************************)
Accepted == 1 .. tail
Worked   == {e \in Entries : effects[e] > 0}
Reported == {e \in Entries : dead[e] > 0}
Lost     == {e \in 1 .. tail : Dropped(e)}
Mapped   == <<Accepted, Worked, Reported, acked, Lost>>

LEMMA MappedVars == Queue!queue = Mapped
  BY DEF Queue!queue, Mapped, Accepted, Worked, Reported, Lost

\* Whether an entry counts as dropped depends on being delivered, not on how often.
LEMMA SameQueue ==
    ASSUME Inv, UNCHANGED <<stream, effects, dead, acked>>,
           \A e \in 1 .. tail : Dropped(e)' <=> Dropped(e)
    PROVE  UNCHANGED Mapped
<1>1. tail' = tail
  BY DEF stream
<1>2. Lost' = Lost
  BY <1>1 DEF Lost
<1> QED
  BY <1>1, <1>2 DEF Mapped, Accepted, Worked, Reported

LEMMA PublishAccepts == ASSUME Inv, Inv', Publish PROVE Queue!Accept(tail + 1)
<1> USE ConsumerAssumption DEF Inv
<1>1. /\ tail \in Nat /\ tail' = tail + 1 /\ tail + 1 \in Entries
      /\ trimmed \in Nat /\ trimmed' \in Nat /\ trimmed <= trimmed'
      /\ UNCHANGED <<deliveries, effects, dead, acked>>
  BY DEF Publish, TypeOK, Entries, pel, history
<1>2. tail + 1 \notin Accepted /\ Accepted' = Accepted \cup {tail + 1}
  BY <1>1 DEF Accepted
<1>3. Lost' \in SUBSET Accepted'
  BY DEF Lost, Accepted
<1>4. Lost \subseteq Lost'
  BY <1>1 DEF Lost, Dropped
<1>5. (Lost' \ Lost) \cap (Worked \cup Reported \cup acked) = {}
  <2> SUFFICES ASSUME NEW e \in Lost', e \in Worked \cup Reported \cup acked PROVE FALSE
    OBVIOUS
  <2>1. deliveries[e] = 0
    BY <1>1 DEF Lost, Dropped
  <2>2. e \in Entries /\ deliveries[e] > 0
    BY DEF Worked, Reported, TouchedOK, DeliveredOK, TypeOK
  <2> QED
    BY <2>1, <2>2
<1>6. UNCHANGED <<Worked, Reported, acked>>
  BY <1>1 DEF Worked, Reported
<1> QED
  BY <1>1, <1>2, <1>3, <1>4, <1>5, <1>6
  DEF Queue!Accept, Accepted, Worked, Reported, Lost

\* A delivered entry was accepted and not dropped.
LEMMA DeliveredIsAccepted ==
    ASSUME Inv, NEW e \in Entries, DeliveredOK(e) PROVE e \in Accepted \ Lost
<1>1. /\ tail \in Nat /\ cursor \in Nat /\ cursor <= tail
      /\ deliveries[e] > 0 /\ e <= cursor /\ e \in Nat /\ e >= 1 /\ deliveries[e] \in Nat
  BY ConsumerAssumption DEF Inv, TypeOK, CursorOK, DeliveredOK, Entries
<1> QED
  BY <1>1 DEF Accepted, Lost, Dropped

LEMMA WorkMaps ==
    ASSUME Inv, NEW e \in Entries, DeliveredOK(e),
           effects' = [effects EXCEPT ![e] = @ + 1], UNCHANGED <<stream, pel, dead, acked>>
    PROVE  Queue!Work(e)
<1>1. Worked' = Worked \cup {e}
  BY DEF Worked, Inv, TypeOK
<1>2. UNCHANGED <<Accepted, Reported, acked, Lost>>
  BY DEF Accepted, Reported, Lost, Dropped, stream, pel
<1> QED
  BY <1>1, <1>2, DeliveredIsAccepted DEF Queue!Work, Accepted, Worked, Reported, Lost

LEMMA ReportMaps ==
    ASSUME Inv, NEW e \in Entries, DeliveredOK(e),
           dead' = [dead EXCEPT ![e] = @ + 1], UNCHANGED <<stream, pel, effects, acked>>
    PROVE  Queue!Report(e)
<1>1. Reported' = Reported \cup {e}
  BY DEF Reported, Inv, TypeOK
<1>2. UNCHANGED <<Accepted, Worked, acked, Lost>>
  BY DEF Accepted, Worked, Lost, Dropped, stream, pel
<1> QED
  BY <1>1, <1>2, DeliveredIsAccepted DEF Queue!Report, Accepted, Worked, Reported, Lost

LEMMA AckForgets ==
    ASSUME Inv, NEW w \in Workers, NEW e \in Entries, Ack(w, e) PROVE Queue!Forget(e)
<1>1. effects[e] > 0 \/ dead[e] > 0
  BY DEF Inv, AboutToAck, Ack, Handling
<1>2. e \in Worked \cup Reported
  BY <1>1 DEF Worked, Reported
<1>3. UNCHANGED <<Accepted, Worked, Reported, Lost>> /\ acked' = acked \cup {e}
  BY DEF Ack, Accepted, Worked, Reported, Lost, Dropped, stream
<1> QED
  BY <1>2, <1>3 DEF Queue!Forget, Accepted, Worked, Reported, Lost

LEMMA ReadKeepsQueue ==
    ASSUME Inv, NEW w \in Workers, ReadHistory(w) \/ ReadNew(w) \/ EnsureGroup(w)
    PROVE  UNCHANGED Mapped
<1> USE ConsumerAssumption DEF Inv
<1>1. UNCHANGED <<stream, effects, dead, acked>>
  BY DEF ReadHistory, ReadNew, EnsureGroup, history
<1>2. ASSUME NEW e \in 1 .. tail PROVE Dropped(e)' <=> Dropped(e)
  <2>1. e \in Entries /\ deliveries[e] \in Nat
    <3>1. tail \in 0 .. MaxEntries /\ MaxEntries \in Nat
      BY DEF TypeOK
    <3> QED
      BY <3>1 DEF Entries, TypeOK
  <2>2. CASE ReadHistory(w)
    <3>1. \/ deliveries'[e] = deliveries[e]
          \/ deliveries'[e] = deliveries[e] + 1 /\ e \in PendingFor(w)
      BY <2>1, <2>2 DEF ReadHistory, FirstOf
    <3>2. e \in PendingFor(w) => deliveries[e] > 0
      BY <2>1 DEF PendingFor, PendingOK, Pending, DeliveredOK
    <3> QED
      BY <2>1, <3>1, <3>2, <1>1 DEF Dropped, stream
  <2>3. CASE ReadNew(w)
    <3>1. \/ deliveries'[e] = deliveries[e]
          \/ e \in Undelivered
      BY <2>1, <2>3 DEF ReadNew, FirstOf
    <3>2. e \in Undelivered => ~(e <= trimmed)
      BY <2>1 DEF Undelivered, TypeOK
    <3> QED
      BY <3>1, <3>2, <1>1 DEF Dropped, stream
  <2>4. CASE EnsureGroup(w)
    BY <2>4 DEF EnsureGroup, Dropped, stream
  <2> QED
    BY <2>2, <2>3, <2>4
<1> QED
  BY <1>1, <1>2, SameQueue

LEMMA HandlingMaps ==
    ASSUME Inv, NEW w \in Workers, NEW e \in Entries,
           \/ MissingPayload(w, e) \/ Work(w, e) \/ HandleOk(w, e)
           \/ HandleTerminal(w, e) \/ HandleError(w, e) \/ CountAttempts(w, e) \/ Bury(w, e)
    PROVE  Queue!Work(e) \/ Queue!Report(e) \/ UNCHANGED Mapped
<1>1. DeliveredOK(e) /\ UNCHANGED <<stream, pel, acked>>
  BY DEF MissingPayload, Work, HandleOk, HandleTerminal, HandleError, CountAttempts, Bury,
         Handling, Oldest, history, Inv, HandOK
<1>2. \/ UNCHANGED <<effects, dead>>
      \/ effects' = [effects EXCEPT ![e] = @ + 1] /\ UNCHANGED dead
      \/ dead' = [dead EXCEPT ![e] = @ + 1] /\ UNCHANGED effects
  BY DEF MissingPayload, Work, HandleOk, HandleTerminal, HandleError, CountAttempts, Bury, history
<1>3. CASE UNCHANGED <<effects, dead>>
  BY <1>1, <1>3, SameQueue DEF Dropped, stream, pel
<1> QED
  BY <1>1, <1>2, <1>3, WorkMaps, ReportMaps

LEMMA StepMaps == Inv /\ Inv' /\ [Next]_vars => [Queue!QNext]_(Queue!queue)
<1> SUFFICES ASSUME Inv, Inv', [Next]_vars
             PROVE  (\E i \in Entries : \/ Queue!Accept(i) \/ Queue!Work(i)
                                        \/ Queue!Report(i) \/ Queue!Forget(i))
                    \/ UNCHANGED Mapped
  BY MappedVars DEF Queue!QNext, Queue!queue, Mapped, Accepted, Worked, Reported, Lost
<1>1. CASE Publish
  <2>1. tail + 1 \in Entries
    BY <1>1, ConsumerAssumption DEF Publish, Inv, TypeOK, Entries
  <2> QED
    BY <1>1, <2>1, PublishAccepts
<1>2. CASE \E w \in Workers : RunOnce(w)
  BY <1>2, ReadKeepsQueue, HandlingMaps, AckForgets DEF RunOnce
<1>3. CASE \E w \in Workers : Crash(w) \/ Restart(w)
  BY <1>3, SameQueue DEF Crash, Restart, history, pel, stream, Dropped
<1>4. CASE UNCHANGED vars
  BY <1>4, SameQueue DEF vars, history, pel, stream, Dropped
<1> QED
  BY <1>1, <1>2, <1>3, <1>4 DEF Next

\* The consumer implements the queue everything else here is built on: an
\* accepted message is forgotten only once worked or reported.
THEOREM ImplementsTheQueue == Spec => KeepsTheQueuePromise
<1>1. Init => Queue!QInit
  <2>1. Init => /\ 1 .. tail = {} /\ acked = {}
                /\ {e \in Entries : effects[e] > 0} = {}
                /\ {e \in Entries : dead[e] > 0} = {}
                /\ {e \in 1 .. tail : Dropped(e)} = {}
    BY DEF Init
  <2> QED
    BY <2>1 DEF Queue!QInit
<1>2. Inv /\ Inv' /\ [Next]_vars => [Queue!QNext]_(Queue!queue)
  BY StepMaps
<1> QED
  BY <1>1, <1>2, InvHolds, PTL DEF Spec, KeepsTheQueuePromise, Queue!QSafe
-----------------------------------------------------------------------------
(***************************************************************************)
(* The inbound worker.                                                     *)
(***************************************************************************)
LEMMA LoopIsConsumers == ASSUME NEW w \in Workers, Loop(w) PROVE RunOnce(w)
  BY DEF Loop, RunOnce

LEMMA TurnIsConsumers ==
    ASSUME NEW w \in Workers, NEW e \in Entries, Turn(w, e)
    PROVE  RunOnce(w) \/ UNCHANGED vars
<1>1. CASE Load(w, e) \/ CheckHandoff(w, e)
  BY <1>1 DEF Load, CheckHandoff
<1>2. CASE CommitSuspended(w, e) \/ CommitTurn(w, e)
  BY <1>2 DEF CommitSuspended, CommitTurn, RunOnce
<1>3. CASE EnqueueReply(w, e) \/ ReturnSilent(w, e)
  BY <1>3 DEF EnqueueReply, ReturnSilent, RunOnce
<1>4. CASE RefuseVertical(w, e) \/ FailTurn(w, e)
  BY <1>4 DEF RefuseVertical, FailTurn, RunOnce
<1> QED
  BY <1>1, <1>2, <1>3, <1>4 DEF Turn

LEMMA StepIsConsumers == [TurnNext]_turnVars => [Next]_vars
<1> SUFFICES ASSUME [TurnNext]_turnVars PROVE [Next]_vars
  OBVIOUS
<1>1. CASE Publish
  BY <1>1 DEF Next
<1>2. CASE \E w \in Workers : RunWorker(w)
  BY <1>2, LoopIsConsumers, TurnIsConsumers DEF RunWorker, Next
<1>3. CASE \E w \in Workers : StopWorker(w) \/ StartWorker(w)
  BY <1>3 DEF StopWorker, StartWorker, Next
<1>4. CASE UNCHANGED vars
  BY <1>4
<1> QED
  BY <1>1, <1>2, <1>3, <1>4 DEF TurnNext, turnVars

\* InboundWorker runs its turns inside StreamConsumer's loop and nowhere else: whatever
\* holds of the loop, acks, retries and burials, holds of the turn worker.
THEOREM TurnWorkerIsAConsumer == TurnSpec => ImplementsConsumer
<1>1. TurnInit => Init
  BY DEF TurnInit
<1> QED
  BY <1>1, StepIsConsumers, PTL DEF TurnSpec, Spec, ImplementsConsumer

LEMMA ConsumerInv == TurnSpec => []Inv
  BY TurnWorkerIsAConsumer, InvHolds, PTL DEF ImplementsConsumer
-----------------------------------------------------------------------------
(***************************************************************************)
(* The inductive invariant.  Where a process is in its turn says where its  *)
(* loop is; an entry about to be acked, or acked, is buried or recorded;    *)
(* every reply still to be enqueued was committed; and a human was spoken   *)
(* over by no more turns than were past the check when the handoff opened.  *)
(***************************************************************************)
PhaseOK ==
    \A w \in Workers :
        /\ turn[w] \in {"check", "model", "suspend"} => stage[w] = "handle"
        /\ turn[w] \in {"reply", "silent"} => stage[w] = "worked"
        /\ turn[w] # "load" => \A e \in Entries : Oldest(hand[w], e) => e \notin blank[w]

HandoffOK == handoff.status # "none" => row /\ handoff.resume \in [Entries -> Nat]

Recorded(e) == said[e] > 0 /\ (jobs[e] > 0 \/ e \in Wordless \/ said[e] > answered[e])
Settled(e)  == dead[e] > 0 \/ Recorded(e)
ServedOK(w, e) ==
    Oldest(hand[w], e) => /\ turn[w] = "reply" => said[e] > 0
                          /\ turn[w] = "silent" => said[e] > answered[e]
                          /\ stage[w] = "ack" => Settled(e)
EntryOK(e) ==
    /\ answered[e] <= said[e]
    /\ e \in acked => Settled(e)
    /\ \A w \in Workers : ServedOK(w, e)

Replying(e) == {w \in Workers : turn[w] = "reply" /\ Oldest(hand[w], e)}
JobsOK(e)   == jobs[e] + Cardinality(Replying(e)) <= answered[e]

AgentsOK == IsFiniteSet(replying) /\ agentJobs + Cardinality(replying) <= agentLines

InModel == {w \in Workers : turn[w] = "model"}
OverOK  == over + Cardinality(IF Live THEN InModel ELSE {}) <= opens * Cardinality(Workers)

TurnInv ==
    /\ TurnTypeOK /\ PhaseOK /\ HandoffOK
    /\ \A e \in Entries : EntryOK(e) /\ JobsOK(e)
    /\ AgentsOK /\ OverOK

LEMMA FreshType == Fresh \in [Entries -> Nat]
  BY DEF Fresh

LEMMA TurnInitInv == TurnInit => TurnInv
<1> SUFFICES ASSUME TurnInit PROVE TurnInv
  OBVIOUS
<1>1. TypeOK /\ \A w \in Workers : hand[w] = {}
  BY InitInv DEF TurnInit, Inv, Init
<1>2. TurnTypeOK
  <2>1. /\ turn \in [Workers -> Turns] /\ seen \in [Workers -> [Entries -> Nat]]
        /\ {script, said, answered, jobs} \subseteq [Entries -> Nat]
    BY FreshType DEF TurnInit, Turns
  <2>2. handoff \in [status : Statuses, by : Agents \cup {NoAgent},
                     resume : [Entries -> Nat] \cup {NoScript}]
    BY DEF TurnInit, InboxInit, Statuses
  <2>3. row \in BOOLEAN /\ replying \in SUBSET Agents
    BY DEF TurnInit, InboxInit
  <2>4. {opens, agentLines, agentJobs, over} \subseteq Nat
    BY DEF TurnInit, InboxInit
  <2> QED
    BY <1>1, <2>1, <2>2, <2>3, <2>4 DEF TurnTypeOK
<1>3. PhaseOK /\ HandoffOK
  BY DEF TurnInit, InboxInit, PhaseOK, HandoffOK
<1>4. ASSUME NEW e \in Entries PROVE EntryOK(e) /\ JobsOK(e)
  <2>1. answered[e] = 0 /\ said[e] = 0 /\ jobs[e] = 0 /\ e \notin acked
    BY DEF TurnInit, Init, Fresh
  <2>2. Replying(e) = {}
    BY DEF TurnInit, Replying
  <2> QED
    BY <1>1, <2>1, <2>2, FS_EmptySet DEF EntryOK, JobsOK, ServedOK, Oldest
<1>5. AgentsOK
  BY FS_EmptySet DEF TurnInit, InboxInit, AgentsOK
<1>6. OverOK
  <2>1. over = 0 /\ opens = 0 /\ ~Live
    BY DEF TurnInit, InboxInit, Live
  <2>2. Cardinality(Workers) \in Nat
    BY ConsumerAssumption, FS_CardinalityType
  <2> QED
    BY <2>1, <2>2, FS_EmptySet DEF OverOK
<1> QED
  BY <1>2, <1>3, <1>4, <1>5, <1>6 DEF TurnInv
-----------------------------------------------------------------------------
\* What one worker's step leaves of the others.
Others(w) ==
    \A v \in Workers \ {w} : /\ turn'[v] = turn[v] /\ seen'[v] = seen[v]
                             /\ stage'[v] = stage[v] /\ hand'[v] = hand[v]
                             /\ blank'[v] = blank[v]

LEMMA LeaveShape ==
    ASSUME TurnTypeOK, NEW w \in Workers, Leave(w)
    PROVE  /\ turn'[w] = "load" /\ seen'[w] = Fresh
           /\ \A v \in Workers \ {w} : turn'[v] = turn[v] /\ seen'[v] = seen[v]
           /\ turn' \in [Workers -> Turns] /\ seen' \in [Workers -> [Entries -> Nat]]
  BY FreshType DEF Leave, TurnTypeOK, Turns

LEMMA GotoShape ==
    ASSUME TurnTypeOK, NEW w \in Workers, NEW s, Goto(w, s)
    PROVE  /\ stage'[w] = s /\ UNCHANGED <<pass, hand, blank>>
           /\ \A v \in Workers \ {w} : stage'[v] = stage[v]
  BY DEF Goto, TurnTypeOK, TypeOK

\* The part of a turn every action has: it is about the oldest entry in hand, keeps the
\* batch, and touches nothing of the queue but what was done to the entry.
LEMMA TurnShape ==
    ASSUME TurnTypeOK, NEW w \in Workers, NEW e \in Entries, Turn(w, e)
    PROVE  /\ Oldest(hand[w], e) /\ Others(w)
           /\ UNCHANGED <<hand, blank, dead, acked, inbox>>
<1>1. CASE Load(w, e) \/ CheckHandoff(w, e)
  BY <1>1 DEF Load, CheckHandoff, At, Handling, Others, vars, process, history, TurnTypeOK, TypeOK
<1>2. CASE CommitSuspended(w, e) \/ CommitTurn(w, e)
  <2>1. /\ Oldest(hand[w], e) /\ Goto(w, "worked")
        /\ UNCHANGED <<dead, acked, inbox, seen>>
        /\ \A v \in Workers \ {w} : turn'[v] = turn[v]
    BY <1>2 DEF CommitSuspended, CommitTurn, Work, Handling, TurnTypeOK
  <2> QED
    BY <2>1, GotoShape DEF Others
<1>3. CASE RefuseVertical(w, e) \/ EnqueueReply(w, e) \/ ReturnSilent(w, e) \/ FailTurn(w, e)
  <2>1. /\ Oldest(hand[w], e) /\ \E s \in Stages : Goto(w, s)
        /\ UNCHANGED <<dead, acked, inbox>> /\ Leave(w)
    BY <1>3 DEF RefuseVertical, EnqueueReply, ReturnSilent, FailTurn, HandleTerminal, HandleOk,
       HandleError, Handling, Stages, history
  <2> QED
    BY <2>1, GotoShape, LeaveShape DEF Others
<1> QED
  BY <1>1, <1>2, <1>3 DEF Turn

LEMMA TurnTypeStep == TurnTypeOK /\ HandoffOK /\ TypeOK' /\ [TurnNext]_turnVars => TurnTypeOK'
<1> SUFFICES ASSUME TurnTypeOK, HandoffOK, TypeOK', [TurnNext]_turnVars PROVE TurnTypeOK'
  OBVIOUS
<1> USE DEF TurnTypeOK
<1>1. CASE InboxNext /\ UNCHANGED <<vars, turn, seen, records>>
  <2>1. CASE Open
    BY <1>1, <2>1 DEF Open, Live, Statuses, records
  <2>2. CASE ReturnToBot
    BY <1>1, <2>2 DEF ReturnToBot, Live, HandoffOK, Statuses, records
  <2>3. ASSUME NEW a \in Agents, ClaimHandoff(a) PROVE TurnTypeOK'
    BY <1>1, <2>3 DEF ClaimHandoff, Statuses, records
  <2>4. ASSUME NEW a \in Agents, RecordReply(a) \/ PublishReply(a) \/ LoseReply(a)
        PROVE  TurnTypeOK'
    <3>1. /\ UNCHANGED <<row, script, handoff, opens, said, answered, jobs, over, turn, seen>>
      BY <1>1, <2>4 DEF RecordReply, PublishReply, LoseReply, records
    <3>2. replying' \in SUBSET Agents
      BY <2>4 DEF RecordReply, PublishReply, LoseReply
    <3>3. {agentLines', agentJobs'} \subseteq Nat
      BY <2>4 DEF RecordReply, PublishReply, LoseReply
    <3>4. {opens', agentLines', agentJobs', over'} \subseteq Nat
      BY <3>1, <3>3
    <3>5. row' \in BOOLEAN /\ {script', said', answered', jobs'} \subseteq [Entries -> Nat]
      BY <3>1
    <3>6. handoff' = handoff /\ turn' = turn /\ seen' = seen
      BY <3>1
    <3>7. /\ handoff' \in [status : Statuses, by : Agents \cup {NoAgent},
                           resume : [Entries -> Nat] \cup {NoScript}]
          /\ turn' \in [Workers -> Turns] /\ seen' \in [Workers -> [Entries -> Nat]]
      BY <3>6
    <3> HIDE DEF TurnTypeOK
    <3> QED
      BY <3>2, <3>4, <3>5, <3>7 DEF TurnTypeOK
  <2> QED
    BY <1>1, <2>1, <2>2, <2>3, <2>4 DEF InboxNext
<1>2. ASSUME NEW w \in Workers, NEW e \in Entries, Turn(w, e) PROVE TurnTypeOK'
  <2>1. CASE Load(w, e) \/ CheckHandoff(w, e)
    <3>1. turn' \in [Workers -> Turns] /\ UNCHANGED <<inbox, conversation, records>>
      BY <2>1 DEF Load, CheckHandoff, Turns
    <3>2. seen' \in [Workers -> [Entries -> Nat]]
      <4>1. (IF row THEN script ELSE Fresh) \in [Entries -> Nat]
        BY FreshType
      <4> QED
        BY <2>1, <4>1 DEF Load, CheckHandoff
    <3> QED
      BY <3>1, <3>2 DEF inbox, conversation, records
  <2>2. CASE CommitSuspended(w, e)
    BY <2>2 DEF CommitSuspended, Turns, inbox, conversation
  <2>3. CASE CommitTurn(w, e)
    <3>1. script' \in [Entries -> Nat] /\ seen[w] \in [Entries -> Nat]
      BY <2>3 DEF CommitTurn
    <3>2. /\ said' \in [Entries -> Nat] /\ answered' \in [Entries -> Nat] /\ jobs' = jobs
          /\ turn' \in [Workers -> Turns] /\ over' \in Nat /\ row' = TRUE
          /\ UNCHANGED <<inbox, seen>>
      BY <2>3 DEF CommitTurn, Turns
    <3> QED
      BY <3>1, <3>2 DEF inbox
  <2>4. CASE RefuseVertical(w, e) \/ ReturnSilent(w, e)
    BY <2>4, LeaveShape DEF RefuseVertical, ReturnSilent, inbox, conversation, records
  <2>5. CASE EnqueueReply(w, e) \/ FailTurn(w, e)
    <3>1. jobs' \in [Entries -> Nat]
      BY <2>5 DEF EnqueueReply, FailTurn, Enqueued
    <3> QED
      BY <2>5, <3>1, LeaveShape DEF EnqueueReply, FailTurn, inbox, conversation
  <2> QED
    BY <1>2, <2>1, <2>2, <2>3, <2>4, <2>5 DEF Turn
<1>3. ASSUME NEW w \in Workers, Loop(w) \/ StartWorker(w) PROVE TurnTypeOK'
  BY <1>3 DEF Loop, StartWorker, inbox, conversation, records
<1>4. ASSUME NEW w \in Workers, StopWorker(w) PROVE TurnTypeOK'
  BY <1>4, LeaveShape DEF StopWorker, inbox, conversation, records
<1>5. CASE Publish /\ UNCHANGED <<inbox, conversation, turn, seen, records>>
  BY <1>5 DEF inbox, conversation, records
<1>6. CASE UNCHANGED turnVars
  BY <1>6 DEF turnVars, inbox, conversation, records
<1> QED
  BY <1>1, <1>2, <1>3, <1>4, <1>5, <1>6 DEF TurnNext, RunWorker

\* A loop step leaves the turns alone.  Unless it is the start of a pass, it belongs to
\* a process that is in no turn, acks only what was about to be, and is about to ack
\* only after a burial.
LEMMA LoopShape ==
    ASSUME TurnTypeOK, PhaseOK, NEW w \in Workers, Loop(w)
    PROVE  /\ UNCHANGED <<inbox, conversation, turn, seen, records>>
           /\ Others(w)
           /\ \/ UNCHANGED <<stage, hand, blank, dead, acked>>
              \/ /\ turn[w] = "load" /\ stage'[w] \notin {"worked", "ack"}
                 /\ dead' = dead
                 /\ \A e \in acked' \ acked : stage[w] = "ack" /\ Oldest(hand[w], e)
                 /\ acked \subseteq acked'
              \/ \E e \in Entries : /\ turn[w] = "load" /\ Oldest(hand[w], e) /\ hand' = hand
                                    /\ dead' = [dead EXCEPT ![e] = @ + 1] /\ acked' = acked
<1>1. UNCHANGED <<inbox, conversation, turn, seen, records>> /\ TypeOK
  BY DEF Loop, TurnTypeOK
<1>2. ASSUME NEW batch, NEW missing, Receive(w, batch, missing)
      PROVE  Others(w) /\ stage'[w] \notin {"worked", "ack"}
  <2>1. \A v \in Workers \ {w} : blank'[v] = blank[v]
    BY <1>1, <1>2 DEF Receive, TypeOK
  <2> QED
    BY <1>1, <1>2, <2>1, ReceiveNeverAcks DEF Others
<1>3. stage[w] \notin {"handle", "worked"} => turn[w] = "load"
  BY DEF PhaseOK, TurnTypeOK, Turns
<1>4. CASE EnsureGroup(w)
  BY <1>1, <1>4 DEF EnsureGroup, Others, history
<1>5. CASE ReadHistory(w) \/ ReadNew(w)
  <2>1. stage[w] = "read" /\ UNCHANGED history
    BY <1>5 DEF ReadHistory, ReadNew
  <2>2. \E batch, missing : Receive(w, batch, missing)
    BY <1>5 DEF ReadHistory, ReadNew
  <2> QED
    BY <1>1, <1>2, <1>3, <2>1, <2>2 DEF history
<1>6. ASSUME NEW e \in Entries, MissingPayload(w, e) PROVE turn[w] = "load"
  BY <1>6 DEF MissingPayload, Handling, PhaseOK
<1>7. ASSUME NEW e \in Entries, MissingPayload(w, e) \/ CountAttempts(w, e)
      PROVE  /\ Others(w) /\ turn[w] = "load" /\ stage'[w] \notin {"worked", "ack"}
             /\ UNCHANGED <<dead, acked>>
  <2>1. /\ UNCHANGED <<dead, acked>>
        /\ \/ Goto(w, "bury") \/ \E batch, missing : Receive(w, batch, missing)
    BY <1>7 DEF MissingPayload, CountAttempts, NextEntry, history
  <2>2. turn[w] = "load"
    BY <1>3, <1>6, <1>7 DEF CountAttempts
  <2>3. CASE Goto(w, "bury")
    BY <1>1, <2>1, <2>2, <2>3, GotoShape DEF Others
  <2> QED
    BY <1>2, <2>1, <2>2, <2>3
<1>8. ASSUME NEW e \in Entries, Bury(w, e)
      PROVE  /\ Others(w) /\ turn[w] = "load" /\ Oldest(hand[w], e) /\ hand' = hand
             /\ dead' = [dead EXCEPT ![e] = @ + 1] /\ acked' = acked
  <2>1. Goto(w, "ack") /\ stage[w] = "bury"
    BY <1>8 DEF Bury
  <2> QED
    BY <1>1, <1>3, <1>8, <2>1, GotoShape DEF Bury, Others, Handling
<1>9. ASSUME NEW e \in Entries, Ack(w, e)
      PROVE  /\ Others(w) /\ turn[w] = "load" /\ stage'[w] \notin {"worked", "ack"}
             /\ dead' = dead /\ acked' = acked \cup {e}
             /\ stage[w] = "ack" /\ Oldest(hand[w], e)
  <2>1. Receive(w, hand[w] \ {e}, blank[w] \ {e})
    BY <1>9 DEF Ack, NextEntry
  <2> QED
    BY <1>2, <1>3, <1>9, <2>1 DEF Ack, Handling
<1> QED
  BY <1>1, <1>4, <1>5, <1>7, <1>8, <1>9 DEF Loop

LEMMA StopShape ==
    ASSUME TurnTypeOK, NEW w \in Workers, StopWorker(w)
    PROVE  /\ Others(w) /\ turn'[w] = "load" /\ stage'[w] = "read" /\ hand'[w] = {}
           /\ UNCHANGED <<inbox, conversation, records, dead, acked>>
  BY LeaveShape DEF StopWorker, Crash, Others, history, TurnTypeOK, TypeOK

\* Steps that are nobody's turn: a publish, a restart, the human side.
Aside ==
    /\ UNCHANGED <<turn, seen, stage, hand, blank, dead, acked, records>>
    /\ InboxNext \/ UNCHANGED <<inbox, conversation>>

LEMMA StepKinds ==
    ASSUME [TurnNext]_turnVars
    PROVE  \/ Aside
           \/ \E w \in Workers : Loop(w) \/ StopWorker(w) \/ \E e \in Entries : Turn(w, e)
<1>1. CASE Publish /\ UNCHANGED <<inbox, conversation, turn, seen, records>>
  BY <1>1 DEF Aside, Publish, process, history
<1>2. CASE InboxNext /\ UNCHANGED <<vars, turn, seen, records>>
  BY <1>2 DEF Aside, vars, process, history
<1>3. CASE \E w \in Workers : StartWorker(w)
  BY <1>3 DEF Aside, StartWorker, Restart, history
<1>4. CASE UNCHANGED turnVars
  BY <1>4 DEF Aside, turnVars, vars, process, history
<1> QED
  BY <1>1, <1>2, <1>3, <1>4 DEF TurnNext, RunWorker
-----------------------------------------------------------------------------
LEMMA PhaseStep == TurnTypeOK /\ PhaseOK /\ [TurnNext]_turnVars => PhaseOK'
<1> SUFFICES ASSUME TurnTypeOK, PhaseOK, [TurnNext]_turnVars PROVE PhaseOK'
  OBVIOUS
<1> DEFINE Here(w) ==
      /\ turn[w] \in {"check", "model", "suspend"} => stage[w] = "handle"
      /\ turn[w] \in {"reply", "silent"} => stage[w] = "worked"
      /\ turn[w] # "load" => \A e \in Entries : Oldest(hand[w], e) => e \notin blank[w]
<1>1. ASSUME NEW w \in Workers, Others(w), Here(w)' PROVE PhaseOK'
  BY <1>1 DEF PhaseOK, Others
<1>2. ASSUME NEW w \in Workers, NEW e \in Entries, Turn(w, e) PROVE Here(w)'
  <2>1. Oldest(hand[w], e) /\ hand' = hand /\ blank' = blank
    BY <1>2, TurnShape
  <2>2. CASE Load(w, e) \/ CheckHandoff(w, e)
    <3>1. /\ turn'[w] \in {"check", "suspend", "model"} /\ UNCHANGED stage
          /\ stage[w] = "handle" /\ e \notin blank[w]
      BY <2>2 DEF Load, CheckHandoff, At, vars, process, TurnTypeOK
    <3> QED
      BY <2>1, <3>1, OldestIsUnique DEF TurnTypeOK, TypeOK
  <2>3. CASE CommitSuspended(w, e) \/ CommitTurn(w, e)
    <3>1. /\ turn'[w] \in {"silent", "reply"} /\ Goto(w, "worked") /\ e \notin blank[w]
      BY <2>3 DEF CommitSuspended, CommitTurn, Work, TurnTypeOK
    <3> QED
      BY <2>1, <3>1, GotoShape, OldestIsUnique DEF TurnTypeOK, TypeOK
  <2>4. CASE RefuseVertical(w, e) \/ EnqueueReply(w, e) \/ ReturnSilent(w, e) \/ FailTurn(w, e)
    BY <2>4, LeaveShape DEF RefuseVertical, EnqueueReply, ReturnSilent, FailTurn
  <2> QED
    BY <1>2, <2>2, <2>3, <2>4 DEF Turn
<1>3. ASSUME NEW w \in Workers, Loop(w) PROVE Here(w)'
  BY <1>3, LoopShape DEF PhaseOK
<1>4. ASSUME NEW w \in Workers, StopWorker(w) PROVE Here(w)'
  BY <1>4, StopShape
<1>5. CASE Aside
  BY <1>5 DEF Aside, PhaseOK
<1> QED
  BY <1>1, <1>2, <1>3, <1>4, <1>5, StepKinds, TurnShape, LoopShape, StopShape

LEMMA HandoffStep == TurnTypeOK /\ HandoffOK /\ [TurnNext]_turnVars => HandoffOK'
<1> SUFFICES ASSUME TurnTypeOK, HandoffOK, [TurnNext]_turnVars PROVE HandoffOK'
  OBVIOUS
<1>1. CASE InboxNext
  <2>1. CASE Open
    BY <2>1 DEF Open, HandoffOK, TurnTypeOK
  <2>2. ASSUME NEW a \in Agents, ClaimHandoff(a) PROVE HandoffOK'
    <3>1. /\ row' = row /\ handoff.status # "none"
          /\ handoff'.resume = handoff.resume
      BY <2>2 DEF ClaimHandoff, Live, TurnTypeOK
    <3> QED
      BY <3>1 DEF HandoffOK
  <2>3. CASE ReturnToBot
    <3>1. /\ row' = row /\ handoff.status # "none"
          /\ handoff'.resume = handoff.resume
      BY <2>3 DEF ReturnToBot, Live, TurnTypeOK
    <3> QED
      BY <3>1 DEF HandoffOK
  <2>4. ASSUME NEW a \in Agents, RecordReply(a) \/ PublishReply(a) \/ LoseReply(a)
        PROVE  HandoffOK'
    BY <2>4 DEF RecordReply, PublishReply, LoseReply, HandoffOK
  <2> QED
    BY <1>1, <2>1, <2>2, <2>3, <2>4 DEF InboxNext
<1>2. ASSUME NEW w \in Workers, NEW e \in Entries, Turn(w, e) PROVE HandoffOK'
  <2>1. handoff' = handoff
    BY <1>2, TurnShape DEF inbox
  <2>2. row' = row \/ row' = TRUE
    BY <1>2 DEF Turn, Load, CheckHandoff, CommitSuspended, CommitTurn, RefuseVertical,
       EnqueueReply, ReturnSilent, FailTurn, conversation
  <2> QED
    BY <2>1, <2>2 DEF HandoffOK
<1>3. ASSUME NEW w \in Workers, Loop(w) \/ StopWorker(w) PROVE HandoffOK'
  BY <1>3 DEF Loop, StopWorker, HandoffOK, inbox, conversation
<1>4. CASE UNCHANGED <<inbox, conversation>>
  BY <1>4 DEF HandoffOK, inbox, conversation
<1> QED
  BY <1>1, <1>2, <1>3, <1>4, StepKinds DEF Aside
-----------------------------------------------------------------------------
\* What is told of an entry only grows: it is never un-said, un-sent or un-buried, and
\* an answer in the thread always has the customer's line beside it.
Grows ==
    \A e \in Entries :
        /\ said'[e] >= said[e] /\ jobs'[e] >= jobs[e] /\ dead'[e] >= dead[e]
        /\ said[e] > answered[e] => said'[e] > answered'[e]
        /\ answered[e] <= said[e] => answered'[e] <= said'[e]

LEMMA EntryTypes ==
    ASSUME TurnTypeOK, NEW e \in Entries
    PROVE  said[e] \in Nat /\ answered[e] \in Nat /\ jobs[e] \in Nat /\ dead[e] \in Nat
  BY DEF TurnTypeOK, TypeOK

LEMMA StepGrows == TurnTypeOK /\ PhaseOK /\ [TurnNext]_turnVars => Grows
<1> SUFFICES ASSUME TurnTypeOK, PhaseOK, [TurnNext]_turnVars, NEW x \in Entries
             PROVE  /\ said'[x] >= said[x] /\ jobs'[x] >= jobs[x] /\ dead'[x] >= dead[x]
                    /\ said[x] > answered[x] => said'[x] > answered'[x]
                    /\ answered[x] <= said[x] => answered'[x] <= said'[x]
  BY DEF Grows
<1>1. /\ said[x] \in Nat /\ answered[x] \in Nat /\ jobs[x] \in Nat /\ dead[x] \in Nat
      /\ said \in [Entries -> Nat] /\ answered \in [Entries -> Nat] /\ jobs \in [Entries -> Nat]
      /\ dead \in [Entries -> Nat]
  BY EntryTypes DEF TurnTypeOK, TypeOK
<1>2. ASSUME NEW w \in Workers, NEW e \in Entries, Turn(w, e)
      PROVE  /\ dead' = dead
             /\ said' = said \/ said' = [said EXCEPT ![e] = @ + 1]
             /\ \/ answered' = answered
                \/ answered' = [answered EXCEPT ![e] = @ + 1] /\ said' = [said EXCEPT ![e] = @ + 1]
             /\ jobs' = jobs \/ jobs' = [jobs EXCEPT ![e] = @ + 1]
  BY <1>2, TurnShape DEF Turn, Load, CheckHandoff, CommitSuspended, CommitTurn, RefuseVertical,
     EnqueueReply, ReturnSilent, FailTurn, Enqueued, records
<1>3. ASSUME NEW w \in Workers, Loop(w)
      PROVE  /\ UNCHANGED <<said, answered, jobs>>
             /\ dead' = dead \/ \E e \in Entries : dead' = [dead EXCEPT ![e] = @ + 1]
  BY <1>3, LoopShape DEF records
<1>4. ASSUME NEW w \in Workers, StopWorker(w) PROVE UNCHANGED <<said, answered, jobs, dead>>
  BY <1>4, StopShape DEF records
<1>5. CASE Aside
  BY <1>1, <1>5 DEF Aside, records
<1> QED
  BY <1>1, <1>2, <1>3, <1>4, <1>5, StepKinds

\* So whoever else had an entry settled, or on its way to be, still has.
LEMMA ServedElsewhere ==
    ASSUME TurnTypeOK, TurnTypeOK', Grows, NEW e \in Entries, NEW v \in Workers, ServedOK(v, e),
           turn'[v] = turn[v], stage'[v] = stage[v], hand'[v] = hand[v]
    PROVE  ServedOK(v, e)'
<1>1. /\ said[e] \in Nat /\ answered[e] \in Nat /\ jobs[e] \in Nat /\ dead[e] \in Nat
      /\ said'[e] \in Nat /\ answered'[e] \in Nat /\ jobs'[e] \in Nat /\ dead'[e] \in Nat
  BY EntryTypes DEF TurnTypeOK, TypeOK
<1>2. Settled(e) => Settled(e)'
  BY <1>1 DEF Settled, Recorded, Grows
<1>3. Oldest(hand'[v], e) <=> Oldest(hand[v], e)
  BY DEF Oldest
<1> QED
  BY <1>1, <1>2, <1>3 DEF ServedOK, Grows

LEMMA StaysSettled ==
    ASSUME TurnTypeOK, TurnTypeOK', Grows, NEW e \in Entries, Settled(e)
    PROVE  Settled(e)'
<1>1. /\ said[e] \in Nat /\ answered[e] \in Nat /\ jobs[e] \in Nat /\ dead[e] \in Nat
      /\ said'[e] \in Nat /\ answered'[e] \in Nat /\ jobs'[e] \in Nat /\ dead'[e] \in Nat
  BY EntryTypes DEF TurnTypeOK, TypeOK
<1> QED
  BY <1>1 DEF Settled, Recorded, Grows

LEMMA ServedByTurn ==
    ASSUME TurnTypeOK, TurnTypeOK', PhaseOK, Grows, NEW w \in Workers, NEW e \in Entries,
           EntryOK(e), Turn(w, e), NEW x \in Entries
    PROVE  ServedOK(w, x)'
<1>1. /\ Oldest(hand[w], e) /\ hand' = hand /\ dead' = dead
      /\ said[e] \in Nat /\ answered[e] \in Nat /\ jobs[e] \in Nat /\ answered[e] <= said[e]
  BY TurnShape, EntryTypes DEF EntryOK
<1>2. SUFFICES ASSUME Oldest(hand[w], x)
               PROVE  /\ turn'[w] = "reply" => said'[e] > 0
                      /\ turn'[w] = "silent" => said'[e] > answered'[e]
                      /\ stage'[w] = "ack" => Settled(e)'
  <2>1. Oldest(hand[w], x) => x = e
    BY <1>1, OldestIsUnique DEF TurnTypeOK, TypeOK
  <2> QED
    BY <1>1, <2>1 DEF ServedOK
<1>3. CASE Load(w, e) \/ CheckHandoff(w, e)
  BY <1>3 DEF Load, CheckHandoff, At, vars, process, TurnTypeOK
<1>4. CASE CommitSuspended(w, e)
  <2>1. /\ turn'[w] = "silent" /\ stage'[w] = "worked"
        /\ said'[e] = said[e] + 1 /\ answered' = answered
    BY <1>4, GotoShape DEF CommitSuspended, Work, TurnTypeOK
  <2> QED
    BY <1>1, <2>1
<1>5. CASE CommitTurn(w, e)
  <2>1. turn'[w] = "reply" /\ stage'[w] = "worked" /\ said'[e] = said[e] + 1
    BY <1>5, GotoShape DEF CommitTurn, Work, TurnTypeOK
  <2> QED
    BY <1>1, <2>1
<1>6. CASE EnqueueReply(w, e)
  <2>1. turn'[w] = "load" /\ said[e] > 0 /\ said' = said
    BY <1>1, <1>6, LeaveShape DEF EnqueueReply, EntryOK, ServedOK
  <2>2. e \in Wordless \/ jobs'[e] = jobs[e] + 1
    BY <1>6 DEF EnqueueReply, Enqueued, TurnTypeOK
  <2> QED
    BY <1>1, <2>1, <2>2 DEF Settled, Recorded
<1>7. CASE ReturnSilent(w, e)
  <2>1. /\ turn'[w] = "load" /\ said[e] > answered[e] /\ UNCHANGED <<said, answered>>
    BY <1>1, <1>7, LeaveShape DEF ReturnSilent, EntryOK, ServedOK, records
  <2> QED
    BY <1>1, <2>1 DEF Settled, Recorded
<1>8. CASE RefuseVertical(w, e) \/ FailTurn(w, e)
  <2>1. turn'[w] = "load" /\ (Goto(w, "bury") \/ Goto(w, "count"))
    BY <1>8, LeaveShape DEF RefuseVertical, FailTurn, HandleTerminal, HandleError
  <2> QED
    BY <2>1, GotoShape
<1> QED
  BY <1>3, <1>4, <1>5, <1>6, <1>7, <1>8 DEF Turn

LEMMA EntryFrame ==
    ASSUME TurnTypeOK, TurnTypeOK', Grows, NEW x \in Entries, EntryOK(x),
           NEW w \in Workers, Others(w), ServedOK(w, x)',
           x \in acked' => x \in acked \/ (stage[w] = "ack" /\ Oldest(hand[w], x))
    PROVE  EntryOK(x)'
<1>1. answered'[x] <= said'[x]
  BY DEF EntryOK, Grows
<1>2. x \in acked' => Settled(x)
  BY DEF EntryOK, ServedOK
<1>3. ASSUME NEW v \in Workers, v # w PROVE ServedOK(v, x)'
  BY <1>3, ServedElsewhere DEF EntryOK, Others
<1> QED
  BY <1>1, <1>2, <1>3, StaysSettled DEF EntryOK

LEMMA EntryStep ==
    ASSUME TurnTypeOK, TurnTypeOK', PhaseOK, \A e \in Entries : EntryOK(e), [TurnNext]_turnVars,
           NEW x \in Entries
    PROVE  EntryOK(x)'
<1>1. Grows
  BY StepGrows DEF Grows
<1>2. answered'[x] <= said'[x]
  BY <1>1 DEF EntryOK, Grows
<1>3. ASSUME NEW w \in Workers, NEW e \in Entries, Turn(w, e) PROVE EntryOK(x)'
  <2>1. ServedOK(w, x)' /\ EntryOK(e)
    BY <1>1, <1>3, ServedByTurn
  <2>2. Others(w) /\ acked' = acked
    BY <1>3, TurnShape
  <2> QED
    BY <1>1, EntryFrame, <2>1, <2>2
<1>4. ASSUME NEW w \in Workers, Loop(w) PROVE EntryOK(x)'
  <2>1. ServedOK(w, x)
    BY DEF EntryOK
  <2>2. CASE UNCHANGED <<stage, hand, blank, dead, acked>>
    BY <1>1, EntryFrame, <1>4, <2>1, <2>2, LoopShape, ServedElsewhere
  <2>3. CASE /\ turn[w] = "load" /\ stage'[w] \notin {"worked", "ack"}
             /\ \A e \in acked' \ acked : stage[w] = "ack" /\ Oldest(hand[w], e)
    BY <1>1, EntryFrame, <1>4, <2>1, <2>3, LoopShape DEF ServedOK
  <2>4. CASE \E e \in Entries : /\ turn[w] = "load" /\ Oldest(hand[w], e) /\ hand' = hand
                                /\ dead' = [dead EXCEPT ![e] = @ + 1] /\ acked' = acked
    <3>1. PICK e \in Entries : /\ turn[w] = "load" /\ Oldest(hand[w], e) /\ hand' = hand
                               /\ dead' = [dead EXCEPT ![e] = @ + 1] /\ acked' = acked
      BY <2>4
    <3>2. Oldest(hand'[w], x) => dead'[x] > 0
      BY <3>1, OldestIsUnique DEF TurnTypeOK, TypeOK
    <3>3. turn' = turn
      BY <1>4, LoopShape
    <3> QED
      BY <1>1, EntryFrame, <1>4, <3>1, <3>2, <3>3, LoopShape DEF ServedOK, Settled
  <2> QED
    BY <1>4, <2>2, <2>3, <2>4, LoopShape
<1>5. ASSUME NEW w \in Workers, StopWorker(w) PROVE EntryOK(x)'
  BY <1>1, EntryFrame, <1>5, StopShape DEF ServedOK, Oldest
<1>6. CASE Aside
  <2>1. ASSUME NEW v \in Workers PROVE ServedOK(v, x)'
    BY <1>1, <1>6, ServedElsewhere DEF Aside, EntryOK
  <2> QED
    BY <1>1, <1>2, <1>6, <2>1, StaysSettled DEF Aside, EntryOK
<1> QED
  BY <1>3, <1>4, <1>5, <1>6, StepKinds
-----------------------------------------------------------------------------
LEMMA ReplyingIsFinite ==
    ASSUME NEW x \in Entries
    PROVE  /\ IsFiniteSet(Replying(x)) /\ Cardinality(Replying(x)) \in Nat
           /\ IsFiniteSet(Replying(x)') /\ Cardinality(Replying(x)') \in Nat
<1>1. Replying(x) \subseteq Workers /\ Replying(x)' \subseteq Workers
  BY DEF Replying
<1> QED
  BY <1>1, ConsumerAssumption, FS_Subset, FS_CardinalityType

\* Nobody new is about to reply, and nothing was enqueued.
LEMMA JobsFrame ==
    ASSUME TurnTypeOK, TurnTypeOK', NEW x \in Entries, JobsOK(x), Replying(x)' \subseteq Replying(x),
           jobs'[x] = jobs[x], answered'[x] >= answered[x]
    PROVE  JobsOK(x)'
<1>1. Cardinality(Replying(x)') <= Cardinality(Replying(x))
  BY ReplyingIsFinite, FS_Subset
<1>2. answered[x] \in Nat /\ answered'[x] \in Nat /\ jobs[x] \in Nat
  BY EntryTypes DEF TurnTypeOK, TypeOK
<1> QED
  BY <1>1, <1>2, ReplyingIsFinite DEF JobsOK

\* One that was about to reply no longer is, and may have enqueued.
LEMMA JobsOnce ==
    ASSUME TurnTypeOK, TurnTypeOK', NEW x \in Entries, JobsOK(x), NEW w \in Replying(x),
           Replying(x)' \subseteq Replying(x) \ {w},
           jobs'[x] <= jobs[x] + 1, answered'[x] = answered[x]
    PROVE  JobsOK(x)'
<1>1. /\ IsFiniteSet(Replying(x) \ {w})
      /\ Cardinality(Replying(x) \ {w}) = Cardinality(Replying(x)) - 1
  BY ReplyingIsFinite, FS_RemoveElement
<1>2. Cardinality(Replying(x)') <= Cardinality(Replying(x)) - 1
  BY <1>1, FS_Subset
<1>3. answered[x] \in Nat /\ jobs'[x] \in Nat /\ jobs[x] \in Nat
  BY EntryTypes DEF TurnTypeOK
<1> QED
  BY <1>2, <1>3, ReplyingIsFinite DEF JobsOK

\* A process commits an answer and is about to reply.
LEMMA JobsCommitted ==
    ASSUME TurnTypeOK, NEW x \in Entries, JobsOK(x), NEW w, Replying(x)' \subseteq Replying(x) \cup {w},
           jobs'[x] = jobs[x], answered'[x] = answered[x] + 1
    PROVE  JobsOK(x)'
<1>1. /\ IsFiniteSet(Replying(x) \cup {w})
      /\ Cardinality(Replying(x) \cup {w}) = IF w \in Replying(x) THEN Cardinality(Replying(x))
                                             ELSE Cardinality(Replying(x)) + 1
  BY ReplyingIsFinite, FS_AddElement
<1>2. Cardinality(Replying(x)') <= Cardinality(Replying(x) \cup {w})
  BY <1>1, FS_Subset
<1>3. Cardinality(Replying(x)') <= Cardinality(Replying(x)) + 1
  BY <1>1, <1>2, ReplyingIsFinite
<1>4. answered[x] \in Nat /\ jobs[x] \in Nat
  BY EntryTypes
<1> QED
  BY <1>3, <1>4, ReplyingIsFinite DEF JobsOK

LEMMA ReplyingBefore ==
    ASSUME NEW w \in Workers, Others(w), NEW x \in Entries
    PROVE  /\ Replying(x)' \subseteq Replying(x) \cup {w}
           /\ turn'[w] # "reply" \/ ~Oldest(hand'[w], x) => Replying(x)' \subseteq Replying(x) \ {w}
  BY DEF Replying, Others

LEMMA JobsTurn ==
    ASSUME TurnTypeOK, TurnTypeOK', NEW w \in Workers, NEW e \in Entries, Turn(w, e),
           NEW x \in Entries, JobsOK(x)
    PROVE  JobsOK(x)'
<1>1. /\ Oldest(hand[w], e) /\ hand' = hand /\ Others(w)
      /\ answered \in [Entries -> Nat] /\ jobs \in [Entries -> Nat]
      /\ answered[x] \in Nat /\ jobs[x] \in Nat
  BY TurnShape, EntryTypes DEF TurnTypeOK
<1>2. x # e => ~Oldest(hand'[w], x)
  BY <1>1, OldestIsUnique DEF TurnTypeOK, TypeOK
<1>3. CASE x # e
  <2>1. Replying(x)' \subseteq Replying(x)
    BY <1>1, <1>2, <1>3, ReplyingBefore
  <2>2. jobs'[x] = jobs[x] /\ answered'[x] = answered[x]
    BY <1>1, <1>3 DEF Turn, Load, CheckHandoff, CommitSuspended, CommitTurn, RefuseVertical,
       EnqueueReply, ReturnSilent, FailTurn, Enqueued, records
  <2> QED
    BY <1>1, <2>1, <2>2, JobsFrame
<1>4. CASE x = e /\ CommitTurn(w, e)
  <2>1. jobs'[x] = jobs[x] /\ answered'[x] = answered[x] + 1
    BY <1>1, <1>4 DEF CommitTurn
  <2> QED
    BY <1>1, <2>1, ReplyingBefore, JobsCommitted
<1>5. CASE x = e /\ turn[w] = "reply" /\ (EnqueueReply(w, e) \/ FailTurn(w, e))
  <2>1. w \in Replying(x)
    BY <1>1, <1>5 DEF Replying
  <2>2. Leave(w) /\ answered' = answered /\ jobs' \in {jobs, Enqueued(e)}
    BY <1>5 DEF EnqueueReply, FailTurn
  <2>3. Replying(x)' \subseteq Replying(x) \ {w}
    BY <1>1, <2>2, LeaveShape, ReplyingBefore
  <2>4. jobs'[x] <= jobs[x] + 1
    BY <1>1, <2>2 DEF Enqueued
  <2> QED
    BY <2>1, <2>2, <2>3, <2>4, JobsOnce
<1>6. CASE ~CommitTurn(w, e) /\ ~(turn[w] = "reply" /\ (EnqueueReply(w, e) \/ FailTurn(w, e)))
  <2>1. turn'[w] # "reply" /\ UNCHANGED <<jobs, answered>>
    <3>1. CASE Load(w, e) \/ CheckHandoff(w, e) \/ CommitSuspended(w, e)
      BY <3>1 DEF Load, CheckHandoff, CommitSuspended, records, TurnTypeOK
    <3>2. CASE RefuseVertical(w, e) \/ ReturnSilent(w, e)
      BY <3>2, LeaveShape DEF RefuseVertical, ReturnSilent, records
    <3>3. CASE FailTurn(w, e) /\ turn[w] # "reply"
      BY <3>3, LeaveShape DEF FailTurn
    <3> QED
      BY <1>6, <3>1, <3>2, <3>3 DEF Turn, EnqueueReply
  <2> QED
    BY <1>1, <2>1, ReplyingBefore, JobsFrame
<1> QED
  BY <1>3, <1>4, <1>5, <1>6

LEMMA JobsStep ==
    ASSUME TurnTypeOK, TurnTypeOK', PhaseOK, [TurnNext]_turnVars, NEW x \in Entries, JobsOK(x)
    PROVE  JobsOK(x)'
<1>1. ASSUME NEW w \in Workers, NEW e \in Entries, Turn(w, e) PROVE JobsOK(x)'
  BY <1>1, JobsTurn
<1>2. answered[x] \in Nat
  BY EntryTypes
<1>3. ASSUME NEW w \in Workers, Loop(w) PROVE JobsOK(x)'
  <2>1. UNCHANGED <<jobs, answered, turn>> /\ Others(w) /\ (turn[w] = "load" \/ hand' = hand)
    BY <1>3, LoopShape DEF records
  <2>2. Replying(x)' \subseteq Replying(x)
    BY <2>1 DEF Replying, Others
  <2> QED
    BY <1>2, <2>1, <2>2, JobsFrame
<1>4. ASSUME NEW w \in Workers, StopWorker(w) PROVE JobsOK(x)'
  <2>1. UNCHANGED <<jobs, answered>> /\ Others(w) /\ turn'[w] # "reply"
    BY <1>4, StopShape DEF records
  <2> QED
    BY <1>2, <2>1, ReplyingBefore, JobsFrame
<1>5. CASE Aside
  BY <1>5 DEF Aside, records, JobsOK, Replying
<1> QED
  BY <1>1, <1>3, <1>4, <1>5, StepKinds

LEMMA AgentsStep == TurnTypeOK /\ AgentsOK /\ [TurnNext]_turnVars => AgentsOK'
<1> SUFFICES ASSUME TurnTypeOK, AgentsOK, [TurnNext]_turnVars PROVE AgentsOK'
  OBVIOUS
<1>1. agentJobs \in Nat /\ agentLines \in Nat /\ IsFiniteSet(replying) /\ Cardinality(replying) \in Nat
  BY FS_CardinalityType DEF TurnTypeOK, AgentsOK
<1>2. ASSUME NEW a \in Agents, RecordReply(a) PROVE AgentsOK'
  <2>1. replying' = replying \cup {a} /\ agentLines' = agentLines + 1 /\ agentJobs' = agentJobs
    BY <1>2 DEF RecordReply
  <2>2. /\ IsFiniteSet(replying \cup {a})
        /\ Cardinality(replying \cup {a}) = IF a \in replying THEN Cardinality(replying)
                                           ELSE Cardinality(replying) + 1
    BY <1>1, FS_AddElement
  <2> QED
    BY <1>1, <2>1, <2>2 DEF AgentsOK
<1>3. ASSUME NEW a \in Agents, PublishReply(a) \/ LoseReply(a) PROVE AgentsOK'
  <2>1. /\ a \in replying /\ replying' = replying \ {a} /\ agentLines' = agentLines
        /\ agentJobs' = agentJobs \/ agentJobs' = agentJobs + 1
    BY <1>3 DEF PublishReply, LoseReply
  <2>2. /\ IsFiniteSet(replying \ {a})
        /\ Cardinality(replying \ {a}) = Cardinality(replying) - 1
    BY <1>1, <2>1, FS_RemoveElement
  <2> QED
    BY <1>1, <2>1, <2>2 DEF AgentsOK
<1>4. CASE UNCHANGED <<replying, agentLines, agentJobs>>
  BY <1>4 DEF AgentsOK
<1>5. CASE InboxNext
  BY <1>2, <1>3, <1>4, <1>5 DEF InboxNext, Open, ReturnToBot, ClaimHandoff
<1>6. CASE UNCHANGED inbox
  BY <1>4, <1>6 DEF inbox
<1>7. ASSUME NEW w \in Workers, Loop(w) \/ StopWorker(w) PROVE UNCHANGED inbox
  BY <1>7 DEF Loop, StopWorker
<1>8. ASSUME NEW w \in Workers, NEW e \in Entries, Turn(w, e) PROVE UNCHANGED inbox
  BY <1>8, TurnShape
<1> QED
  BY <1>5, <1>6, <1>7, <1>8, StepKinds DEF Aside
-----------------------------------------------------------------------------
LEMMA InModelIsFinite ==
    /\ Cardinality(Workers) \in Nat
    /\ IsFiniteSet(InModel) /\ Cardinality(InModel) \in Nat /\ Cardinality({}) = 0
    /\ IsFiniteSet(InModel') /\ Cardinality(InModel') \in Nat
    /\ Cardinality(InModel') <= Cardinality(Workers)
<1>1. InModel \subseteq Workers /\ InModel' \subseteq Workers
  BY DEF InModel
<1> QED
  BY <1>1, ConsumerAssumption, FS_Subset, FS_CardinalityType, FS_EmptySet

\* The conversation is with whom it was, and nobody new is past the check beside a human.
LEMMA OverFrame ==
    ASSUME OverOK, TurnTypeOK, UNCHANGED <<opens, over>>, Live' => Live,
           Live => InModel' \subseteq InModel
    PROVE  OverOK'
<1>1. /\ over \in Nat /\ opens * Cardinality(Workers) \in Nat
  BY InModelIsFinite DEF TurnTypeOK
<1>2. Live => Cardinality(InModel') <= Cardinality(InModel)
  BY InModelIsFinite, FS_Subset
<1>3. CASE Live'
  BY <1>1, <1>2, <1>3, InModelIsFinite DEF OverOK
<1>4. CASE ~Live'
  BY <1>1, <1>4, InModelIsFinite DEF OverOK
<1> QED
  BY <1>3, <1>4

\* A handoff opens: each worker may be past the check already.
LEMMA OverOpens == ASSUME OverOK, TurnTypeOK, Open, UNCHANGED <<turn, over>> PROVE OverOK'
<1> DEFINE n == Cardinality(Workers)
<1>1. opens \in Nat /\ over \in Nat /\ n \in Nat /\ opens' = opens + 1 /\ ~Live
  BY InModelIsFinite DEF Open, TurnTypeOK
<1>2. over <= opens * n
  BY <1>1, InModelIsFinite DEF OverOK
<1>3. (opens + 1) * n = opens * n + n /\ opens * n \in Nat
  BY <1>1
<1>4. over' + Cardinality(InModel') <= (opens + 1) * n
  <2>1. over' = over
    OBVIOUS
  <2> HIDE DEF n
  <2>2. Cardinality(InModel') <= n
    BY InModelIsFinite DEF n
  <2> QED
    BY <1>1, <1>2, <1>3, <2>1, <2>2, InModelIsFinite
<1>5. Cardinality(IF Live' THEN InModel' ELSE {}) <= Cardinality(InModel')
  BY InModelIsFinite
<1>6. Cardinality(IF Live' THEN InModel' ELSE {}) \in Nat
  BY InModelIsFinite
<1> QED
  BY <1>1, <1>4, <1>5, <1>6, InModelIsFinite DEF OverOK

\* A turn that was past the check commits over the human who took over meanwhile.
LEMMA OverCommits ==
    ASSUME OverOK, TurnTypeOK, Live, Live', opens' = opens, over' = over + 1,
           NEW w \in InModel, InModel' \subseteq InModel \ {w}
    PROVE  OverOK'
<1>1. /\ over \in Nat /\ opens * Cardinality(Workers) \in Nat
  BY InModelIsFinite DEF TurnTypeOK
<1>2. IsFiniteSet(InModel \ {w}) /\ Cardinality(InModel \ {w}) = Cardinality(InModel) - 1
  BY InModelIsFinite, FS_RemoveElement
<1>3. Cardinality(InModel') <= Cardinality(InModel) - 1
  BY <1>2, FS_Subset
<1> QED
  BY <1>1, <1>3, InModelIsFinite DEF OverOK

LEMMA OverStep == TurnTypeOK /\ HandoffOK /\ OverOK /\ [TurnNext]_turnVars => OverOK'
<1> SUFFICES ASSUME TurnTypeOK, HandoffOK, OverOK, [TurnNext]_turnVars PROVE OverOK'
  OBVIOUS
<1>1. ASSUME NEW w \in Workers, Others(w), turn'[w] # "model", UNCHANGED <<handoff, opens, over>>
      PROVE  OverOK'
  <2>1. InModel' \subseteq InModel
    BY <1>1 DEF InModel, Others
  <2> QED
    BY <1>1, <2>1, OverFrame DEF Live
<1>2. ASSUME NEW w \in Workers, NEW e \in Entries, Turn(w, e) PROVE OverOK'
  <2>1. Others(w) /\ UNCHANGED <<handoff, opens>>
    BY <1>2, TurnShape DEF inbox
  <2>2. CASE CheckHandoff(w, e)
    <3>1. Live => turn'[w] = "suspend"
      BY <2>2 DEF CheckHandoff, HandoffOK, Live, TurnTypeOK
    <3>2. Live => InModel' \subseteq InModel
      BY <2>1, <3>1 DEF InModel, Others
    <3>3. over' = over
      BY <2>2 DEF CheckHandoff, records
    <3> QED
      BY <2>1, <3>2, <3>3, OverFrame DEF Live
  <2>3. CASE CommitTurn(w, e)
    <3>1. turn[w] = "model" /\ turn'[w] = "reply" /\ over' = IF Live THEN over + 1 ELSE over
      BY <2>3 DEF CommitTurn, At, TurnTypeOK
    <3>2. w \in InModel /\ InModel' \subseteq InModel \ {w}
      BY <2>1, <3>1 DEF InModel, Others
    <3>3. Live' <=> Live
      BY <2>1 DEF Live
    <3> QED
      BY <2>1, <3>1, <3>2, <3>3, OverCommits, OverFrame
  <2>4. CASE Load(w, e) \/ CommitSuspended(w, e)
    BY <1>1, <2>1, <2>4 DEF Load, CommitSuspended, records, TurnTypeOK
  <2>5. CASE RefuseVertical(w, e) \/ EnqueueReply(w, e) \/ ReturnSilent(w, e) \/ FailTurn(w, e)
    BY <1>1, <2>1, <2>5, LeaveShape DEF RefuseVertical, EnqueueReply, ReturnSilent, FailTurn,
       records
  <2> QED
    BY <1>2, <2>2, <2>3, <2>4, <2>5 DEF Turn
<1>3. ASSUME NEW w \in Workers, Loop(w) PROVE OverOK'
  BY <1>3, OverFrame DEF Loop, inbox, records, InModel, Live
<1>4. ASSUME NEW w \in Workers, StopWorker(w) PROVE OverOK'
  BY <1>1, <1>4, StopShape DEF inbox, records
<1>5. CASE Aside /\ InboxNext
  <2>1. UNCHANGED <<turn, over>> /\ InModel' = InModel
    BY <1>5 DEF Aside, records, InModel
  <2>2. CASE Open
    BY <2>1, <2>2, OverOpens
  <2>3. CASE ~Open
    <3>1. opens' = opens /\ (Live' => Live)
      BY <1>5, <2>3 DEF InboxNext, ReturnToBot, ClaimHandoff, RecordReply, PublishReply,
         LoseReply, Live, TurnTypeOK
    <3> QED
      BY <2>1, <3>1, OverFrame
  <2> QED
    BY <2>2, <2>3
<1>6. CASE Aside /\ UNCHANGED inbox
  BY <1>6, OverFrame DEF Aside, inbox, records, InModel, Live
<1> QED
  BY <1>2, <1>3, <1>4, <1>5, <1>6, StepKinds DEF Aside

LEMMA TurnInvStep == TurnInv /\ TypeOK' /\ [TurnNext]_turnVars => TurnInv'
<1> SUFFICES ASSUME TurnInv, TypeOK', [TurnNext]_turnVars PROVE TurnInv'
  OBVIOUS
<1> USE DEF TurnInv
<1>1. TurnTypeOK' /\ PhaseOK' /\ HandoffOK' /\ AgentsOK' /\ OverOK'
  BY TurnTypeStep, PhaseStep, HandoffStep, AgentsStep, OverStep
<1>2. \A e \in Entries : EntryOK(e)' /\ JobsOK(e)'
  BY <1>1, EntryStep, JobsStep
<1> QED
  BY <1>1, <1>2

LEMMA TurnInvHolds == TurnSpec => []TurnInv
<1>1. Inv => TypeOK
  BY DEF Inv
<1> QED
  BY <1>1, ConsumerInv, TurnInitInv, TurnInvStep, PTL DEF TurnSpec

\* Of a human who took the conversation over, the bot answers beside no more turns than
\* there are workers, each the one it was in: the check before the model and the row
\* lock at the commit leave that window open and no other.
THEOREM SpeaksOverOncePerWorker == TurnSpec => []SpeaksOverOnce
<1>1. TurnInv => SpeaksOverOnce
  <2> SUFFICES ASSUME TurnInv PROVE SpeaksOverOnce
    OBVIOUS
  <2>1. over \in Nat /\ opens * Cardinality(Workers) \in Nat
    BY InModelIsFinite DEF TurnInv, TurnTypeOK
  <2>2. Cardinality(IF Live THEN InModel ELSE {}) \in Nat
    BY InModelIsFinite
  <2> QED
    BY <2>1, <2>2 DEF TurnInv, OverOK, SpeaksOverOnce
<1> QED
  BY <1>1, TurnInvHolds, PTL

\* However many workers, and whatever dies, fails or is retried between the commit and
\* the outbound stream: no reply goes out that the thread does not have, an acked entry
\* is in the thread or dead-lettered, and an answer in the thread was sent.
THEOREM RepliesFollowTheThread ==
    TurnSpec => [](NothingSentUnrecorded /\ CommittedReplyIsSent /\ AckedIsRecorded)
<1>1. TurnInv => NothingSentUnrecorded
  <2> SUFFICES ASSUME TurnInv PROVE NothingSentUnrecorded
    OBVIOUS
  <2>1. ASSUME NEW e \in Entries PROVE jobs[e] <= answered[e]
    <3>1. jobs[e] \in Nat /\ answered[e] \in Nat
      BY EntryTypes DEF TurnInv
    <3> QED
      BY <3>1, ReplyingIsFinite DEF TurnInv, JobsOK
  <2>2. agentJobs \in Nat /\ agentLines \in Nat /\ Cardinality(replying) \in Nat
    BY FS_CardinalityType DEF TurnInv, TurnTypeOK, AgentsOK
  <2> QED
    BY <2>1, <2>2 DEF TurnInv, AgentsOK, NothingSentUnrecorded
<1>2. TurnInv => CommittedReplyIsSent
  <2> SUFFICES ASSUME TurnInv, NEW e \in acked, e \notin Wordless, dead[e] = 0, answered[e] > 0
               PROVE  jobs[e] > 0 \/ said[e] > answered[e]
    BY DEF CommittedReplyIsSent
  <2>1. e \in Entries
    BY DEF TurnInv, TurnTypeOK, TypeOK
  <2> QED
    BY <2>1 DEF TurnInv, EntryOK, Settled, Recorded
<1>3. TurnInv => AckedIsRecorded
  BY DEF TurnInv, TurnTypeOK, TypeOK, EntryOK, Settled, Recorded, AckedIsRecorded
<1> QED
  BY <1>1, <1>2, <1>3, TurnInvHolds, PTL
-----------------------------------------------------------------------------
(***************************************************************************)
(* The state beside the thread.  One worker process takes its turns one     *)
(* after another, so what it loaded is still so when it commits; the freeze *)
(* of a handoff is of that state too, unless the bot committed over it.     *)
(***************************************************************************)
OneWorker == \A v, w \in Workers : v = w

StateOK ==
    over = 0 =>
        /\ row => script = answered
        /\ ~row => answered = Fresh
        /\ Live => handoff.resume = answered
        /\ \A w \in Workers : turn[w] \in {"check", "model", "suspend"} => seen[w] = answered

LEMMA StateStep ==
    ASSUME OneWorker, TurnInv, StateOK, [TurnNext]_turnVars PROVE StateOK'
<1> USE DEF TurnInv
<1>1. ASSUME NEW w \in Workers, NEW e \in Entries, Turn(w, e) PROVE StateOK'
  <2>1. handoff' = handoff /\ Workers = {w} /\ turn \in [Workers -> Turns]
    BY <1>1, TurnShape DEF inbox, OneWorker, TurnTypeOK
  <2>2. CASE Load(w, e)
    BY <2>1, <2>2 DEF Load, StateOK, Live, conversation, records, TurnTypeOK
  <2>3. CASE CheckHandoff(w, e)
    <3>1. turn[w] = "check" /\ UNCHANGED <<row, script, answered, over, seen>>
      BY <2>3 DEF CheckHandoff, At, conversation, records
    <3> QED
      BY <2>1, <3>1 DEF StateOK, Live
  <2>4. CASE CommitSuspended(w, e)
    <3>1. turn'[w] = "silent" /\ UNCHANGED <<row, script, answered, over, seen>>
      BY <2>4 DEF CommitSuspended, conversation, TurnTypeOK
    <3> QED
      BY <2>1, <3>1 DEF StateOK, Live
  <2>5. CASE CommitTurn(w, e)
    <3>1. /\ turn[w] = "model" /\ turn'[w] = "reply" /\ row' = TRUE
          /\ script' = [seen[w] EXCEPT ![e] = @ + 1]
          /\ answered' = [answered EXCEPT ![e] = @ + 1]
          /\ over' = IF Live THEN over + 1 ELSE over
      BY <2>5 DEF CommitTurn, At, TurnTypeOK
    <3>2. over' = 0 => over = 0 /\ ~Live
      BY <3>1 DEF TurnTypeOK
    <3>3. over = 0 => seen[w] = answered
      BY <3>1 DEF StateOK
    <3> QED
      BY <2>1, <3>1, <3>2, <3>3 DEF StateOK, Live
  <2>6. CASE RefuseVertical(w, e) \/ EnqueueReply(w, e) \/ ReturnSilent(w, e) \/ FailTurn(w, e)
    <3>1. turn'[w] = "load" /\ UNCHANGED <<row, script, answered, over>>
      BY <2>6, LeaveShape DEF RefuseVertical, EnqueueReply, ReturnSilent, FailTurn,
         conversation, records
    <3> QED
      BY <2>1, <3>1 DEF StateOK, Live
  <2> QED
    BY <1>1, <2>2, <2>3, <2>4, <2>5, <2>6 DEF Turn
<1>2. ASSUME NEW w \in Workers, Loop(w) PROVE StateOK'
  BY <1>2 DEF Loop, StateOK, Live, inbox, conversation, records
<1>3. ASSUME NEW w \in Workers, StopWorker(w) PROVE StateOK'
  <2>1. turn'[w] = "load" /\ UNCHANGED <<row, script, handoff, answered, over>> /\ Workers = {w}
    BY <1>3, StopShape DEF inbox, conversation, records, OneWorker
  <2> QED
    BY <2>1 DEF StateOK, Live
<1>4. CASE Aside /\ InboxNext
  <2>1. UNCHANGED <<turn, seen, answered, over>>
    BY <1>4 DEF Aside, records
  <2>2. CASE Open
    BY <2>1, <2>2 DEF Open, StateOK
  <2>3. CASE ReturnToBot
    BY <2>1, <2>3 DEF ReturnToBot, StateOK, Live, TurnTypeOK
  <2>4. ASSUME NEW a \in Agents, ClaimHandoff(a) PROVE StateOK'
    BY <2>1, <2>4 DEF ClaimHandoff, StateOK, Live, TurnTypeOK
  <2>5. ASSUME NEW a \in Agents, RecordReply(a) \/ PublishReply(a) \/ LoseReply(a) PROVE StateOK'
    BY <2>1, <2>5 DEF RecordReply, PublishReply, LoseReply, StateOK, Live
  <2> QED
    BY <1>4, <2>2, <2>3, <2>4, <2>5 DEF InboxNext
<1>5. CASE Aside /\ UNCHANGED <<inbox, conversation>>
  BY <1>5 DEF Aside, StateOK, Live, inbox, conversation, records
<1> QED
  BY <1>1, <1>2, <1>3, <1>4, <1>5, StepKinds DEF Aside

\* With one worker, as compose.yaml runs it, the thread, the conversation's state, the
\* turns' entries and the outbound stream never disagree, until a turn is committed over
\* a human.
THEOREM ThreadAndQueuesNeverDisagree ==
    ASSUME OneWorker PROVE TurnSpec => []ThreadAndQueuesAgree
<1>1. TurnInit => StateOK
  <2> SUFFICES ASSUME TurnInit PROVE StateOK
    OBVIOUS
  <2>1. row = FALSE /\ answered = Fresh /\ ~Live /\ \A w \in Workers : turn[w] = "load"
    BY DEF TurnInit, InboxInit, Live
  <2> QED
    BY <2>1 DEF StateOK
<1>2. TurnInv /\ StateOK /\ [TurnNext]_turnVars => StateOK'
  BY StateStep
<1>3. StateOK => StateMatchesThread
  BY DEF StateOK, StateMatchesThread
<1>4. NothingSentUnrecorded /\ CommittedReplyIsSent /\ AckedIsRecorded /\ StateMatchesThread
      => ThreadAndQueuesAgree
  BY DEF ThreadAndQueuesAgree
<1> QED
  BY <1>1, <1>2, <1>3, <1>4, TurnInvHolds, RepliesFollowTheThread, PTL DEF TurnSpec
-----------------------------------------------------------------------------
(***************************************************************************)
(* The outbound sender: a StreamConsumer whatever the number of processes;  *)
(* the rate is kept by one, as compose.yaml runs it.                        *)
(***************************************************************************)
LEMMA SendLoopIsConsumers == ASSUME NEW w \in Workers, SendLoop(w) PROVE RunOnce(w)
  BY DEF SendLoop, RunOnce

LEMMA DeliverIsConsumers ==
    ASSUME NEW w \in Workers, NEW e \in Entries, Deliver(w, e)
    PROVE  RunOnce(w) \/ UNCHANGED vars
<1>1. CASE Route(w, e) \/ ReadBucket(w, e) \/ TakeToken(w, e)
  BY <1>1 DEF Route, ReadBucket, TakeToken
<1>2. CASE Unroutable(w, e) \/ Throttle(w, e) \/ Send(w, e) \/ Sent(w, e) \/ FailSend(w, e)
  BY <1>2 DEF Unroutable, Throttle, Send, Sent, FailSend, RunOnce
<1> QED
  BY <1>1, <1>2 DEF Deliver

LEMMA SendStepIsConsumers == [SendNext]_sendVars => [Next]_vars
<1> SUFFICES ASSUME [SendNext]_sendVars PROVE [Next]_vars
  OBVIOUS
<1>1. CASE Publish
  BY <1>1 DEF Next
<1>2. CASE \E w \in Workers : SendLoop(w) \/ \E e \in Entries : Deliver(w, e)
  BY <1>2, SendLoopIsConsumers, DeliverIsConsumers DEF Next
<1>3. CASE \E w \in Workers : StopSender(w) \/ StartSender(w)
  BY <1>3 DEF StopSender, StartSender, Next
<1>4. CASE UNCHANGED vars
  BY <1>4
<1> QED
  BY <1>1, <1>2, <1>3, <1>4 DEF SendNext, Tick, Reboot, sendVars

\* OutboundWorker sends inside StreamConsumer's loop and nowhere else: whatever holds
\* of the loop, acks, retries and burials, holds of the sender.
THEOREM SenderIsAConsumer == SendSpec => SendImplementsConsumer
<1>1. SendInit => Init
  BY DEF SendInit
<1> QED
  BY <1>1, SendStepIsConsumers, PTL DEF SendSpec, Spec, SendImplementsConsumer

LEMMA SendConsumerInv == SendSpec => []Inv
  BY SenderIsAConsumer, InvHolds, PTL DEF SendImplementsConsumer
-----------------------------------------------------------------------------
(***************************************************************************)
(* The bucket against the perfect one.  Value is what the hash is worth     *)
(* now; Due what it was worth by the clock w read, with the refill since,   *)
(* which is not cut off at the capacity.  The perfect bucket lags behind    *)
(* neither by more than one stall's refill, and until a reboot turns the    *)
(* clock back it never has more than the hash.                              *)
(***************************************************************************)
OneSender == \A v, w \in Workers : v = w

Slack == MaxLag * Refill
Value == IF bucket.stored THEN Least(Capacity, bucket.units + bucket.age * Refill)
                          ELSE Capacity
Due(w) == IF bucket.stored
             THEN Least(Capacity + lag[w] * Refill, bucket.units + bucket.age * Refill)
             ELSE Capacity + lag[w] * Refill
Drawing(w) == step[w] \in {"read", "write"}

NotOver ==
    /\ 0 <= allowance + Slack /\ allowance <= Capacity /\ bucket.units <= Capacity
    /\ Value <= allowance + Slack
    /\ bucket.stored => bucket.units <= allowance + Slack
    /\ \A w \in Workers : Drawing(w) => Due(w) <= allowance + Slack

NotUnder ==
    reboots = 0 => /\ bucket.units >= 0 /\ bucket.age >= 0
                   /\ \A w \in Workers : Drawing(w) => lag[w] * Refill <= bucket.age * Refill
                   /\ allowance <= Value

DrawOK == \A w \in Workers : /\ step[w] = "write" => read[w] = bucket
                             /\ pass[w] = "down" => step[w] = "route"

SendInv == SendTypeOK /\ DrawOK /\ NotOver /\ NotUnder

LEMMA Times ==
    /\ \A a, b \in Int : \A r \in Nat : (a + b) * r = a * r + b * r
    /\ \A a, b \in Int : \A r \in Nat : a <= b => a * r <= b * r
    /\ \A a \in Int : \A r \in Nat : a * r \in Int
    /\ \A r \in Nat : 0 * r = 0
<1>1. \A a, b \in Int : \A r \in Nat : (a + b) * r = a * r + b * r /\ a * r \in Int
  OBVIOUS
<1>2. \A a, b \in Int : \A r \in Nat : a <= b => a * r <= b * r
  <2> SUFFICES ASSUME NEW a \in Int, NEW b \in Int, NEW r \in Nat, a <= b PROVE a * r <= b * r
    OBVIOUS
  <2>1. b - a \in Nat /\ b = a + (b - a)
    OBVIOUS
  <2>2. (b - a) * r \in Nat
    BY <2>1
  <2>3. b * r = a * r + (b - a) * r
    BY <1>1, <2>1
  <2> QED
    BY <2>2, <2>3
<1> QED
  BY <1>1, <1>2

LEMMA Terms ==
    ASSUME SendTypeOK, NEW w \in Workers
    PROVE  /\ bucket.stored \in BOOLEAN /\ bucket.units \in Int /\ bucket.age \in Int
           /\ lag[w] \in 0 .. MaxLag /\ lag[w] * Refill \in Nat /\ bucket.age * Refill \in Int
           /\ lag[w] * Refill <= Slack /\ Slack \in Nat /\ allowance \in Int
           /\ Capacity \in Nat /\ Refill \in Nat /\ Cost \in Nat /\ MaxLag \in Nat
  BY Times, SenderAssumption DEF SendTypeOK, Hash, Slack

\* What a process that read the hash makes of it, one sender being all there are.
LEMMA RefilledIsDue ==
    ASSUME SendTypeOK, DrawOK, NEW w \in Workers, step[w] = "write"
    PROVE  Refilled(w) = Due(w) - lag[w] * Refill /\ Refilled(w) \in Int
<1>1. read[w] = bucket
  BY DEF DrawOK
<1>2. (bucket.age - lag[w]) * Refill = bucket.age * Refill - lag[w] * Refill
  <2> DEFINE since == bucket.age - lag[w]
  <2>1. since + lag[w] = bucket.age /\ since \in Int /\ lag[w] \in Int
    BY Terms
  <2> HIDE DEF since
  <2>2. (since + lag[w]) * Refill = since * Refill + lag[w] * Refill /\ since * Refill \in Int
    BY <2>1, Terms, Times
  <2>3. bucket.age * Refill = since * Refill + lag[w] * Refill
    BY <2>1, <2>2
  <2>4. since * Refill = bucket.age * Refill - lag[w] * Refill
    BY <2>2, <2>3, Terms
  <2> QED
    BY <2>4 DEF since
<1> QED
  BY <1>1, <1>2, Terms DEF Refilled, Due, Least
-----------------------------------------------------------------------------
\* Nobody but w goes down.
OthersStay(w) == \A v \in Workers \ {w} : pass'[v] = "down" => pass[v] = "down"
NobodyFalls == \A v \in Workers : pass'[v] = "down" => pass[v] = "down"

\* The steps as the token bucket sees them.
Bystep ==
    \/ UNCHANGED <<limiter, allowance>> /\ NobodyFalls
    \/ \E w \in Workers : SendLeave(w) /\ UNCHANGED <<bucket, reboots, allowance>> /\ OthersStay(w)
    \/ \E w \in Workers, e \in Entries : Route(w, e) \/ ReadBucket(w, e)
    \/ \E w \in Workers, e \in Entries : TakeToken(w, e) \/ (Throttle(w, e) /\ NobodyFalls)
    \/ Pass(1) /\ NobodyFalls
    \/ Pass(BlockTicks) /\ NobodyFalls
    \/ Reboot

LEMMA LoopStaysUp == ASSUME TypeOK, NEW w \in Workers, SendLoop(w) PROVE NobodyFalls
<1>1. CASE EnsureGroup(w)
  BY <1>1 DEF EnsureGroup, NobodyFalls, TypeOK
<1>2. ASSUME NEW batch, NEW missing, Receive(w, batch, missing) PROVE NobodyFalls
  BY <1>2 DEF Receive, OtherPass, NobodyFalls, TypeOK
<1>3. CASE ReadHistory(w) \/ ReadNew(w)
  BY <1>2, <1>3 DEF ReadHistory, ReadNew
<1>4. ASSUME NEW e \in Entries, MissingPayload(w, e) \/ CountAttempts(w, e) \/ Bury(w, e) \/ Ack(w, e)
      PROVE  NobodyFalls
  <2>1. CASE NextEntry(w, e)
    BY <1>2, <2>1 DEF NextEntry
  <2>2. CASE pass' = pass
    BY <2>2 DEF NobodyFalls
  <2> QED
    BY <1>4, <2>1, <2>2 DEF MissingPayload, CountAttempts, Bury, Ack, Goto
<1> QED
  BY <1>1, <1>3, <1>4 DEF SendLoop

LEMMA SendStepKinds == SendTypeOK /\ [SendNext]_sendVars => Bystep
<1> SUFFICES ASSUME SendTypeOK, [SendNext]_sendVars PROVE Bystep
  OBVIOUS
<1>1. TypeOK
  BY DEF SendTypeOK
<1>2. CASE Publish /\ UNCHANGED <<limiter, allowance>>
  BY <1>2 DEF Publish, process, NobodyFalls, Bystep
<1>3. CASE Tick
  BY <1>3 DEF Tick, vars, process, NobodyFalls, Bystep
<1>4. ASSUME NEW w \in Workers, SendLoop(w) PROVE Bystep
  BY <1>1, <1>4, LoopStaysUp DEF SendLoop, Bystep
<1>5. ASSUME NEW w \in Workers, NEW e \in Entries, Deliver(w, e) PROVE Bystep
  <2>1. CASE Route(w, e) \/ ReadBucket(w, e) \/ TakeToken(w, e)
    BY <2>1 DEF Bystep
  <2>2. CASE Unroutable(w, e) \/ Sent(w, e) \/ FailSend(w, e)
    BY <2>2 DEF Unroutable, Sent, FailSend, HandleTerminal, HandleOk, HandleError, Goto,
       OthersStay, Bystep
  <2>3. CASE Throttle(w, e)
    BY <2>3 DEF Throttle, HandleError, Goto, NobodyFalls, Bystep
  <2>4. CASE Send(w, e)
    BY <2>4 DEF Send, Work, Goto, NobodyFalls, Bystep
  <2> QED
    BY <1>5, <2>1, <2>2, <2>3, <2>4 DEF Deliver
<1>6. ASSUME NEW w \in Workers, StopSender(w) PROVE Bystep
  BY <1>1, <1>6 DEF StopSender, Crash, OthersStay, Bystep, TypeOK
<1>7. ASSUME NEW w \in Workers, StartSender(w) PROVE Bystep
  BY <1>1, <1>7 DEF StartSender, Restart, NobodyFalls, Bystep, TypeOK
<1>8. CASE Reboot
  BY <1>8 DEF Bystep
<1>9. CASE UNCHANGED sendVars
  BY <1>9 DEF sendVars, vars, process, NobodyFalls, Bystep
<1> QED
  BY <1>2, <1>3, <1>4, <1>5, <1>6, <1>7, <1>8, <1>9 DEF SendNext

LEMMA SendLeaveShape ==
    ASSUME SendTypeOK, NEW w \in Workers, SendLeave(w)
    PROVE  /\ step'[w] = "route" /\ \A v \in Workers \ {w} : step'[v] = step[v] /\ read'[v] = read[v]
           /\ step' \in [Workers -> Steps] /\ read' \in [Workers -> Hash]
           /\ lag' \in [Workers -> 0 .. MaxLag]
  BY SenderAssumption DEF SendLeave, SendTypeOK, Steps, Full, Hash

LEMMA FullType == Full \in Hash
  BY SenderAssumption DEF Full, Hash

LEMMA SendTypeStep == SendTypeOK /\ TypeOK' /\ [SendNext]_sendVars => SendTypeOK'
<1> SUFFICES ASSUME SendTypeOK, TypeOK', Bystep PROVE SendTypeOK'
  BY SendStepKinds
<1> DEFINE Limits == /\ bucket' \in Hash /\ read' \in [Workers -> Hash]
                     /\ step' \in [Workers -> Steps] /\ lag' \in [Workers -> 0 .. MaxLag]
                     /\ reboots' \in 0 .. MaxReboots /\ allowance' \in Int
<1>1. CASE UNCHANGED <<limiter, allowance>>
  BY <1>1 DEF limiter, SendTypeOK
<1>2. ASSUME NEW w \in Workers, SendLeave(w), UNCHANGED <<bucket, reboots, allowance>> PROVE Limits
  BY <1>2, SendLeaveShape DEF SendTypeOK
<1>3. ASSUME NEW w \in Workers, NEW e \in Entries, Route(w, e) \/ ReadBucket(w, e) PROVE Limits
  <2>1. step' \in [Workers -> Steps] /\ UNCHANGED <<bucket, reboots, allowance>>
    BY <1>3 DEF Route, ReadBucket, SendTypeOK, Steps
  <2>2. lag' \in [Workers -> 0 .. MaxLag] /\ read' \in [Workers -> Hash]
    BY <1>3, SenderAssumption DEF Route, ReadBucket, SendTypeOK
  <2> QED
    BY <2>1, <2>2 DEF SendTypeOK
<1>4. ASSUME NEW w \in Workers PROVE Refilled(w) \in Int
  <2>1. /\ read[w].units \in Int /\ read[w].age \in Int /\ lag[w] \in Int /\ Refill \in Int
        /\ Capacity \in Int
    BY SenderAssumption DEF SendTypeOK, Hash
  <2>2. (read[w].age - lag[w]) * Refill \in Int
    BY <2>1
  <2> QED
    BY <2>1, <2>2 DEF Refilled, Least
<1>5. ASSUME NEW w \in Workers, NEW units \in Int, Store(w, units) PROVE bucket' \in Hash
  BY <1>5 DEF Store, Hash, SendTypeOK
<1>6. ASSUME NEW w \in Workers, NEW e \in Entries, TakeToken(w, e) PROVE Limits
  <2>1. bucket' \in Hash
    BY <1>4, <1>5, <1>6, SenderAssumption DEF TakeToken
  <2>2. step' \in [Workers -> Steps] /\ UNCHANGED <<read, lag, reboots>>
    BY <1>6 DEF TakeToken, SendTypeOK, Steps
  <2>3. allowance' \in Int
    BY <1>6, SenderAssumption DEF TakeToken, SendTypeOK
  <2> QED
    BY <2>1, <2>2, <2>3 DEF SendTypeOK
<1>7. ASSUME NEW w \in Workers, NEW e \in Entries, Throttle(w, e) PROVE Limits
  <2>1. bucket' \in Hash
    BY <1>4, <1>5, <1>7 DEF Throttle
  <2> QED
    BY <1>7, <2>1, SendLeaveShape DEF Throttle, SendTypeOK
<1>8. ASSUME NEW n \in Nat, Pass(n) PROVE Limits
  <2>1. \A a \in Int : Least(OldAge, a + n) \in Int
    <3>1. OldAge \in Int
      BY SenderAssumption DEF OldAge
    <3> QED
      BY <3>1 DEF Least
  <2>2. bucket' \in Hash
    BY <1>8, <2>1 DEF Pass, SendTypeOK, Hash
  <2>3. read' \in [Workers -> Hash]
    <3>1. ASSUME NEW w \in Workers
          PROVE  [read[w] EXCEPT !.age = IF step[w] = "write" THEN Least(OldAge, @ + n) ELSE @]
                     \in Hash
      BY <2>1 DEF SendTypeOK, Hash
    <3> QED
      BY <1>8, <3>1 DEF Pass
  <2>4. lag' \in [Workers -> 0 .. MaxLag]
    BY <1>8, SenderAssumption DEF Pass, SendTypeOK
  <2>5. allowance' \in Int
    <3>1. n * Refill \in Int /\ Capacity \in Int
      BY SenderAssumption
    <3> QED
      BY <1>8, <3>1 DEF Pass, SendTypeOK, Least
  <2> QED
    BY <1>8, <2>2, <2>3, <2>4, <2>5 DEF Pass, SendTypeOK
<1>9. ASSUME Reboot PROVE Limits
  <2>1. bucket' \in Hash
    BY <1>9, SenderAssumption DEF Reboot, SendTypeOK, Hash
  <2> QED
    BY <1>9, <2>1, SenderAssumption DEF Reboot, SendTypeOK
<1> QED
  BY <1>1, <1>2, <1>3, <1>6, <1>7, <1>8, <1>9, SenderAssumption DEF Bystep, SendTypeOK
-----------------------------------------------------------------------------
LEMMA DrawStep ==
    ASSUME OneSender, SendTypeOK, DrawOK, Bystep PROVE DrawOK'
<1>1. ASSUME UNCHANGED <<limiter, allowance>>, NobodyFalls PROVE DrawOK'
  BY <1>1 DEF limiter, NobodyFalls, DrawOK
<1>2. ASSUME NEW w \in Workers, SendLeave(w), UNCHANGED bucket, OthersStay(w) PROVE DrawOK'
  BY <1>2, SendLeaveShape DEF OthersStay, DrawOK
<1>3. ASSUME NEW w \in Workers, NEW e \in Entries, SendAt(w, e, "route") \/ SendAt(w, e, "read") \/ SendAt(w, e, "write")
      PROVE  /\ Workers = {w} /\ pass[w] # "down"
             /\ UNCHANGED vars => pass'[w] # "down"
  BY <1>3 DEF SendAt, Handling, OneSender, vars, process
<1>4. ASSUME NEW w \in Workers, NEW e \in Entries, Route(w, e) \/ ReadBucket(w, e) PROVE DrawOK'
  <2>1. Workers = {w} /\ pass'[w] # "down"
    BY <1>3, <1>4 DEF Route, ReadBucket
  <2>2. step'[w] = "write" => read'[w] = bucket'
    BY <1>4 DEF Route, ReadBucket, SendTypeOK
  <2> QED
    BY <2>1, <2>2 DEF DrawOK
<1>5. ASSUME NEW w \in Workers, NEW e \in Entries, TakeToken(w, e) PROVE DrawOK'
  <2>1. Workers = {w} /\ pass'[w] # "down"
    BY <1>3, <1>5 DEF TakeToken
  <2>2. step'[w] = "send"
    BY <1>5 DEF TakeToken, SendTypeOK
  <2> QED
    BY <2>1, <2>2 DEF DrawOK
<1>6. ASSUME NEW w \in Workers, NEW e \in Entries, Throttle(w, e), NobodyFalls PROVE DrawOK'
  <2>1. Workers = {w} /\ step'[w] = "route"
    BY <1>3, <1>6, SendLeaveShape DEF Throttle
  <2> QED
    BY <2>1 DEF DrawOK
<1>7. ASSUME NEW n, Pass(n), NobodyFalls PROVE DrawOK'
  <2> SUFFICES ASSUME NEW w \in Workers
               PROVE  /\ step'[w] = "write" => read'[w] = bucket'
                      /\ pass'[w] = "down" => step'[w] = "route"
    BY DEF DrawOK
  <2>1. step' = step
    BY <1>7 DEF Pass
  <2>2. step[w] = "write" => read'[w] = bucket'
    BY <1>7 DEF Pass, DrawOK, SendTypeOK, Hash
  <2> QED
    BY <1>7, <2>1, <2>2 DEF NobodyFalls, DrawOK
<1>8. ASSUME Reboot PROVE DrawOK'
  BY <1>8 DEF Reboot, DrawOK, vars, process
<1> QED
  BY <1>1, <1>2, <1>4, <1>5, <1>6, <1>7, <1>8 DEF Bystep

\* A store: the bucket becomes what the clock read made of it, less what was drawn.
LEMMA Stored ==
    ASSUME SendTypeOK, SendTypeOK', DrawOK, NEW w \in Workers, step[w] = "write",
           NEW drawn \in Nat, Store(w, Refilled(w) - drawn)
    PROVE  /\ bucket'.stored /\ bucket'.units = Due(w) - lag[w] * Refill - drawn
           /\ bucket'.age = lag[w]
           /\ Value' = Least(Capacity, Due(w) - drawn)
<1>1. /\ Refilled(w) = Due(w) - lag[w] * Refill /\ Refilled(w) \in Int
      /\ lag[w] * Refill \in Nat
  BY RefilledIsDue, Terms
<1>2. bucket' = [stored |-> TRUE, units |-> Refilled(w) - drawn, age |-> lag[w]]
  BY DEF Store
<1>3. bucket'.stored = TRUE /\ bucket'.units = Refilled(w) - drawn /\ bucket'.age = lag[w]
  BY <1>2
<1>4. Due(w) \in Int
  BY Terms DEF Due, Least
<1>5. bucket'.units + bucket'.age * Refill = Due(w) - drawn
  BY <1>1, <1>3, <1>4
<1> QED
  BY <1>1, <1>3, <1>4, <1>5 DEF Value

\* The refill of n ticks, cut off where any bucket is full.
LEMMA Ages ==
    ASSUME SendTypeOK, NEW n \in Nat, NEW a, a = Least(OldAge, bucket.age + n)
    PROVE  /\ a \in Int /\ n * Refill \in Nat /\ a * Refill \in Int
           /\ a * Refill <= bucket.age * Refill + n * Refill
           /\ \/ a * Refill = bucket.age * Refill + n * Refill
              \/ Refill = 0 /\ a * Refill = 0 /\ n * Refill = 0 /\ bucket.age * Refill = 0
              \/ a * Refill >= Capacity /\ a * Refill >= Slack
           /\ bucket.age >= 0 => a >= 0
<1>1. /\ OldAge \in Nat /\ bucket.age \in Int /\ Refill \in Nat /\ n \in Int /\ bucket.age + n \in Int
      /\ Capacity \in Nat /\ MaxLag \in Nat /\ MaxSkew \in Nat
  <2>1. bucket.age \in Int
    BY DEF SendTypeOK, Hash
  <2>2. Refill \in Nat /\ Capacity \in Nat /\ MaxLag \in Nat /\ MaxSkew \in Nat
    BY SenderAssumption
  <2>3. (MaxSkew + MaxLag) * Refill \in Nat
    BY <2>2
  <2> QED
    BY <2>1, <2>2, <2>3 DEF OldAge
<1>2. a \in Int /\ a <= bucket.age + n /\ (a = bucket.age + n \/ a = OldAge)
      /\ (bucket.age >= 0 => a >= 0)
  BY <1>1 DEF Least
<1>3. /\ (bucket.age + n) * Refill = bucket.age * Refill + n * Refill
      /\ n * Refill \in Nat /\ a * Refill \in Int
      /\ a * Refill <= (bucket.age + n) * Refill
  <2>1. (bucket.age + n) * Refill = bucket.age * Refill + n * Refill
    BY <1>1, Times
  <2>2. n * Refill \in Nat
    BY <1>1
  <2>3. a * Refill \in Int /\ a * Refill <= (bucket.age + n) * Refill
    BY <1>1, <1>2, Times
  <2> QED
    BY <2>1, <2>2, <2>3
<1>4. CASE a = bucket.age + n
  BY <1>2, <1>3, <1>4
<1>5. CASE Refill = 0
  <2>1. \A x \in Int : x * Refill = 0
    BY <1>5
  <2> QED
    BY <1>1, <1>2, <1>3, <1>5, <2>1
<1>6. CASE a = OldAge /\ Refill # 0
  <2>1. (MaxSkew + MaxLag) * Refill = MaxSkew * Refill + MaxLag * Refill
    BY <1>1, Times
  <2>2. MaxSkew * Refill \in Nat /\ MaxLag * Refill \in Nat
    BY <1>1
  <2>3. OldAge >= Capacity /\ OldAge >= Slack
    BY <1>1, <2>1, <2>2 DEF OldAge, Slack
  <2>4. 1 * OldAge <= Refill * OldAge
    BY <1>1, <1>6, Times
  <2>5. OldAge * Refill >= OldAge
    BY <1>1, <2>4
  <2> QED
    BY <1>1, <1>2, <1>3, <1>6, <2>2, <2>3, <2>5 DEF Slack
<1> QED
  BY <1>2, <1>4, <1>5, <1>6

LEMMA Amounts ==
    ASSUME SendTypeOK
    PROVE  /\ bucket.stored \in BOOLEAN /\ bucket.units \in Int /\ bucket.age \in Int
           /\ bucket.age * Refill \in Int /\ allowance \in Int /\ Value \in Int
           /\ Capacity \in Nat /\ Refill \in Nat /\ Cost \in Nat /\ Slack \in Nat
<1>1. bucket.stored \in BOOLEAN /\ bucket.units \in Int /\ bucket.age \in Int /\ allowance \in Int
  BY DEF SendTypeOK, Hash
<1>2. Capacity \in Nat /\ Refill \in Nat /\ Cost \in Nat /\ MaxLag \in Nat
  BY SenderAssumption
<1>3. bucket.age * Refill \in Int /\ MaxLag * Refill \in Nat
  BY <1>1, <1>2
<1> QED
  BY <1>1, <1>2, <1>3 DEF Value, Least, Slack

\* Time adds the same to all three, but for what the capacity cuts off.
LEMMA PassBounds ==
    ASSUME SendTypeOK, SendTypeOK', DrawOK, NotOver, NotUnder, NEW n \in Nat, Pass(n)
    PROVE  NotOver' /\ NotUnder'
<1> DEFINE refill == n * Refill
           p == bucket.age * Refill
           q == bucket'.age * Refill
<1>1. /\ bucket'.stored = bucket.stored /\ bucket'.units = bucket.units
      /\ bucket'.age = Least(OldAge, bucket.age + n)
      /\ UNCHANGED <<step, reboots>> /\ allowance' = Least(Capacity, allowance + refill)
  BY DEF Pass, SendTypeOK, Hash
<1>2. /\ refill \in Nat /\ q \in Int /\ q <= p + refill
      /\ \/ q = p + refill
         \/ q = 0 /\ refill = 0 /\ p = 0
         \/ q >= Capacity /\ q >= Slack
      /\ bucket.age >= 0 => bucket'.age >= 0
  BY <1>1, Ages
<1>3. /\ bucket.units \in Int /\ bucket.age \in Int /\ p \in Int /\ allowance \in Int
      /\ Value \in Int /\ Capacity \in Nat /\ Slack \in Nat /\ bucket.stored \in BOOLEAN
  BY Amounts
<1>4. ASSUME NEW w \in Workers, Drawing(w)
      PROVE  /\ lag'[w] * Refill = lag[w] * Refill + refill /\ lag[w] * Refill \in Nat
             /\ lag'[w] * Refill <= Slack
  <2>1. lag'[w] = lag[w] + n
    BY <1>4 DEF Pass, Drawing
  <2>2. lag[w] \in Int /\ n \in Int /\ Refill \in Nat
    BY Terms
  <2>3. (lag[w] + n) * Refill = lag[w] * Refill + n * Refill
    BY <2>2, Times
  <2>4. lag'[w] * Refill <= Slack
    <3>1. lag'[w] \in Int /\ lag'[w] <= MaxLag /\ MaxLag \in Int /\ Refill \in Nat
      BY SenderAssumption DEF SendTypeOK
    <3> QED
      BY <3>1, Times DEF Slack
  <2> QED
    BY <2>1, <2>3, <2>4, Terms
<1> HIDE DEF refill, p, q
<1>5. NotOver'
  <2>1. /\ Value' <= Value + refill /\ Value' <= Capacity
    BY <1>1, <1>2, <1>3 DEF Value, Least, p, q
  <2>2. /\ 0 <= allowance + Slack /\ allowance <= Capacity /\ bucket.units <= Capacity
        /\ Value <= allowance + Slack
        /\ bucket.stored => bucket.units <= allowance + Slack
    BY DEF NotOver
  <2>3. allowance' \in Int /\ allowance' <= Capacity /\ allowance <= allowance'
        /\ (allowance' = Capacity \/ allowance' = allowance + refill)
    BY <1>1, <1>2, <1>3, <2>2 DEF Least
  <2>4. Value' = IF bucket.stored THEN Least(Capacity, bucket.units + q) ELSE Capacity
    BY <1>1 DEF Value, q
  <2>9. Value' \in Int /\ Slack' = Slack
    BY <1>2, <1>3, <2>4 DEF Slack, Least
  <2>5. ASSUME NEW w \in Workers, Drawing(w)' PROVE Due(w)' <= allowance' + Slack
    <3>1. Drawing(w)
      BY <1>1, <2>5 DEF Drawing
    <3> DEFINE l == lag[w] * Refill
               m == lag'[w] * Refill
    <3>2. m = l + refill /\ l \in Nat /\ m <= Slack
      BY <1>4, <3>1
    <3> HIDE DEF l, m
    <3>3. Due(w) <= allowance + Slack
      BY <3>1 DEF NotOver
    <3>4. Due(w)' = IF bucket.stored THEN Least(Capacity + m, bucket.units + q) ELSE Capacity + m
      BY <1>1 DEF Due, q, m
    <3>5. Due(w) = IF bucket.stored THEN Least(Capacity + l, bucket.units + p) ELSE Capacity + l
      BY DEF Due, p, l
    <3>6. Due(w) \in Int /\ Due(w)' \in Int /\ Due(w)' <= Capacity + m
      BY <1>2, <1>3, <3>2, <3>4, <3>5 DEF Least
    <3>7. Due(w)' <= Due(w) + refill
      BY <1>2, <1>3, <3>2, <3>4, <3>5 DEF Least
    <3> QED
      BY <1>2, <1>3, <2>3, <3>2, <3>3, <3>6, <3>7
  <2>10. /\ allowance + Slack \in Int /\ allowance' + Slack \in Int
         /\ allowance + Slack <= allowance' + Slack
         /\ allowance' = Capacity => allowance' + Slack >= Capacity
         /\ allowance' = allowance + refill => allowance' + Slack = allowance + Slack + refill
    <3>1. /\ allowance \in Int /\ allowance' \in Int /\ Slack \in Nat /\ Capacity \in Nat
          /\ refill \in Nat /\ allowance <= allowance'
      BY <1>2, <1>3, <2>3
    <3>2. allowance + Slack \in Int /\ allowance' + Slack \in Int
      BY <3>1
    <3>3. allowance + Slack <= allowance' + Slack
      <4> \A a, b \in Int : \A c \in Nat : a <= b => a + c <= b + c
        OBVIOUS
      <4> QED
        BY <3>1
    <3>4. allowance' = Capacity => allowance' + Slack >= Capacity
      BY <3>1
    <3>5. allowance' = allowance + refill => allowance' + Slack = allowance + Slack + refill
      BY <3>1
    <3> QED
      BY <3>2, <3>3, <3>4, <3>5
  <2>11. /\ Value \in Int /\ refill \in Nat /\ Capacity \in Nat
         /\ bucket'.stored = bucket.stored /\ bucket'.units = bucket.units /\ bucket.units \in Int
    BY <1>1, <1>2, <1>3
  <2>6. Value' <= allowance' + Slack
    <3>1. CASE allowance' = Capacity
      BY <2>1, <2>9, <2>10, <2>11, <3>1
    <3>2. CASE allowance' = allowance + refill
      <4>1. Value + refill <= allowance + Slack + refill
        BY <2>2, <2>10, <2>11
      <4> QED
        BY <2>1, <2>9, <2>10, <2>11, <3>2, <4>1
    <3> QED
      BY <2>3, <3>1, <3>2
  <2>7. bucket'.stored => bucket'.units <= allowance' + Slack
    BY <2>2, <2>10, <2>11
  <2>8. 0 <= allowance' + Slack
    BY <2>2, <2>10
  <2> QED
    BY <1>1, <2>2, <2>3, <2>5, <2>6, <2>7, <2>8, <2>9 DEF NotOver
<1>6. NotUnder'
  <2> SUFFICES ASSUME reboots = 0
               PROVE  /\ bucket'.units >= 0 /\ bucket'.age >= 0
                      /\ \A w \in Workers : Drawing(w)' => lag'[w] * Refill <= q
                      /\ allowance' <= Value'
    BY <1>1 DEF NotUnder, q
  <2>1. /\ bucket.units >= 0 /\ bucket.age >= 0 /\ allowance <= Value
        /\ \A w \in Workers : Drawing(w) => lag[w] * Refill <= p
    BY DEF NotUnder, p
  <2>2. allowance' <= Value'
    BY <1>1, <1>2, <1>3, <2>1 DEF Value, Least, p, q
  <2>3. ASSUME NEW w \in Workers, Drawing(w)' PROVE lag'[w] * Refill <= q
    <3>1. Drawing(w)
      BY <1>1, <2>3 DEF Drawing
    <3> DEFINE l == lag[w] * Refill
               m == lag'[w] * Refill
    <3>2. m = l + refill /\ l \in Nat /\ m <= Slack /\ l <= p
      BY <1>4, <2>1, <3>1
    <3> HIDE DEF l, m
    <3>3. m <= q
      BY <1>2, <1>3, <3>2
    <3> QED
      BY <3>3 DEF m
  <2> QED
    BY <1>1, <1>2, <2>1, <2>2, <2>3
<1> QED
  BY <1>5, <1>6

LEMMA StoreBounds ==
    ASSUME OneSender, SendTypeOK, SendTypeOK', DrawOK, NotOver, NotUnder, NEW w \in Workers,
           step[w] = "write", NEW drawn \in Nat, drawn = 0 \/ Refilled(w) >= drawn,
           Store(w, Refilled(w) - drawn), allowance' = allowance - drawn,
           reboots' = reboots, step'[w] \in {"send", "route"}
    PROVE  NotOver' /\ NotUnder'
<1> DEFINE l == lag[w] * Refill
           p == bucket.age * Refill
           d == Due(w)
<1>1. /\ l \in Nat /\ l <= Slack /\ p \in Int /\ Slack \in Nat /\ Capacity \in Nat
      /\ bucket.units \in Int /\ allowance \in Int /\ bucket.stored \in BOOLEAN /\ lag[w] \in Nat
  BY Terms
<1>2. /\ bucket'.stored /\ bucket'.units = d - l - drawn /\ bucket'.age = lag[w]
      /\ Value' = Least(Capacity, d - drawn)
  BY Stored
<1>3. Refilled(w) = d - l
  BY RefilledIsDue
<1>4. Drawing(w) /\ \A v \in Workers : ~Drawing(v)'
  BY DEF Drawing, OneSender
<1>5. /\ d \in Int /\ d <= Capacity + l /\ Value \in Int
      /\ Value <= d
      /\ bucket.stored => d = Least(Capacity + l, bucket.units + p)
      /\ ~bucket.stored => d = Capacity + l
  BY <1>1, Amounts DEF Due, Value, Least
<1> HIDE DEF d, l, p
<1>6. NotOver'
  <2>1. 0 <= allowance + Slack /\ allowance <= Capacity /\ d <= allowance + Slack
    BY <1>4 DEF NotOver, d
  <2>2. Slack' = Slack
    BY DEF Slack
  <2>3. bucket'.units <= Capacity /\ bucket'.units <= allowance' + Slack
    BY <1>1, <1>2, <1>5, <2>1
  <2>4. Value' <= allowance' + Slack
    BY <1>1, <1>2, <1>5, <2>1 DEF Least
  <2>5. 0 <= allowance' + Slack /\ allowance' <= Capacity
    BY <1>1, <1>3, <1>5, <2>1
  <2> QED
    BY <1>4, <2>2, <2>3, <2>4, <2>5 DEF NotOver
<1>7. NotUnder'
  <2> SUFFICES ASSUME reboots = 0
               PROVE  bucket'.units >= 0 /\ bucket'.age >= 0 /\ allowance' <= Value'
    BY <1>4 DEF NotUnder
  <2>1. bucket.units >= 0 /\ l <= p /\ allowance <= Value /\ allowance <= Capacity
    BY <1>4 DEF NotUnder, NotOver, l, p
  <2>2. bucket'.units >= 0
    BY <1>1, <1>2, <1>3, <1>5, <2>1 DEF Least
  <2>3. allowance' <= Value'
    BY <1>1, <1>2, <1>5, <2>1 DEF Least
  <2> QED
    BY <1>1, <1>2, <2>2, <2>3
<1> QED
  BY <1>6, <1>7

LEMMA BoundsStep ==
    ASSUME OneSender, SendTypeOK, SendTypeOK', DrawOK, NotOver, NotUnder, Bystep
    PROVE  NotOver' /\ NotUnder'
<1>1. CASE UNCHANGED <<limiter, allowance>>
  BY <1>1 DEF limiter, NotOver, NotUnder, Value, Due, Drawing, Slack
<1>2. ASSUME NEW w \in Workers, SendLeave(w), UNCHANGED <<bucket, reboots, allowance>>
      PROVE  NotOver' /\ NotUnder'
  <2>1. \A v \in Workers : ~Drawing(v)'
    BY <1>2, SendLeaveShape DEF Drawing, OneSender
  <2> QED
    BY <1>2, <2>1 DEF NotOver, NotUnder, Value, Slack
<1>3. ASSUME NEW w \in Workers, NEW e \in Entries, Route(w, e) PROVE NotOver' /\ NotUnder'
  <2>1. lag'[w] * Refill = 0 /\ UNCHANGED <<bucket, reboots, allowance>>
    <3>1. lag'[w] = 0 /\ Refill \in Nat
      BY <1>3, SenderAssumption DEF Route, SendTypeOK
    <3> QED
      BY <1>3, <3>1, Times DEF Route
  <2>2. Workers = {w} /\ Value' = Value /\ Slack' = Slack
    BY <2>1 DEF OneSender, Value, Slack
  <2>3. Due(w)' = Value
    BY <2>1, Amounts DEF Due, Value
  <2>4. reboots = 0 => 0 <= bucket.age * Refill
    BY Amounts, Times DEF NotUnder
  <2> QED
    BY <2>1, <2>2, <2>3, <2>4 DEF NotOver, NotUnder
<1>4. ASSUME NEW w \in Workers, NEW e \in Entries, ReadBucket(w, e) PROVE NotOver' /\ NotUnder'
  <2>1. /\ UNCHANGED <<bucket, reboots, allowance, lag>>
        /\ step[w] = "read" /\ \A v \in Workers : v = w
    BY <1>4 DEF ReadBucket, SendAt, OneSender
  <2>2. \A v \in Workers : Drawing(v) /\ Due(v)' = Due(v)
    BY <2>1 DEF Drawing, Due
  <2> QED
    BY <2>1, <2>2 DEF NotOver, NotUnder, Value, Slack
<1>5. ASSUME NEW w \in Workers, NEW e \in Entries, TakeToken(w, e) PROVE NotOver' /\ NotUnder'
  <2>1. /\ step[w] = "write" /\ Refilled(w) >= Cost /\ Store(w, Refilled(w) - Cost)
        /\ allowance' = allowance - Cost /\ reboots' = reboots /\ step'[w] = "send"
    BY <1>5 DEF TakeToken, SendAt, SendTypeOK
  <2> QED
    BY <2>1, StoreBounds, SenderAssumption
<1>6. ASSUME NEW w \in Workers, NEW e \in Entries, Throttle(w, e) PROVE NotOver' /\ NotUnder'
  <2>1. /\ step[w] = "write" /\ Store(w, Refilled(w)) /\ allowance' = allowance
        /\ reboots' = reboots /\ step'[w] = "route"
    BY <1>6, SendLeaveShape DEF Throttle, SendAt
  <2>2. Refilled(w) - 0 = Refilled(w) /\ allowance - 0 = allowance
    BY <2>1, RefilledIsDue, Amounts
  <2> QED
    BY <2>1, <2>2, StoreBounds
<1>7. ASSUME NEW n \in Nat, Pass(n) PROVE NotOver' /\ NotUnder'
  BY <1>7, PassBounds
<1>8. ASSUME Reboot PROVE NotOver' /\ NotUnder'
  <2>1. PICK uptime \in 0 .. MaxSkew : bucket' = [bucket EXCEPT !.age = -uptime]
    BY <1>8 DEF Reboot
  <2>2. /\ bucket'.stored = bucket.stored /\ bucket'.units = bucket.units
        /\ bucket'.age <= 0 /\ bucket'.age \in Int
    BY <2>1, SenderAssumption DEF SendTypeOK, Hash
  <2>3. bucket'.age * Refill <= 0 /\ bucket'.age * Refill \in Int
    <3>1. bucket'.age * Refill <= 0 * Refill /\ bucket'.age * Refill \in Int /\ 0 * Refill = 0
      BY <2>2, Times, SenderAssumption
    <3> QED
      BY <3>1
  <2>4. \A w \in Workers : ~Drawing(w)'
    BY <1>8 DEF Reboot, DrawOK, Drawing
  <2>5. reboots' # 0 /\ allowance' = allowance
    BY <1>8, SenderAssumption DEF Reboot, SendTypeOK
  <2>6. Value' <= allowance + Slack
    <3>1. CASE bucket.stored
      BY <2>2, <2>3, <3>1, Amounts DEF NotOver, Value, Least
    <3>2. CASE ~bucket.stored
      BY <2>2, <3>2 DEF NotOver, Value
    <3> QED
      BY <3>1, <3>2
  <2> QED
    BY <2>2, <2>4, <2>5, <2>6 DEF NotOver, NotUnder, Slack
<1> QED
  BY <1>1, <1>2, <1>3, <1>4, <1>5, <1>6, <1>7, <1>8, SenderAssumption DEF Bystep
-----------------------------------------------------------------------------
LEMMA SendTypeInit == SendInit => SendTypeOK
  BY FullType, InitInv, SenderAssumption DEF SendInit, Inv, SendTypeOK, Steps

LEMMA BoundsInit == SendInit => DrawOK /\ NotOver /\ NotUnder
<1> SUFFICES ASSUME SendInit PROVE DrawOK /\ NotOver /\ NotUnder
  OBVIOUS
<1>1. /\ bucket.stored = FALSE /\ bucket.units = Capacity /\ bucket.age = 0 /\ allowance = Capacity
      /\ \A w \in Workers : step[w] = "route" /\ ~Drawing(w)
  BY DEF SendInit, Full, Drawing
<1>2. Capacity \in Nat /\ Slack \in Nat /\ Value = Capacity
  BY <1>1, SendTypeInit, Amounts DEF Value
<1> QED
  BY <1>1, <1>2 DEF DrawOK, NotOver, NotUnder

LEMMA SendInvHolds == ASSUME OneSender PROVE SendSpec => []SendInv
<1>1. SendInit => SendInv
  BY SendTypeInit, BoundsInit DEF SendInv
<1>2. SendInv /\ Inv /\ Inv' /\ [SendNext]_sendVars => SendInv'
  <2> SUFFICES ASSUME SendInv, Inv', [SendNext]_sendVars PROVE SendInv'
    OBVIOUS
  <2>1. SendTypeOK' /\ Bystep
    BY SendTypeStep, SendStepKinds DEF SendInv, Inv
  <2> QED
    BY <2>1, DrawStep, BoundsStep DEF SendInv
<1> QED
  BY <1>1, <1>2, SendConsumerInv, PTL DEF SendSpec

LEMMA BoundedByInv == SendInv => RateIsBounded
<1> SUFFICES ASSUME SendInv PROVE 0 <= allowance + Slack
  BY Amounts DEF SendInv, RateIsBounded, Slack
<1> QED
  BY DEF SendInv, NotOver

\* A refused process found less than a token by its clock; the perfect bucket had no more.
LEMMA NothingLeftIsRefused ==
    ASSUME SendInv, reboots = 0, NEW w \in Workers, NEW e \in Entries, Throttle(w, e)
    PROVE  allowance - lag[w] * Refill < Cost
<1> DEFINE l == lag[w] * Refill
           p == bucket.age * Refill
           d == Due(w)
<1>1. SendTypeOK /\ DrawOK /\ step[w] = "write" /\ Refilled(w) < Cost
  BY DEF SendInv, Throttle, SendAt
<1>2. Refilled(w) = d - l
  BY <1>1, RefilledIsDue
<1>3. /\ l \in Nat /\ p \in Int /\ Capacity \in Nat /\ Cost \in Nat /\ bucket.units \in Int
      /\ allowance \in Int
  BY <1>1, Terms
<1>4. allowance <= Value
  BY DEF SendInv, NotUnder
<1>5. Value <= d /\ Value \in Int /\ d \in Int
  BY <1>3 DEF Value, Due, Least
<1> HIDE DEF l, p, d
<1>6. allowance - l < Cost
  BY <1>1, <1>2, <1>3, <1>4, <1>5
<1> QED
  BY <1>6 DEF l

\* One sender, as compose.yaml runs it, keeps to the tenant's rate whatever it crashes
\* into and however long it holds the hash between reading and writing it: what it draws
\* never exceeds what the capacity and the elapsed time allow, and until the host's clock
\* starts again it turns no job away that the rate would let through.
THEOREM RateIsKeptByOneSender == ASSUME OneSender PROVE SendSpec => RateIsKept
<1> DEFINE Kept == /\ RateIsBounded'
                   /\ \A w \in Workers, e \in Entries : reboots = 0 => ~RefusedWhatIsLeft(w, e)
<1>1. SendInv /\ SendInv' => Kept
  <2> SUFFICES ASSUME SendInv, SendInv' PROVE Kept
    OBVIOUS
  <2>1. RateIsBounded'
    BY BoundedByInv, PTL
  <2>2. ASSUME NEW w \in Workers, NEW e \in Entries, reboots = 0, RefusedWhatIsLeft(w, e)
        PROVE  FALSE
    <3>1. allowance - lag[w] * Refill < Cost
      BY <2>2, NothingLeftIsRefused DEF RefusedWhatIsLeft
    <3>2. allowance \in Int /\ lag[w] * Refill \in Int /\ Cost \in Int
      BY Terms DEF SendInv
    <3> QED
      BY <2>2, <3>1, <3>2 DEF RefusedWhatIsLeft
  <2> QED
    BY <2>1, <2>2
<1>2. SendInv /\ SendInv' => [Kept]_sendVars
  BY <1>1
<1> QED
  BY <1>2, SendInvHolds, PTL DEF RateIsKept
=============================================================================
