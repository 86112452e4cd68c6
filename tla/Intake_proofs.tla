---------------------------- MODULE Intake_proofs ----------------------------
(***************************************************************************)
(* Theorems about Intake, for any number of messages, ids, deliveries and   *)
(* requests, whatever a delivery carries and verification makes of it, and  *)
(* any number of faults.                                                   *)
(***************************************************************************)
EXTENDS Intake, FiniteSetTheorems, TLAPS

(***************************************************************************)
(* The strengthening.  A request works through the messages of its own      *)
(* delivery.  The right to publish an id is held by its claim while that is *)
(* free, and by each request between the claim and the queue: a right is    *)
(* made by an expiry only, so there is one and one more for each of them,   *)
(* and a right becomes an entry unless the publish was applied and raised.  *)
(***************************************************************************)
Busy(r) == at[r] \in {"claim", "publish", "release"}
LocalOK(r) ==
    /\ at[r] # "idle" => serving[r] \in Deliveries /\ left[r] \subseteq Carries[serving[r]]
    /\ at[r] = "verify" => left[r] = Carries[serving[r]]
    /\ Busy(r) => current[r] \in left[r]
ServingOK == \A r \in Requests : LocalOK(r)

Holders(id) == {r \in Requests : Holding(r, id)}
Free(id)    == IF id \in claims THEN 0 ELSE 1
HeldOK(id)  == Cardinality(Holders(id)) + Free(id) <= 1 + expiries
RightsOK(m) == queued[m] + Cardinality(Holders(IdOf[m])) + Free(IdOf[m]) <= 1 + lost + expiries

Inv == /\ TypeOK /\ ServingOK
       /\ \A id \in Ids : HeldOK(id)
       /\ \A m \in Messages : RightsOK(m)
-----------------------------------------------------------------------------
\* Only r's own request moves.
Elsewhere(r) ==
    \A q \in Requests \ {r} : /\ at'[q] = at[q] /\ serving'[q] = serving[q]
                              /\ left'[q] = left[q] /\ current'[q] = current[q]

RequestType == /\ at \in [Requests -> Stages]
               /\ serving \in [Requests -> Deliveries \cup {None}]
               /\ left \in [Requests -> SUBSET Messages]
               /\ current \in [Requests -> Messages \cup {None}]

LEMMA OverShape ==
    ASSUME TypeOK, NEW r \in Requests, Over(r, "idle")
    PROVE  RequestType' /\ Elsewhere(r) /\ at'[r] = "idle" /\ LocalOK(r)'
  BY DEF Over, TypeOK, RequestType, Elsewhere, Stages, LocalOK, Busy

\* The loop moves on to a message it has not finished, or the delivery is done.
LEMMA NextMessageShape ==
    ASSUME TypeOK, NEW r \in Requests, LocalOK(r), at[r] # "idle",
           NEW remaining \in SUBSET left[r], NextMessage(r, remaining)
    PROVE  /\ RequestType' /\ Elsewhere(r) /\ LocalOK(r)'
           /\ told' \in SUBSET Deliveries
           /\ \/ remaining = {} /\ at'[r] = "idle" /\ told' = told \cup {serving[r]}
              \/ /\ at'[r] = "claim" /\ told' = told
                 /\ serving'[r] = serving[r] /\ left'[r] = remaining
<1>1. serving[r] \in Deliveries /\ remaining \in SUBSET Messages
  BY DEF LocalOK, TypeOK
<1>2. CASE remaining = {}
  <2>1. Over(r, "idle") /\ told' = told \cup {serving[r]}
    BY <1>2 DEF NextMessage, Answer
  <2> QED
    BY <1>1, <1>2, <2>1, OverShape DEF TypeOK
<1>3. CASE remaining # {}
  <2>1. PICK m \in remaining : current' = [current EXCEPT ![r] = m]
    BY <1>3 DEF NextMessage
  <2>2. /\ at' = [at EXCEPT ![r] = "claim"] /\ left' = [left EXCEPT ![r] = remaining]
        /\ serving' = serving /\ told' = told
    BY <1>3 DEF NextMessage
  <2>3. RequestType' /\ Elsewhere(r)
    BY <1>1, <2>1, <2>2 DEF TypeOK, RequestType, Elsewhere, Stages
  <2>4. /\ at'[r] = "claim" /\ left'[r] = remaining /\ serving'[r] = serving[r]
        /\ current'[r] = m
    BY <1>1, <2>1, <2>2 DEF TypeOK
  <2>5. LocalOK(r)'
    BY <1>1, <2>4 DEF LocalOK, Busy
  <2> QED
    BY <2>2, <2>3, <2>4, <2>5 DEF TypeOK
<1> QED
  BY <1>2, <1>3

\* The counters a call to Valkey may move.
LEMMA CallShape ==
    ASSUME TypeOK, NEW outcome, Call(outcome)
    PROVE  /\ fails' \in 0 .. MaxFails /\ lost' \in 0 .. MaxLost
           /\ lost' = IF outcome = "lost" THEN lost + 1 ELSE lost
           /\ fails' = IF outcome = "fail" THEN fails + 1 ELSE fails
           /\ UNCHANGED <<crashes, expiries, repeats>>
<1>1. MaxFails \in Nat /\ MaxLost \in Nat
  BY IntakeAssumption
<1> QED
  BY <1>1 DEF Call, TypeOK

LEMMA HoldersAreFinite ==
    ASSUME NEW id
    PROVE  /\ IsFiniteSet(Holders(id)) /\ Cardinality(Holders(id)) \in Nat
           /\ IsFiniteSet(Holders(id)') /\ Cardinality(Holders(id)') \in Nat
<1>1. Holders(id) \subseteq Requests /\ Holders(id)' \subseteq Requests
  BY DEF Holders
<1> QED
  BY <1>1, IntakeAssumption, FS_Subset, FS_CardinalityType

\* One request's step adds it to an id's holders, or takes it from them.
LEMMA HoldersMove ==
    ASSUME NEW r \in Requests, Elsewhere(r), NEW id
    PROVE  Cardinality(Holders(id)') = Cardinality(Holders(id))
              + (IF Holding(r, id)' THEN 1 ELSE 0) - (IF Holding(r, id) THEN 1 ELSE 0)
<1> DEFINE Others == Holders(id) \ {r}
<1>1. \A q \in Requests \ {r} : Holding(q, id)' <=> Holding(q, id)
  BY DEF Elsewhere, Holding
<1>2. /\ Holders(id) = IF Holding(r, id) THEN Others \cup {r} ELSE Others
      /\ Holders(id)' = IF Holding(r, id)' THEN Others \cup {r} ELSE Others
  BY <1>1 DEF Holders
<1>3. IsFiniteSet(Others) /\ r \notin Others
  BY HoldersAreFinite, FS_Subset
<1> HIDE DEF Others
<1>4. Cardinality(Others) \in Nat /\ Cardinality(Others \cup {r}) = Cardinality(Others) + 1
  BY <1>3, FS_AddElement, FS_CardinalityType
<1> QED
  BY <1>2, <1>4

LEMMA InvInit == Init => Inv
<1> SUFFICES ASSUME Init PROVE Inv
  OBVIOUS
<1>1. {MaxFails, MaxLost, MaxCrashes, MaxExpiries, MaxRepeats} \subseteq Nat
  BY IntakeAssumption
<1>2. TypeOK
  BY <1>1 DEF Init, TypeOK, Stages
<1>3. ServingOK
  BY DEF Init, ServingOK, LocalOK, Busy
<1>4. ASSUME NEW id PROVE Cardinality(Holders(id)) = 0 /\ Free(id) = 1
  <2>1. Holders(id) = {}
    BY DEF Init, Holders, Holding
  <2> QED
    BY <2>1, FS_EmptySet DEF Init, Free
<1>5. \A id \in Ids : HeldOK(id)
  BY <1>4 DEF HeldOK, Init
<1>6. \A m \in Messages : RightsOK(m)
  BY <1>4 DEF RightsOK, Init
<1> QED
  BY <1>2, <1>3, <1>5, <1>6 DEF Inv

(***************************************************************************)
(* A step of one request keeps the rights when, for every id, it takes as   *)
(* many as it makes: what it adds to the holders, the free claim and the    *)
(* entries is paid for by what it takes from them, or by a fault.           *)
(***************************************************************************)
Held(r, id) == IF Holding(r, id) THEN 1 ELSE 0

LEMMA RightsStep ==
    ASSUME Inv, TypeOK', NEW r \in Requests, Elsewhere(r), LocalOK(r)',
           expiries' = expiries, lost' >= lost,
           \A id \in Ids : Held(r, id)' + Free(id)' <= Held(r, id) + Free(id),
           \A m \in Messages : queued'[m] + Held(r, IdOf[m])' + Free(IdOf[m])' + lost
                                  <= queued[m] + Held(r, IdOf[m]) + Free(IdOf[m]) + lost'
    PROVE  Inv'
<1>1. /\ expiries \in Nat /\ lost \in Nat /\ lost' \in Nat
      /\ \A m \in Messages : queued[m] \in Nat /\ queued'[m] \in Nat /\ IdOf[m] \in Ids
  BY IntakeAssumption DEF Inv, TypeOK
<1>2. \A id : /\ Held(r, id) \in 0 .. 1 /\ Held(r, id)' \in 0 .. 1
              /\ Free(id) \in 0 .. 1 /\ Free(id)' \in 0 .. 1
  BY DEF Held, Free
<1>3. \A id : /\ Cardinality(Holders(id)) \in Nat /\ Cardinality(Holders(id)') \in Nat
              /\ Cardinality(Holders(id)') = Cardinality(Holders(id)) + Held(r, id)' - Held(r, id)
  BY HoldersAreFinite, HoldersMove DEF Held
<1>4. ServingOK'
  <2> SUFFICES ASSUME NEW q \in Requests PROVE LocalOK(q)'
    BY DEF ServingOK
  <2>1. CASE q # r
    BY <2>1 DEF Inv, ServingOK, LocalOK, Busy, Elsewhere
  <2> QED
    BY <2>1
<1>5. ASSUME NEW id \in Ids PROVE HeldOK(id)'
  <2>1. Cardinality(Holders(id)) + Free(id) <= 1 + expiries
    BY DEF Inv, HeldOK
  <2>2. Held(r, id)' + Free(id)' <= Held(r, id) + Free(id)
    OBVIOUS
  <2>3. Cardinality(Holders(id)') + Free(id)' <= 1 + expiries
    BY <1>1, <1>2, <1>3, <2>1, <2>2
  <2> QED
    BY <2>3 DEF HeldOK
<1>6. ASSUME NEW m \in Messages PROVE RightsOK(m)'
  <2> DEFINE id == IdOf[m]
  <2>1. queued[m] + Cardinality(Holders(id)) + Free(id) <= 1 + lost + expiries
    BY DEF Inv, RightsOK
  <2>2. queued'[m] + Held(r, id)' + Free(id)' + lost
           <= queued[m] + Held(r, id) + Free(id) + lost'
    OBVIOUS
  <2>3. queued[m] \in Nat /\ queued'[m] \in Nat
    BY <1>1
  <2>4. /\ Cardinality(Holders(id)) \in Nat /\ Cardinality(Holders(id)') \in Nat
        /\ Cardinality(Holders(id)') = Cardinality(Holders(id)) + Held(r, id)' - Held(r, id)
        /\ Held(r, id) \in 0 .. 1 /\ Held(r, id)' \in 0 .. 1
        /\ Free(id) \in 0 .. 1 /\ Free(id)' \in 0 .. 1
    BY <1>2, <1>3
  <2> HIDE DEF id
  <2>5. queued'[m] + Cardinality(Holders(id)') + Free(id)' <= 1 + lost' + expiries
    BY <1>1, <2>1, <2>2, <2>3, <2>4
  <2> QED
    BY <2>5 DEF RightsOK, id
<1> QED
  BY <1>4, <1>5, <1>6 DEF Inv

LEMMA PostInv == ASSUME Inv, NEW r \in Requests, NEW d \in Deliveries, Post(r, d) PROVE Inv'
<1> USE IntakeAssumption
<1>1. TypeOK /\ at[r] = "idle"
  BY DEF Inv, Post
<1>2. /\ at' = [at EXCEPT ![r] = "verify"] /\ serving' = [serving EXCEPT ![r] = d]
      /\ left' = [left EXCEPT ![r] = Carries[d]]
      /\ UNCHANGED <<claims, queued, current, told, early, fails, lost, crashes, expiries>>
  BY DEF Post
<1>3. Carries[d] \in SUBSET Messages
  OBVIOUS
<1>4. repeats' \in 0 .. MaxRepeats
  BY <1>1 DEF Post, TypeOK
<1>5. TypeOK'
  <2>1. /\ at' \in [Requests -> Stages] /\ serving' \in [Requests -> Deliveries \cup {None}]
        /\ left' \in [Requests -> SUBSET Messages]
    BY <1>1, <1>2, <1>3 DEF TypeOK, Stages
  <2> QED
    BY <1>1, <1>2, <1>4, <2>1 DEF TypeOK
<1>6. Elsewhere(r) /\ at'[r] = "verify" /\ LocalOK(r)'
  BY <1>1, <1>2 DEF TypeOK, Elsewhere, LocalOK, Busy
<1>7. \A id : Held(r, id)' = 0 /\ Held(r, id) = 0 /\ Free(id)' = Free(id)
  BY <1>1, <1>2, <1>6 DEF Held, Holding, Free
<1>8. lost \in Nat /\ \A m \in Messages : queued[m] \in Nat
  BY <1>1 DEF TypeOK
<1> QED
  BY <1>2, <1>5, <1>6, <1>7, <1>8, RightsStep DEF Free

\* What Claim, Publish and Release have in common: the message in hand is a message.
LEMMA InHand ==
    ASSUME Inv, NEW r \in Requests, Busy(r)
    PROVE  /\ LocalOK(r) /\ current[r] \in left[r] /\ current[r] \in Messages
           /\ serving[r] \in Deliveries /\ IdOf[current[r]] \in Ids
           /\ left[r] \ {current[r]} \in SUBSET left[r]
<1>1. LocalOK(r) /\ left[r] \in SUBSET Messages
  BY DEF Inv, ServingOK, TypeOK
<1>2. at[r] # "idle"
  BY DEF Busy
<1> QED
  BY <1>1, <1>2, IntakeAssumption DEF LocalOK

LEMMA VerifyInv == ASSUME Inv, NEW r \in Requests, Verify(r) PROVE Inv'
<1>1. /\ TypeOK /\ LocalOK(r) /\ at[r] = "verify"
      /\ UNCHANGED <<claims, queued, early, faults>>
  BY DEF Inv, ServingOK, Verify
<1>2. serving[r] \in Deliveries /\ left[r] \in SUBSET left[r]
  BY <1>1 DEF LocalOK
<1>3. /\ RequestType' /\ Elsewhere(r) /\ LocalOK(r)' /\ told' \in SUBSET Deliveries
      /\ at'[r] \in {"idle", "claim"}
  <2>1. ASSUME NEW ok \in BOOLEAN, Answer(r, ok)
        PROVE  /\ RequestType' /\ Elsewhere(r) /\ LocalOK(r)' /\ told' \in SUBSET Deliveries
               /\ at'[r] = "idle"
    BY <1>1, <1>2, <2>1, OverShape DEF Answer, TypeOK
  <2>2. CASE NextMessage(r, left[r])
    BY <1>1, <1>2, <2>2, NextMessageShape
  <2> QED
    BY <2>1, <2>2 DEF Verify
<1>4. TypeOK'
  BY <1>1, <1>3 DEF TypeOK, RequestType, faults
<1>5. \A id : Held(r, id)' = 0 /\ Held(r, id) = 0 /\ Free(id)' = Free(id)
  BY <1>1, <1>3 DEF Held, Holding, Free
<1>6. lost \in Nat /\ \A m \in Messages : queued[m] \in Nat
  BY <1>1, IntakeAssumption DEF TypeOK
<1> QED
  BY <1>1, <1>3, <1>4, <1>5, <1>6, RightsStep DEF faults, Free

LEMMA ClaimInv == ASSUME Inv, NEW r \in Requests, Claim(r) PROVE Inv'
<1> DEFINE own == IdOf[current[r]]
<1>1. TypeOK /\ at[r] = "claim" /\ Busy(r) /\ queued' = queued
  BY DEF Inv, Claim, Busy
<1>2. /\ LocalOK(r) /\ current[r] \in Messages /\ serving[r] \in Deliveries /\ own \in Ids
      /\ left[r] \ {current[r]} \in SUBSET left[r] /\ current[r] \in left[r]
  BY <1>1, InHand
<1>3. PICK outcome \in Outcomes :
         /\ Call(outcome)
         /\ claims' = IF Applied(outcome) THEN claims \cup {own} ELSE claims
         /\ \/ Answer(r, FALSE) /\ UNCHANGED early
            \/ outcome = "ok" /\ own \in claims /\ PassOver(r)
            \/ outcome = "ok" /\ own \notin claims /\ Proceed(r) /\ UNCHANGED early
  BY DEF Claim
<1>4. /\ fails' \in 0 .. MaxFails /\ lost' \in 0 .. MaxLost /\ lost' >= lost
      /\ lost \in Nat /\ lost' \in Nat /\ UNCHANGED <<crashes, expiries, repeats>>
  BY <1>1, <1>3, CallShape, IntakeAssumption DEF TypeOK
<1>5. /\ RequestType' /\ Elsewhere(r) /\ LocalOK(r)'
      /\ told' \in SUBSET Deliveries /\ early' \in SUBSET Messages
      /\ \/ at'[r] \in {"idle", "claim"}
         \/ /\ at'[r] = "publish" /\ current'[r] = current[r]
            /\ own \notin claims /\ own \in claims'
  <2>1. CASE Answer(r, FALSE) /\ UNCHANGED early
    BY <1>1, <2>1, OverShape DEF Answer, TypeOK
  <2>2. CASE PassOver(r)
    BY <1>1, <1>2, <2>2, NextMessageShape DEF PassOver, TypeOK
  <2>3. CASE outcome = "ok" /\ own \notin claims /\ Proceed(r) /\ UNCHANGED early
    <3>1. own \in claims'
      BY <1>3, <2>3 DEF Applied
    <3>2. at' = [at EXCEPT ![r] = "publish"] /\ UNCHANGED <<serving, left, current, told, early>>
      BY <2>3 DEF Proceed
    <3>3. RequestType' /\ Elsewhere(r) /\ at'[r] = "publish"
      BY <1>1, <3>2 DEF TypeOK, RequestType, Elsewhere, Stages
    <3>4. LocalOK(r)'
      BY <1>1, <1>2, <3>2, <3>3 DEF LocalOK, Busy
    <3> QED
      BY <1>1, <2>3, <3>1, <3>2, <3>3, <3>4 DEF TypeOK
  <2> QED
    BY <1>3, <2>1, <2>2, <2>3
<1>6. TypeOK'
  <2>1. claims' \in SUBSET Ids
    BY <1>1, <1>2, <1>3 DEF TypeOK
  <2> QED
    BY <1>1, <1>4, <1>5, <2>1 DEF TypeOK, RequestType
<1>7. ASSUME NEW id PROVE Held(r, id)' + Free(id)' <= Held(r, id) + Free(id)
  <2>1. Held(r, id) = 0
    BY <1>1 DEF Held, Holding
  <2>2. claims \subseteq claims'
    BY <1>3
  <2>3. Free(id)' <= Free(id) /\ Free(id) \in 0 .. 1 /\ Free(id)' \in 0 .. 1
    BY <2>2 DEF Free
  <2>4. CASE Held(r, id)' = 0
    BY <2>1, <2>3, <2>4
  <2>5. CASE Held(r, id)' # 0
    <3>1. Holding(r, id)'
      BY <2>5 DEF Held
    <3>2. own \notin claims /\ own \in claims' /\ id = own
      BY <1>5, <3>1 DEF Holding
    <3>3. Free(id) = 1 /\ Free(id)' = 0 /\ Held(r, id)' = 1
      BY <3>1, <3>2 DEF Free, Held
    <3> QED
      BY <2>1, <3>3
  <2> QED
    BY <2>4, <2>5
<1>8. \A m \in Messages : queued'[m] = queued[m] /\ queued[m] \in Nat
  BY <1>1 DEF TypeOK
<1>9. \A id : /\ Held(r, id) \in 0 .. 1 /\ Held(r, id)' \in 0 .. 1
              /\ Free(id) \in 0 .. 1 /\ Free(id)' \in 0 .. 1
  BY DEF Held, Free
<1>10. \A m \in Messages : queued'[m] + Held(r, IdOf[m])' + Free(IdOf[m])' + lost
                              <= queued[m] + Held(r, IdOf[m]) + Free(IdOf[m]) + lost'
  BY <1>4, <1>7, <1>8, <1>9
<1> QED
  BY <1>4, <1>5, <1>6, <1>7, <1>10, RightsStep

LEMMA PublishMessageInv == ASSUME Inv, NEW r \in Requests, PublishMessage(r) PROVE Inv'
<1> DEFINE own == IdOf[current[r]]
<1>1. TypeOK /\ at[r] = "publish" /\ Busy(r) /\ UNCHANGED <<claims, early>>
  BY DEF Inv, PublishMessage, Busy
<1>2. /\ LocalOK(r) /\ current[r] \in Messages /\ serving[r] \in Deliveries /\ own \in Ids
      /\ left[r] \ {current[r]} \in SUBSET left[r] /\ current[r] \in left[r]
  BY <1>1, InHand
<1>3. PICK outcome \in Outcomes :
         /\ Enqueue(r, outcome)
         /\ \/ outcome = "ok" /\ NextMessage(r, left[r] \ {current[r]})
            \/ /\ outcome # "ok" /\ at' = [at EXCEPT ![r] = "release"]
               /\ UNCHANGED <<serving, left, current, told>>
  BY DEF PublishMessage
<1>4. /\ fails' \in 0 .. MaxFails /\ lost' \in 0 .. MaxLost
      /\ lost' = IF outcome = "lost" THEN lost + 1 ELSE lost
      /\ lost \in Nat /\ lost' \in Nat /\ UNCHANGED <<crashes, expiries, repeats>>
  BY <1>1, <1>3, CallShape, IntakeAssumption DEF Enqueue, TypeOK
<1>5. /\ RequestType' /\ Elsewhere(r) /\ LocalOK(r)' /\ told' \in SUBSET Deliveries
      /\ \/ outcome = "ok" /\ at'[r] \in {"idle", "claim"}
         \/ outcome \in {"fail", "lost"} /\ at'[r] = "release" /\ current'[r] = current[r]
  <2>1. CASE outcome = "ok" /\ NextMessage(r, left[r] \ {current[r]})
    BY <1>1, <1>2, <2>1, NextMessageShape
  <2>2. CASE /\ outcome # "ok" /\ at' = [at EXCEPT ![r] = "release"]
             /\ UNCHANGED <<serving, left, current, told>>
    <3>1. RequestType' /\ Elsewhere(r) /\ at'[r] = "release"
      BY <1>1, <2>2 DEF TypeOK, RequestType, Elsewhere, Stages
    <3>2. LocalOK(r)'
      BY <1>1, <1>2, <2>2, <3>1 DEF LocalOK, Busy
    <3> QED
      BY <1>1, <2>2, <3>1, <3>2 DEF TypeOK, Outcomes
  <2> QED
    BY <1>3, <2>1, <2>2
<1>6. /\ queued' \in [Messages -> Nat]
      /\ \A m \in Messages : queued'[m] = IF m = current[r] /\ outcome # "fail"
                                             THEN queued[m] + 1 ELSE queued[m]
  <2>1. queued' = IF outcome # "fail" THEN [queued EXCEPT ![current[r]] = @ + 1] ELSE queued
    BY <1>3 DEF Enqueue, Applied, Outcomes
  <2> QED
    BY <1>1, <1>2, <2>1 DEF TypeOK
<1>7. TypeOK'
  BY <1>1, <1>4, <1>5, <1>6 DEF TypeOK, RequestType
<1>8. \A id : /\ Free(id)' = Free(id) /\ Free(id) \in 0 .. 1
              /\ Held(r, id) = IF id = own THEN 1 ELSE 0
              /\ Held(r, id)' = IF id = own /\ outcome # "ok" THEN 1 ELSE 0
  BY <1>1, <1>5 DEF Free, Held, Holding
<1>9. \A id \in Ids : Held(r, id)' + Free(id)' <= Held(r, id) + Free(id)
  BY <1>8
<1>10. ASSUME NEW m \in Messages
       PROVE  queued'[m] + Held(r, IdOf[m])' + Free(IdOf[m])' + lost
                 <= queued[m] + Held(r, IdOf[m]) + Free(IdOf[m]) + lost'
  <2>1. queued[m] \in Nat
    BY <1>1 DEF TypeOK
  <2>2. CASE m = current[r]
    BY <1>4, <1>5, <1>6, <1>8, <2>1, <2>2
  <2>3. CASE m # current[r]
    BY <1>4, <1>6, <1>8, <2>1, <2>3
  <2> QED
    BY <2>2, <2>3
<1> QED
  BY <1>4, <1>5, <1>7, <1>9, <1>10, RightsStep

LEMMA ReleaseInv == ASSUME Inv, NEW r \in Requests, Release(r) PROVE Inv'
<1> DEFINE own == IdOf[current[r]]
<1>1. TypeOK /\ at[r] = "release" /\ Busy(r) /\ UNCHANGED <<queued, early>>
  BY DEF Inv, Release, Busy
<1>2. own \in Ids
  BY <1>1, InHand
<1>3. PICK outcome \in Outcomes :
         /\ Call(outcome)
         /\ claims' = IF Applied(outcome) THEN claims \ {own} ELSE claims
  BY DEF Release
<1>4. /\ fails' \in 0 .. MaxFails /\ lost' \in 0 .. MaxLost /\ lost' >= lost
      /\ lost \in Nat /\ lost' \in Nat /\ UNCHANGED <<crashes, expiries, repeats>>
  BY <1>1, <1>3, CallShape, IntakeAssumption DEF TypeOK
<1>5. Over(r, "idle") /\ told' = told
  BY DEF Release, Answer
<1>6. RequestType' /\ Elsewhere(r) /\ at'[r] = "idle" /\ LocalOK(r)'
  BY <1>1, <1>5, OverShape
<1>7. TypeOK'
  <2>1. claims' \in SUBSET Ids
    BY <1>1, <1>3 DEF TypeOK
  <2> QED
    BY <1>1, <1>4, <1>5, <1>6, <2>1 DEF TypeOK, RequestType
<1>8. \A id : /\ Held(r, id)' = 0 /\ Held(r, id) = (IF id = own THEN 1 ELSE 0)
              /\ Free(id) \in 0 .. 1 /\ Free(id)' \in 0 .. 1
              /\ id # own => Free(id)' = Free(id)
  BY <1>1, <1>3, <1>6 DEF Held, Holding, Free
<1>9. \A id : Held(r, id)' + Free(id)' <= Held(r, id) + Free(id)
  BY <1>8
<1>10. \A m \in Messages : queued[m] \in Nat
  BY <1>1 DEF TypeOK
<1>11. \A m \in Messages : queued'[m] + Held(r, IdOf[m])' + Free(IdOf[m])' + lost
                              <= queued[m] + Held(r, IdOf[m]) + Free(IdOf[m]) + lost'
  BY <1>1, <1>4, <1>8, <1>9, <1>10
<1> QED
  BY <1>4, <1>6, <1>7, <1>9, <1>11, RightsStep

LEMMA CrashInv == ASSUME Inv, NEW r \in Requests, Crash(r) PROVE Inv'
<1>1. /\ TypeOK /\ Over(r, "idle") /\ crashes' \in 0 .. MaxCrashes
      /\ UNCHANGED <<claims, queued, told, early, fails, lost, expiries, repeats>>
  BY IntakeAssumption DEF Inv, Crash, TypeOK
<1>2. RequestType' /\ Elsewhere(r) /\ at'[r] = "idle" /\ LocalOK(r)'
  BY <1>1, OverShape
<1>3. TypeOK'
  BY <1>1, <1>2 DEF TypeOK, RequestType
<1>4. \A id : /\ Held(r, id)' = 0 /\ Held(r, id) \in 0 .. 1
              /\ Free(id)' = Free(id) /\ Free(id) \in 0 .. 1
  BY <1>1, <1>2 DEF Held, Holding, Free
<1>5. lost \in Nat /\ \A m \in Messages : queued[m] \in Nat
  BY <1>1, IntakeAssumption DEF TypeOK
<1>6. \A m \in Messages : queued'[m] + Held(r, IdOf[m])' + Free(IdOf[m])' + lost
                             <= queued[m] + Held(r, IdOf[m]) + Free(IdOf[m]) + lost'
  BY <1>1, <1>4, <1>5
<1> QED
  BY <1>1, <1>2, <1>3, <1>4, <1>5, <1>6, RightsStep

\* An expiry is the one step that makes a right, and it is counted.
LEMMA ExpireInv == ASSUME Inv, NEW id \in Ids, Expire(id) PROVE Inv'
<1>1. /\ TypeOK /\ claims' = claims \ {id} /\ expiries' = expiries + 1
      /\ expiries' \in 0 .. MaxExpiries /\ expiries \in Nat /\ lost \in Nat
      /\ UNCHANGED <<queued, request, told, early, fails, lost, crashes, repeats>>
  BY IntakeAssumption DEF Inv, Expire, TypeOK
<1>2. TypeOK'
  BY <1>1 DEF TypeOK, request
<1>3. ServingOK'
  BY <1>1 DEF Inv, ServingOK, LocalOK, Busy, request
<1>4. ASSUME NEW x PROVE /\ Cardinality(Holders(x)') = Cardinality(Holders(x))
                         /\ Cardinality(Holders(x)) \in Nat
                         /\ Free(x) \in 0 .. 1 /\ Free(x)' \in 0 .. 1
  <2>1. Holders(x)' = Holders(x)
    BY <1>1 DEF Holders, Holding, request
  <2> QED
    BY <2>1, HoldersAreFinite DEF Free
<1>5. ASSUME NEW x \in Ids PROVE HeldOK(x)'
  <2>1. Cardinality(Holders(x)) + Free(x) <= 1 + expiries
    BY DEF Inv, HeldOK
  <2>2. Cardinality(Holders(x)') + Free(x)' <= 1 + expiries'
    BY <1>1, <1>4, <2>1
  <2> QED
    BY <2>2 DEF HeldOK
<1>6. ASSUME NEW m \in Messages PROVE RightsOK(m)'
  <2>1. queued[m] + Cardinality(Holders(IdOf[m])) + Free(IdOf[m]) <= 1 + lost + expiries
    BY DEF Inv, RightsOK
  <2>2. queued[m] \in Nat
    BY <1>1 DEF TypeOK
  <2>3. queued[m] + Cardinality(Holders(IdOf[m])') + Free(IdOf[m])' <= 1 + lost + expiries'
    BY <1>1, <1>4, <2>1, <2>2
  <2> QED
    BY <1>1, <2>3 DEF RightsOK
<1> QED
  BY <1>2, <1>3, <1>5, <1>6 DEF Inv

LEMMA InvStep == Inv /\ [Next]_vars => Inv'
<1> SUFFICES ASSUME Inv, [Next]_vars PROVE Inv'
  OBVIOUS
<1>1. ASSUME NEW r \in Requests, NEW d \in Deliveries, Post(r, d) PROVE Inv'
  BY <1>1, PostInv
<1>2. ASSUME NEW r \in Requests, Serve(r) PROVE Inv'
  BY <1>2, VerifyInv, ClaimInv, PublishMessageInv, ReleaseInv DEF Serve
<1>3. ASSUME NEW r \in Requests, Crash(r) PROVE Inv'
  BY <1>3, CrashInv
<1>4. ASSUME NEW id \in Ids, Expire(id) PROVE Inv'
  BY <1>4, ExpireInv
<1>5. CASE UNCHANGED vars
  BY <1>5 DEF vars, request, faults, Inv, TypeOK, ServingOK, LocalOK, Busy, HeldOK, RightsOK,
     Holders, Holding, Free
<1> QED
  BY <1>1, <1>2, <1>3, <1>4, <1>5 DEF Next

LEMMA InvHolds == Spec => []Inv
  BY InvInit, InvStep, PTL DEF Spec

\* receive() and the idempotency log honour a claim whatever fails, dies or is
\* redelivered: it is exclusive until one expires, a queued message keeps it, and each
\* entry too many has a lost reply or an expiry of its own to explain it.
THEOREM EveryClaimIsHonoured == Spec => []ClaimsAreHonoured
<1>1. Inv => ClaimsAreHonoured
  <2> SUFFICES ASSUME Inv PROVE ClaimsAreHonoured
    OBVIOUS
  <2>1. /\ expiries \in Nat /\ lost \in Nat
        /\ \A m \in Messages : queued[m] \in Nat /\ IdOf[m] \in Ids
    BY IntakeAssumption DEF Inv, TypeOK
  <2>2. \A id : /\ IsFiniteSet(Holders(id)) /\ Cardinality(Holders(id)) \in Nat
                /\ Free(id) \in 0 .. 1
    BY HoldersAreFinite DEF Free
  <2>3. OneClaimant
    <3> SUFFICES ASSUME expiries = 0, NEW id \in Ids, NEW q \in Requests, NEW r \in Requests,
                        Holding(q, id), Holding(r, id), q # r
                 PROVE  FALSE
      BY DEF OneClaimant
    <3>1. {q, r} \subseteq Holders(id) /\ Cardinality({q, r}) = 2 /\ IsFiniteSet({q, r})
      <4>1. IsFiniteSet({r}) /\ Cardinality({r}) = 1
        BY FS_Singleton
      <4>2. q \notin {r}
        OBVIOUS
      <4>3. IsFiniteSet({r} \cup {q}) /\ Cardinality({r} \cup {q}) = Cardinality({r}) + 1
        BY ONLY <4>1, <4>2, FS_AddElement
      <4>4. {q, r} = {r} \cup {q}
        OBVIOUS
      <4>5. {q, r} \subseteq Holders(id)
        BY DEF Holders
      <4> QED
        BY ONLY <4>1, <4>3, <4>4, <4>5
    <3>2. Cardinality({q, r}) <= Cardinality(Holders(id))
      BY <2>2, <3>1, FS_Subset
    <3>3. Cardinality(Holders(id)) + Free(id) <= 1 + expiries
      BY DEF Inv, HeldOK
    <3> QED
      BY <2>2, <3>1, <3>2, <3>3
  <2>4. NoUnexplainedDuplicate
    BY <2>1, <2>2 DEF Inv, RightsOK, NoUnexplainedDuplicate
  <2>5. ClaimKeptOnceQueued
    <3> SUFFICES ASSUME lost = 0, expiries = 0, NEW m \in Messages, queued[m] > 0
                 PROVE  IdOf[m] \in claims
      BY DEF ClaimKeptOnceQueued
    <3>1. queued[m] + Cardinality(Holders(IdOf[m])) + Free(IdOf[m]) <= 1 + lost + expiries
      BY DEF Inv, RightsOK
    <3>2. Free(IdOf[m]) = 0
      BY <2>1, <2>2, <3>1
    <3> QED
      BY <3>2 DEF Free
  <2> QED
    BY <2>3, <2>4, <2>5 DEF ClaimsAreHonoured
<1> QED
  BY <1>1, InvHolds, PTL
-----------------------------------------------------------------------------
(***************************************************************************)
(* How far losses are bounded.  A message is doomed once the log holds its  *)
(* claim and no request does, or a delivery that carries it has gone past   *)
(* it, while it is not queued.  A death or a lost reply dooms one message;  *)
(* otherwise it takes two failures, the publish and then the release, of    *)
(* which a request that is releasing has had the first.                     *)
(***************************************************************************)
IdsAreOwn == \A m, n \in Messages : IdOf[m] = IdOf[n] => m = n

Done(m) == \/ \E d \in told : Accepted(d) /\ m \in Carries[d]
           \/ \E r \in Requests : Busy(r) /\ m \in Carries[serving[r]] \ left[r]
Orphaned(m) == IdOf[m] \in claims /\ Holders(IdOf[m]) = {}
Doomed == {m \in Messages \ early : queued[m] = 0 /\ (Done(m) \/ Orphaned(m))}
Failed == {r \in Requests : at[r] = "release" /\ queued[current[r]] = 0}

LossOK == 2 * Cardinality(Doomed) + Cardinality(Failed) <= 2 * (crashes + lost) + fails

LEMMA LossSetsAreFinite ==
    /\ IsFiniteSet(Doomed) /\ Cardinality(Doomed) \in Nat
    /\ IsFiniteSet(Doomed') /\ Cardinality(Doomed') \in Nat
    /\ IsFiniteSet(Failed) /\ Cardinality(Failed) \in Nat
    /\ IsFiniteSet(Failed') /\ Cardinality(Failed') \in Nat
<1>1. Doomed \subseteq Messages /\ Doomed' \subseteq Messages
  BY DEF Doomed
<1>2. Failed \subseteq Requests /\ Failed' \subseteq Requests
  BY DEF Failed
<1> QED
  BY <1>1, <1>2, IntakeAssumption, FS_Subset, FS_CardinalityType

\* A set that gains at most one element has at most one more.
LEMMA GainsOne ==
    ASSUME NEW S, NEW T, NEW x, IsFiniteSet(S), T \subseteq S \cup {x}
    PROVE  Cardinality(T) <= Cardinality(S) + 1
<1>1. /\ IsFiniteSet(S \cup {x}) /\ Cardinality(S) \in Nat
      /\ Cardinality(S \cup {x}) = IF x \in S THEN Cardinality(S) ELSE Cardinality(S) + 1
  BY FS_AddElement, FS_CardinalityType
<1>2. Cardinality(T) <= Cardinality(S \cup {x}) /\ Cardinality(T) \in Nat
  BY <1>1, FS_Subset, FS_CardinalityType
<1> QED
  BY <1>1, <1>2

LEMMA FaultTypes ==
    ASSUME TypeOK, TypeOK'
    PROVE  /\ crashes \in Nat /\ lost \in Nat /\ fails \in Nat
           /\ crashes' \in Nat /\ lost' \in Nat /\ fails' \in Nat
  BY IntakeAssumption DEF TypeOK

\* Nothing more is doomed and nobody failed.
LEMMA NothingDoomed ==
    ASSUME TypeOK, TypeOK', LossOK, Doomed' \subseteq Doomed, Failed' \subseteq Failed,
           crashes' >= crashes, lost' >= lost, fails' >= fails
    PROVE  LossOK'
<1>1. Cardinality(Doomed') <= Cardinality(Doomed) /\ Cardinality(Failed') <= Cardinality(Failed)
  BY LossSetsAreFinite, FS_Subset
<1> QED
  BY <1>1, LossSetsAreFinite, FaultTypes DEF LossOK

\* One message more is doomed, by a death or a lost reply.
LEMMA OneDoomed ==
    ASSUME TypeOK, TypeOK', LossOK, NEW x, Doomed' \subseteq Doomed \cup {x},
           Failed' \subseteq Failed, crashes' + lost' >= crashes + lost + 1, fails' >= fails
    PROVE  LossOK'
<1>1. /\ Cardinality(Doomed') <= Cardinality(Doomed) + 1
      /\ Cardinality(Failed') <= Cardinality(Failed)
  BY LossSetsAreFinite, FS_Subset, GainsOne
<1> QED
  BY <1>1, LossSetsAreFinite, FaultTypes DEF LossOK

\* A publish failed, which dooms nothing yet.
LEMMA FirstFailure ==
    ASSUME TypeOK, TypeOK', LossOK, NEW r, Doomed' \subseteq Doomed,
           Failed' \subseteq Failed \cup {r}, fails' = fails + 1, UNCHANGED <<crashes, lost>>
    PROVE  LossOK'
<1>1. /\ Cardinality(Doomed') <= Cardinality(Doomed)
      /\ Cardinality(Failed') <= Cardinality(Failed) + 1
  BY LossSetsAreFinite, FS_Subset, GainsOne
<1> QED
  BY <1>1, LossSetsAreFinite, FaultTypes DEF LossOK

\* The release fails after the publish had, and dooms the message.
LEMMA SecondFailure ==
    ASSUME TypeOK, TypeOK', LossOK, NEW x, NEW r \in Failed, Doomed' \subseteq Doomed \cup {x},
           Failed' \subseteq Failed \ {r}, fails' = fails + 1, UNCHANGED <<crashes, lost>>
    PROVE  LossOK'
<1>1. Cardinality(Doomed') <= Cardinality(Doomed) + 1
  BY LossSetsAreFinite, GainsOne
<1>2. IsFiniteSet(Failed \ {r}) /\ Cardinality(Failed \ {r}) = Cardinality(Failed) - 1
  BY LossSetsAreFinite, FS_RemoveElement
<1>3. Cardinality(Failed') <= Cardinality(Failed) - 1
  BY <1>2, FS_Subset
<1> QED
  BY <1>1, <1>3, LossSetsAreFinite, FaultTypes DEF LossOK

\* A message that r had no right to is not orphaned by r's step.
LEMMA OrphanedBefore ==
    ASSUME NEW r \in Requests, Elsewhere(r), NEW m, Orphaned(m)',
           IdOf[m] \in claims, ~Holding(r, IdOf[m])
    PROVE  Orphaned(m)
  BY DEF Orphaned, Holders, Holding, Elsewhere

\* When r's step answers nobody, deliveries have gone past what they had before, and
\* past what r has.
LEMMA DoneBefore ==
    ASSUME NEW r \in Requests, Elsewhere(r), told' = told, NEW m, Done(m)',
           ~(Busy(r)' /\ m \in Carries[serving'[r]] \ left'[r])
    PROVE  Done(m)
<1>1. CASE \E d \in told : Accepted(d) /\ m \in Carries[d]
  BY <1>1 DEF Done
<1>2. CASE \E q \in Requests : Busy(q)' /\ m \in Carries[serving'[q]] \ left'[q]
  BY <1>2 DEF Done, Busy, Elsewhere
<1> QED
  BY <1>1, <1>2 DEF Done, Accepted

\* Taking up the next message, or answering after the last, goes past the one in hand.
LEMMA DoneByNext ==
    ASSUME Inv, NEW r \in Requests, Busy(r), NextMessage(r, left[r] \ {current[r]}),
           NEW m, Done(m)', m # current[r]
    PROVE  Done(m)
<1>1. /\ TypeOK /\ LocalOK(r) /\ at[r] # "idle" /\ serving[r] \in Deliveries
      /\ left[r] \ {current[r]} \in SUBSET left[r]
  BY InHand DEF Inv, Busy
<1>2. /\ Elsewhere(r)
      /\ \/ /\ left[r] \ {current[r]} = {} /\ at'[r] = "idle"
            /\ told' = told \cup {serving[r]}
         \/ /\ at'[r] = "claim" /\ told' = told
            /\ serving'[r] = serving[r] /\ left'[r] = left[r] \ {current[r]}
  BY <1>1, NextMessageShape
<1>3. CASE \E d \in told' : Accepted(d) /\ m \in Carries[d]
  <2>1. PICK d \in told' : Accepted(d) /\ m \in Carries[d]
    BY <1>3
  <2>2. CASE d \in told
    BY <2>1, <2>2 DEF Done
  <2>3. CASE d \notin told
    <3>1. d = serving[r] /\ left[r] \ {current[r]} = {}
      BY <1>2, <2>3
    <3>2. m \in Carries[serving[r]] \ left[r]
      BY <2>1, <3>1
    <3> QED
      BY <3>2 DEF Done
  <2> QED
    BY <2>2, <2>3
<1>4. CASE \E q \in Requests : Busy(q)' /\ m \in Carries[serving'[q]] \ left'[q]
  <2>1. PICK q \in Requests : Busy(q)' /\ m \in Carries[serving'[q]] \ left'[q]
    BY <1>4
  <2>2. CASE q # r
    BY <1>2, <2>1, <2>2 DEF Done, Busy, Elsewhere
  <2>3. CASE q = r
    <3>1. m \in Carries[serving[r]] \ left[r]
      BY <1>2, <2>1, <2>3 DEF Busy
    <3> QED
      BY <3>1 DEF Done
  <2> QED
    BY <2>2, <2>3
<1> QED
  BY <1>3, <1>4 DEF Done, Accepted

LEMMA FailedBefore ==
    ASSUME Inv, NEW r \in Requests, Elsewhere(r),
           \A m \in Messages : queued'[m] = 0 => queued[m] = 0
    PROVE  /\ Failed' \subseteq Failed \cup {r}
           /\ at'[r] # "release" => Failed' \subseteq Failed \ {r}
<1> SUFFICES ASSUME NEW q \in Failed', q # r PROVE q \in Failed
  BY DEF Failed
<1>1. /\ q \in Requests /\ at[q] = "release" /\ current'[q] = current[q]
      /\ queued'[current[q]] = 0
  BY DEF Failed, Elsewhere
<1>2. current[q] \in Messages
  BY <1>1, InHand DEF Busy
<1> QED
  BY <1>1, <1>2 DEF Failed

LEMMA DoomedBefore ==
    ASSUME early \subseteq early', \A m \in Messages : queued'[m] = 0 => queued[m] = 0, NEW S,
           \A m \in Messages \ S : m \notin early' /\ (Done(m)' \/ Orphaned(m)') /\ queued'[m] = 0
                                      => Done(m) \/ Orphaned(m)
    PROVE  Doomed' \subseteq Doomed \cup S
  BY DEF Doomed

LEMMA PostLoss ==
    ASSUME Inv, Inv', LossOK, NEW r \in Requests, NEW d \in Deliveries, Post(r, d)
    PROVE  LossOK'
<1>1. /\ TypeOK /\ TypeOK' /\ at[r] = "idle" /\ at'[r] = "verify" /\ Elsewhere(r)
      /\ UNCHANGED <<claims, queued, told, early, fails, lost, crashes>>
  BY DEF Inv, Post, TypeOK, Elsewhere
<1>2. Doomed' \subseteq Doomed \cup {}
  <2>1. ASSUME NEW m \in Messages, Done(m)' PROVE Done(m)
    BY <1>1, <2>1, DoneBefore DEF Busy
  <2>2. ASSUME NEW m \in Messages, Orphaned(m)' PROVE Orphaned(m)
    BY <1>1, <2>2, OrphanedBefore DEF Orphaned, Holding
  <2> QED
    BY <1>1, <2>1, <2>2, DoomedBefore
<1>3. Failed' \subseteq Failed
  BY <1>1, FailedBefore
<1> QED
  BY <1>1, <1>2, <1>3, FaultTypes, NothingDoomed

LEMMA VerifyLoss == ASSUME Inv, Inv', LossOK, NEW r \in Requests, Verify(r) PROVE LossOK'
<1>1. /\ TypeOK /\ TypeOK' /\ at[r] = "verify" /\ UNCHANGED <<claims, queued, early, faults>>
      /\ LocalOK(r) /\ left[r] = Carries[serving[r]]
  BY DEF Inv, ServingOK, Verify, LocalOK
<1>2. ASSUME NEW ok \in BOOLEAN, Answer(r, ok)
      PROVE  /\ Elsewhere(r) /\ at'[r] = "idle"
             /\ told' = IF ok THEN told \cup {serving[r]} ELSE told
  BY <1>1, <1>2, OverShape DEF Answer
<1>3. ASSUME NextMessage(r, left[r])
      PROVE  /\ Elsewhere(r)
             /\ \/ /\ left[r] = {} /\ at'[r] = "idle"
                   /\ told' = told \cup {serving[r]}
                \/ /\ at'[r] = "claim" /\ told' = told
                   /\ serving'[r] = serving[r] /\ left'[r] = left[r]
  BY <1>1, <1>3, NextMessageShape
<1>4. Elsewhere(r) /\ at'[r] \in {"idle", "claim"}
  BY <1>2, <1>3 DEF Verify
\* Only a delivery that carries nothing, or is not taken for a message, is told here.
<1>5. /\ \A d \in told' \ told : ~Accepted(d) \/ Carries[d] = {}
      /\ Busy(r)' => Carries[serving'[r]] \ left'[r] = {}
  <2>1. CASE Answer(r, FALSE)
    BY <1>2, <2>1 DEF Busy
  <2>2. CASE "ignored" \in Verdict[serving[r]] /\ Answer(r, TRUE)
    <3>1. ~Accepted(serving[r])
      BY <2>2 DEF Accepted
    <3>2. told' = told \cup {serving[r]} /\ ~Busy(r)'
      BY <1>2, <2>2 DEF Busy
    <3> QED
      BY <3>1, <3>2 DEF Accepted
  <2>3. CASE NextMessage(r, left[r])
    BY <1>1, <1>3, <2>3 DEF Busy
  <2> QED
    BY <2>1, <2>2, <2>3 DEF Verify
<1>6. Doomed' \subseteq Doomed \cup {}
  <2>1. ASSUME NEW m \in Messages, Done(m)' PROVE Done(m)
    <3>1. CASE \E d \in told' : Accepted(d) /\ m \in Carries[d]
      BY <1>5, <3>1 DEF Done
    <3>2. CASE \E q \in Requests : Busy(q)' /\ m \in Carries[serving'[q]] \ left'[q]
      BY <1>4, <1>5, <3>2 DEF Done, Busy, Elsewhere
    <3> QED
      BY <2>1, <3>1, <3>2 DEF Done, Accepted
  <2>2. ASSUME NEW m \in Messages, Orphaned(m)' PROVE Orphaned(m)
    BY <1>1, <1>4, <2>2, OrphanedBefore DEF Orphaned, Holding
  <2> QED
    BY <1>1, <2>1, <2>2, DoomedBefore
<1>7. Failed' \subseteq Failed
  BY <1>1, <1>4, FailedBefore
<1> QED
  BY <1>1, <1>6, <1>7, FaultTypes, NothingDoomed DEF faults

LEMMA ClaimLoss ==
    ASSUME IdsAreOwn, Inv, Inv', LossOK, NEW r \in Requests, Claim(r) PROVE LossOK'
<1> DEFINE own == IdOf[current[r]]
<1>1. TypeOK /\ TypeOK' /\ at[r] = "claim" /\ Busy(r) /\ queued' = queued
  BY DEF Inv, Claim, Busy
<1>2. /\ LocalOK(r) /\ current[r] \in Messages /\ serving[r] \in Deliveries
      /\ current[r] \in left[r]
  BY <1>1, InHand
<1>3. PICK outcome \in Outcomes :
         /\ Call(outcome)
         /\ claims' = IF Applied(outcome) THEN claims \cup {own} ELSE claims
         /\ \/ outcome # "ok" /\ Answer(r, FALSE) /\ UNCHANGED early
            \/ outcome = "ok" /\ own \in claims /\ PassOver(r)
            \/ outcome = "ok" /\ own \notin claims /\ Proceed(r) /\ UNCHANGED early
  BY DEF Claim
<1>4. /\ lost' = IF outcome = "lost" THEN lost + 1 ELSE lost
      /\ fails' = IF outcome = "fail" THEN fails + 1 ELSE fails
      /\ crashes' = crashes
      /\ crashes \in Nat /\ lost \in Nat /\ fails \in Nat
  BY <1>1, <1>3, CallShape, FaultTypes
\* No other message has this one's id, so its claim is the only news.
<1>5. ASSUME NEW m \in Messages, m # current[r], Elsewhere(r), Orphaned(m)' PROVE Orphaned(m)
  <2>1. IdOf[m] # own
    BY <1>2, <1>5 DEF IdsAreOwn
  <2>2. IdOf[m] \in claims
    BY <1>3, <1>5, <2>1 DEF Orphaned
  <2> QED
    BY <1>1, <1>5, <2>2, OrphanedBefore DEF Holding
<1>6. CASE outcome # "ok" /\ Answer(r, FALSE) /\ UNCHANGED early
  <2>1. Elsewhere(r) /\ at'[r] = "idle" /\ told' = told
    BY <1>1, <1>6, OverShape DEF Answer
  <2>2. ASSUME NEW m \in Messages, Done(m)' PROVE Done(m)
    BY <2>1, <2>2, DoneBefore DEF Busy
  <2>3. Failed' \subseteq Failed
    BY <1>1, <2>1, FailedBefore
  <2>4. CASE outcome = "lost"
    <3>1. Doomed' \subseteq Doomed \cup {current[r]}
      BY <1>1, <1>5, <1>6, <2>1, <2>2, DoomedBefore
    <3> QED
      BY <1>1, <1>4, <2>3, <2>4, <3>1, OneDoomed
  <2>5. CASE outcome = "fail"
    <3>1. claims' = claims
      BY <1>3, <2>5 DEF Applied
    <3>2. ASSUME NEW m \in Messages, Orphaned(m)' PROVE Orphaned(m)
      BY <1>1, <2>1, <3>1, <3>2, OrphanedBefore DEF Orphaned, Holding
    <3>3. Doomed' \subseteq Doomed \cup {}
      BY <1>1, <1>6, <2>2, <3>2, DoomedBefore
    <3> QED
      BY <1>1, <1>4, <2>3, <2>5, <3>3, NothingDoomed
  <2> QED
    BY <1>6, <2>4, <2>5 DEF Outcomes
<1>7. CASE outcome = "ok" /\ own \in claims /\ PassOver(r)
  <2>1. NextMessage(r, left[r] \ {current[r]})
    BY <1>7 DEF PassOver
  <2>2. Elsewhere(r) /\ at'[r] \in {"idle", "claim"}
    BY <1>1, <1>2, <2>1, NextMessageShape
  \* The message passed over was orphaned before, unless somebody was on its way.
  <2>3. current[r] \in early' \/ Orphaned(current[r])
    BY <1>7 DEF PassOver, Orphaned, Holders
  <2>4. ASSUME NEW m \in Messages, m \notin early', Done(m)' PROVE Done(m) \/ Orphaned(m)
    BY <1>1, <2>1, <2>3, <2>4, DoneByNext
  <2>5. ASSUME NEW m \in Messages, m \notin early', Orphaned(m)' PROVE Orphaned(m)
    BY <1>5, <2>2, <2>3, <2>5
  <2>6. early \subseteq early'
    BY <1>7 DEF PassOver
  <2>7. Doomed' \subseteq Doomed \cup {}
    BY <1>1, <2>4, <2>5, <2>6, DoomedBefore
  <2>8. Failed' \subseteq Failed
    BY <1>1, <2>2, FailedBefore
  <2> QED
    BY <1>1, <1>4, <1>7, <2>7, <2>8, NothingDoomed
<1>8. CASE outcome = "ok" /\ own \notin claims /\ Proceed(r) /\ UNCHANGED early
  <2>1. /\ Elsewhere(r) /\ at'[r] = "publish" /\ current'[r] = current[r]
        /\ serving'[r] = serving[r] /\ left'[r] = left[r] /\ told' = told
    BY <1>1, <1>8 DEF Proceed, Elsewhere, TypeOK
  <2>2. ASSUME NEW m \in Messages, Done(m)' PROVE Done(m)
    <3>1. CASE m \in Carries[serving[r]] \ left[r]
      BY <1>1, <3>1 DEF Done
    <3>2. CASE ~(m \in Carries[serving[r]] \ left[r])
      BY <2>1, <2>2, <3>2, DoneBefore
    <3> QED
      BY <3>1, <3>2
  <2>3. ~Orphaned(current[r])'
    BY <2>1 DEF Orphaned, Holders, Holding
  <2>4. Doomed' \subseteq Doomed \cup {}
    BY <1>1, <1>5, <1>8, <2>1, <2>2, <2>3, DoomedBefore
  <2>5. Failed' \subseteq Failed
    BY <1>1, <2>1, FailedBefore
  <2> QED
    BY <1>1, <1>4, <1>8, <2>4, <2>5, NothingDoomed
<1> QED
  BY <1>3, <1>6, <1>7, <1>8

LEMMA PublishMessageLoss ==
    ASSUME IdsAreOwn, Inv, Inv', LossOK, NEW r \in Requests, PublishMessage(r) PROVE LossOK'
<1>1. TypeOK /\ TypeOK' /\ at[r] = "publish" /\ Busy(r) /\ UNCHANGED <<claims, early>>
  BY DEF Inv, PublishMessage, Busy
<1>2. /\ LocalOK(r) /\ current[r] \in Messages /\ serving[r] \in Deliveries
      /\ current[r] \in left[r]
  BY <1>1, InHand
<1>3. PICK outcome \in Outcomes :
         /\ Enqueue(r, outcome)
         /\ \/ outcome = "ok" /\ NextMessage(r, left[r] \ {current[r]})
            \/ /\ outcome # "ok" /\ at' = [at EXCEPT ![r] = "release"]
               /\ UNCHANGED <<serving, left, current, told>>
  BY DEF PublishMessage
<1>4. /\ lost' = IF outcome = "lost" THEN lost + 1 ELSE lost
      /\ fails' = IF outcome = "fail" THEN fails + 1 ELSE fails
      /\ crashes' = crashes
      /\ crashes \in Nat /\ lost \in Nat /\ fails \in Nat
  BY <1>1, <1>3, CallShape, FaultTypes DEF Enqueue
<1>5. /\ \A m \in Messages : queued'[m] = 0 => queued[m] = 0
      /\ outcome # "fail" => queued'[current[r]] # 0
  <2>1. queued' = IF outcome # "fail" THEN [queued EXCEPT ![current[r]] = @ + 1] ELSE queued
    BY <1>3 DEF Enqueue, Applied, Outcomes
  <2>2. queued \in [Messages -> Nat]
    BY <1>1 DEF TypeOK
  <2> QED
    BY <1>2, <2>1, <2>2
<1>6. CASE outcome = "ok" /\ NextMessage(r, left[r] \ {current[r]})
  <2>1. Elsewhere(r) /\ at'[r] \in {"idle", "claim"}
    BY <1>1, <1>2, <1>6, NextMessageShape
  <2>2. ASSUME NEW m \in Messages, m # current[r], Done(m)' PROVE Done(m)
    BY <1>1, <1>6, <2>2, DoneByNext
  <2>3. ASSUME NEW m \in Messages, m # current[r], Orphaned(m)' PROVE Orphaned(m)
    <3>1. IdOf[m] # IdOf[current[r]]
      BY <1>2, <2>3 DEF IdsAreOwn
    <3> QED
      BY <1>1, <2>1, <2>3, <3>1, OrphanedBefore DEF Orphaned, Holding
  <2>4. Doomed' \subseteq Doomed \cup {}
    BY <1>1, <1>5, <1>6, <2>2, <2>3, DoomedBefore
  <2>5. Failed' \subseteq Failed
    BY <1>5, <2>1, FailedBefore
  <2> QED
    BY <1>1, <1>4, <1>6, <2>4, <2>5, NothingDoomed
<1>7. CASE /\ outcome # "ok" /\ at' = [at EXCEPT ![r] = "release"]
           /\ UNCHANGED <<serving, left, current, told>>
  <2>1. /\ Elsewhere(r) /\ at'[r] = "release" /\ current'[r] = current[r]
        /\ serving'[r] = serving[r] /\ left'[r] = left[r] /\ told' = told
    BY <1>1, <1>7 DEF Elsewhere, TypeOK
  <2>2. ASSUME NEW m \in Messages, Done(m)' PROVE Done(m)
    <3>1. CASE m \in Carries[serving[r]] \ left[r]
      BY <1>1, <3>1 DEF Done
    <3>2. CASE ~(m \in Carries[serving[r]] \ left[r])
      BY <2>1, <2>2, <3>2, DoneBefore
    <3> QED
      BY <3>1, <3>2
  <2>3. ASSUME NEW m \in Messages, Orphaned(m)' PROVE Orphaned(m)
    <3>1. ~Holding(r, IdOf[m])'
      BY <2>3 DEF Orphaned, Holders
    <3>2. ~Holding(r, IdOf[m])
      BY <1>1, <2>1, <3>1 DEF Holding
    <3> QED
      BY <1>1, <2>1, <2>3, <3>2, OrphanedBefore DEF Orphaned
  <2>4. Doomed' \subseteq Doomed \cup {}
    BY <1>1, <1>5, <2>2, <2>3, DoomedBefore
  <2>5. Failed' \subseteq Failed \cup {r}
    BY <1>5, <2>1, FailedBefore
  <2>6. CASE outcome = "fail"
    BY <1>1, <1>4, <2>4, <2>5, <2>6, FirstFailure
  <2>7. CASE outcome = "lost"
    <3>1. r \notin Failed'
      BY <1>5, <2>1, <2>7 DEF Failed
    <3> QED
      BY <1>1, <1>4, <2>4, <2>5, <2>7, <3>1, NothingDoomed
  <2> QED
    BY <1>7, <2>6, <2>7 DEF Outcomes
<1> QED
  BY <1>3, <1>6, <1>7

LEMMA ReleaseLoss ==
    ASSUME IdsAreOwn, Inv, Inv', LossOK, NEW r \in Requests, Release(r) PROVE LossOK'
<1>1. TypeOK /\ TypeOK' /\ at[r] = "release" /\ Busy(r) /\ UNCHANGED <<queued, early>>
  BY DEF Inv, Release, Busy
<1>2. current[r] \in Messages
  BY <1>1, InHand
<1>3. PICK outcome \in Outcomes :
         /\ Call(outcome)
         /\ claims' = IF Applied(outcome) THEN claims \ {IdOf[current[r]]} ELSE claims
  BY DEF Release
<1>4. /\ lost' = IF outcome = "lost" THEN lost + 1 ELSE lost
      /\ fails' = IF outcome = "fail" THEN fails + 1 ELSE fails
      /\ crashes' = crashes
      /\ crashes \in Nat /\ lost \in Nat /\ fails \in Nat
  BY <1>1, <1>3, CallShape, FaultTypes
<1>5. Elsewhere(r) /\ at'[r] = "idle" /\ told' = told
  BY <1>1, OverShape DEF Release, Answer
<1>6. ASSUME NEW m \in Messages, Done(m)' PROVE Done(m)
  BY <1>5, <1>6, DoneBefore DEF Busy
<1>7. ASSUME NEW m \in Messages, m # current[r], Orphaned(m)' PROVE Orphaned(m)
  <2>1. IdOf[m] # IdOf[current[r]] /\ IdOf[m] \in claims
    BY <1>2, <1>3, <1>7 DEF IdsAreOwn, Orphaned
  <2> QED
    BY <1>5, <1>7, <2>1, OrphanedBefore DEF Holding
<1>8. Failed' \subseteq Failed \ {r}
  BY <1>1, <1>5, FailedBefore
<1>9. CASE outcome = "fail"
  <2>1. Doomed' \subseteq Doomed \cup {current[r]}
    BY <1>1, <1>6, <1>7, DoomedBefore
  <2>2. CASE queued[current[r]] = 0
    <3>1. r \in Failed
      BY <1>1, <2>2 DEF Failed
    <3> QED
      BY <1>1, <1>4, <1>8, <1>9, <2>1, <3>1, SecondFailure
  <2>3. CASE queued[current[r]] # 0
    <3>1. current[r] \notin Doomed'
      BY <1>1, <2>3 DEF Doomed
    <3> QED
      BY <1>1, <1>4, <1>8, <1>9, <2>1, <3>1, NothingDoomed
  <2> QED
    BY <2>2, <2>3
<1>10. CASE outcome # "fail"
  <2>1. ASSUME NEW m \in Messages, m = current[r] PROVE ~Orphaned(m)'
    BY <1>3, <1>10, <2>1 DEF Applied, Outcomes, Orphaned
  <2>2. Doomed' \subseteq Doomed \cup {}
    BY <1>1, <1>6, <1>7, <2>1, DoomedBefore
  <2> QED
    BY <1>1, <1>4, <1>8, <1>10, <2>2, NothingDoomed
<1> QED
  BY <1>9, <1>10

LEMMA CrashLoss ==
    ASSUME IdsAreOwn, Inv, Inv', LossOK, NEW r \in Requests, Crash(r) PROVE LossOK'
<1>1. /\ TypeOK /\ TypeOK' /\ Over(r, "idle") /\ crashes' = crashes + 1
      /\ UNCHANGED <<claims, queued, told, early, fails, lost>>
  BY DEF Inv, Crash
<1>2. Elsewhere(r) /\ at'[r] = "idle"
  BY <1>1, OverShape
<1>3. ASSUME NEW m \in Messages, Done(m)' PROVE Done(m)
  BY <1>1, <1>2, <1>3, DoneBefore DEF Busy
<1>4. ASSUME NEW m \in Messages, m # current[r], Orphaned(m)' PROVE Orphaned(m)
  <2>1. ~Holding(r, IdOf[m])
    <3> SUFFICES ASSUME Holding(r, IdOf[m]) PROVE FALSE
      OBVIOUS
    <3>1. current[r] \in Messages /\ IdOf[m] = IdOf[current[r]]
      BY InHand DEF Holding, Busy
    <3> QED
      BY <1>4, <3>1 DEF IdsAreOwn
  <2> QED
    BY <1>1, <1>2, <1>4, <2>1, OrphanedBefore DEF Orphaned
<1>5. Doomed' \subseteq Doomed \cup {current[r]}
  BY <1>1, <1>3, <1>4, DoomedBefore
<1>6. Failed' \subseteq Failed
  BY <1>1, <1>2, FailedBefore
<1> QED
  BY <1>1, <1>5, <1>6, FaultTypes, OneDoomed

LEMMA ExpireLoss ==
    ASSUME Inv, Inv', LossOK, NEW id \in Ids, Expire(id) PROVE LossOK'
<1>1. /\ TypeOK /\ TypeOK' /\ claims' \subseteq claims
      /\ UNCHANGED <<queued, request, told, early, fails, lost, crashes>>
  BY DEF Inv, Expire
<1>2. Doomed' \subseteq Doomed
  BY <1>1 DEF Doomed, Done, Busy, Accepted, Orphaned, Holders, Holding, request
<1>3. Failed' \subseteq Failed
  BY <1>1 DEF Failed, request
<1> QED
  BY <1>1, <1>2, <1>3, FaultTypes, NothingDoomed

LEMMA LossStep ==
    ASSUME IdsAreOwn PROVE Inv /\ Inv' /\ LossOK /\ [Next]_vars => LossOK'
<1> SUFFICES ASSUME Inv, Inv', LossOK, [Next]_vars PROVE LossOK'
  OBVIOUS
<1>1. ASSUME NEW r \in Requests, NEW d \in Deliveries, Post(r, d) PROVE LossOK'
  BY <1>1, PostLoss
<1>2. ASSUME NEW r \in Requests, Serve(r) PROVE LossOK'
  BY <1>2, VerifyLoss, ClaimLoss, PublishMessageLoss, ReleaseLoss DEF Serve
<1>3. ASSUME NEW r \in Requests, Crash(r) PROVE LossOK'
  BY <1>3, CrashLoss
<1>4. ASSUME NEW id \in Ids, Expire(id) PROVE LossOK'
  BY <1>4, ExpireLoss
<1>5. CASE UNCHANGED vars
  BY <1>5 DEF vars, request, faults, LossOK, Doomed, Failed, Done, Busy, Accepted, Orphaned,
     Holders, Holding
<1> QED
  BY <1>1, <1>2, <1>3, <1>4, <1>5 DEF Next

\* receive() never leaves a message behind that its vendor was told about without a
\* fault to show for each: a death, a lost reply, or two failures.  The adapters give
\* each message an id of its own; two that shared one would pass for duplicates.
THEOREM NoLossWithoutFault == ASSUME IdsAreOwn PROVE Spec => []EachLossIsAFault
<1>1. Init => LossOK
  <2> SUFFICES ASSUME Init PROVE LossOK
    OBVIOUS
  <2>1. Doomed = {} /\ Failed = {}
    BY DEF Init, Doomed, Failed, Done, Busy, Orphaned
  <2> QED
    BY <2>1, FS_EmptySet DEF Init, LossOK
<1>2. Inv /\ Inv' /\ LossOK /\ [Next]_vars => LossOK'
  BY LossStep
<1>3. Inv /\ LossOK => EachLossIsAFault
  <2> SUFFICES ASSUME Inv, LossOK PROVE EachLossIsAFault
    OBVIOUS
  <2>1. IsFiniteSet(Doomed) /\ Cardinality(Doomed) \in Nat /\ Cardinality(Failed) \in Nat
    BY LossSetsAreFinite
  <2>2. Missing \ early \subseteq Doomed
    BY DEF Missing, Doomed, Done
  <2>3. /\ Cardinality(Missing \ early) <= Cardinality(Doomed)
        /\ Cardinality(Missing \ early) \in Nat
    BY <2>1, <2>2, FS_Subset, FS_CardinalityType
  <2>4. crashes \in Nat /\ lost \in Nat /\ fails \in Nat
    BY IntakeAssumption DEF Inv, TypeOK
  <2>5. 2 * Cardinality(Doomed) + Cardinality(Failed) <= 2 * (crashes + lost) + fails
    BY DEF LossOK
  <2>6. Cardinality(Doomed) <= crashes + lost + (fails \div 2)
    BY <2>1, <2>4, <2>5
  <2>7. (fails \div 2) \in Nat
    BY <2>4
  <2> QED
    BY <2>1, <2>3, <2>4, <2>6, <2>7 DEF EachLossIsAFault
<1> QED
  BY <1>1, <1>2, <1>3, InvHolds, PTL DEF Spec
=============================================================================
