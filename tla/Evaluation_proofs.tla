--------------------------- MODULE Evaluation_proofs ---------------------------
(***************************************************************************)
(* Theorems about Evaluation, for any routing, suite, number of runs and    *)
(* outages.                                                                *)
(***************************************************************************)
EXTENDS Evaluation, Integers, SequenceTheorems, WellFoundedInduction, TLAPS

(***************************************************************************)
(* A recorded turn: its models are on the ledger, it was graded exactly     *)
(* when it was gradable, and never by who composed it.                      *)
(***************************************************************************)
Turns(g, spent) == {turn \in Turn :
    /\ turn.models \subseteq spent
    /\ turn.verdict = NotGraded <=> ~(g /\ turn.failed \subseteq {"action"})
    /\ turn.verdict # NotGraded => turn.verdict.by # turn.by}
Outcomes(g, spent) == [turns : Seq(Turns(g, spent)), errored : BOOLEAN]

\* A lost invocation's open ledger went with its session.
Spent == IF phase = "lost" THEN STRING ELSE open

RecordOK ==
    /\ runs \in Seq(Seq(Outcomes(graded, ledger)))
    /\ outcomes \in Seq(Outcomes(graded, Spent)) /\ turns \in Seq(Turns(graded, Spent))
    /\ asked # Nobody => Working /\ asked.models \subseteq Spent
    /\ turns # <<>> /\ phase # "lost" => Working
    /\ phase = "idle" => runs = <<>> /\ outcomes = <<>> /\ turns = <<>>

RowOK == row # Nobody =>
    /\ phase = "recorded"
    /\ row.substituted = IF noted # {} THEN noted ELSE NotPrimary(ledger)

Inv == TypeOK /\ RecordOK /\ RowOK
-----------------------------------------------------------------------------
\* Naturals are well ordered, so a task's first standing candidate exists.
LEMMA LeastPlace ==
    ASSUME NEW S \in SUBSET Nat, S # {}
    PROVE  \E i \in S : \A j \in S : i <= j
<1> DEFINE R == OpToRel(<, Nat)
<1>1. IsWellFoundedOn(R, Nat)
  BY NatLessThanWellFounded
<1>2. \A x, y \in Nat : x < y => <<x, y>> \in R
  BY DEF OpToRel
<1> HIDE DEF R
<1>3. PICK i \in S : \A j \in S : ~ (<<j, i>> \in R)
  BY <1>1, WFMin
<1>4. \A j \in S : i <= j
  <2> SUFFICES ASSUME NEW j \in S, ~ (i <= j) PROVE FALSE
    OBVIOUS
  <2>1. i \in Nat /\ j \in Nat
    OBVIOUS
  <2>2. <<j, i>> \in R
    BY <1>2, <2>1
  <2> QED
    BY <1>3, <2>2
<1> QED
  BY <1>4

LEMMA FirstIsCandidate ==
    ASSUME NEW task \in Tasks, NEW without
    PROVE  \/ First(task, without) = Nobody
           \/ First(task, without) \in Candidate /\ First(task, without).provider \notin without
<1> DEFINE places == Candidates(task, without)
<1>1. Routing[task] \in Seq(Candidate) /\ DOMAIN Routing[task] = 1 .. Len(Routing[task])
  <2>1. Routing \in [Tasks -> Seq(Candidate)]
    BY EvaluationAssumption DEF Candidate
  <2> QED
    BY <2>1, LenProperties
<1>2. places \subseteq 1 .. Len(Routing[task]) /\ Len(Routing[task]) \in Nat
  BY <1>1, LenProperties DEF Candidates
<1>3. places \in SUBSET Nat
  BY <1>2
<1>4. ASSUME places # {}
      PROVE  /\ First(task, without) \in Candidate
             /\ First(task, without).provider \notin without
  <2> DEFINE i == CHOOSE i \in places : \A j \in places : i <= j
  <2>1. i \in places
    BY <1>3, <1>4, LeastPlace
  <2>2. First(task, without) = Routing[task][i]
    BY <1>4 DEF First
  <2> HIDE DEF i
  <2>3. Routing[task][i] \in Candidate
    BY <1>1, <1>2, <2>1, ElementOfSeq
  <2> QED
    BY <2>1, <2>2, <2>3 DEF Candidates
<1> QED
  BY <1>4 DEF First

LEMMA AnsweringType ==
    ASSUME NEW task \in Tasks, NEW excluded, Answering(task, excluded) # Nobody
    PROVE  /\ Answering(task, excluded) \in Candidate
           /\ Answering(task, excluded).provider \in Providers \ {excluded, Nobody.provider}
           /\ Answering(task, excluded).model \in STRING
<1>1. /\ Answering(task, excluded) \in Candidate
      /\ Answering(task, excluded).provider \notin {excluded} \cup down
  BY FirstIsCandidate DEF Answering
<1> QED
  BY <1>1, EvaluationAssumption DEF Candidate

\* What is good with some models on the ledger is good with more.
LEMMA MoreSpent ==
    ASSUME NEW g, NEW A, NEW B, A \subseteq B
    PROVE  /\ Turns(g, A) \subseteq Turns(g, B) /\ Seq(Turns(g, A)) \subseteq Seq(Turns(g, B))
           /\ Outcomes(g, A) \subseteq Outcomes(g, B)
           /\ Seq(Outcomes(g, A)) \subseteq Seq(Outcomes(g, B))
           /\ Seq(Seq(Outcomes(g, A))) \subseteq Seq(Seq(Outcomes(g, B)))
<1>1. Turns(g, A) \subseteq Turns(g, B)
  BY DEF Turns
<1>2. Seq(Turns(g, A)) \subseteq Seq(Turns(g, B))
  BY <1>1, SeqMonotonic
<1>3. Outcomes(g, A) \subseteq Outcomes(g, B)
  BY <1>2 DEF Outcomes
<1>4. Seq(Outcomes(g, A)) \subseteq Seq(Outcomes(g, B))
  BY <1>3, SeqMonotonic
<1> QED
  BY <1>1, <1>2, <1>3, <1>4, SeqMonotonic

LEMMA NothingIsAny ==
    /\ <<>> \in Seq(Turn) /\ <<>> \in Seq(Outcome) /\ <<>> \in Seq(Seq(Outcome))
    /\ \A g, A : <<>> \in Seq(Turns(g, A)) /\ <<>> \in Seq(Outcomes(g, A))
                 /\ <<>> \in Seq(Seq(Outcomes(g, A)))
  BY EmptySeq

LEMMA InitInv == Init => Inv
<1> SUFFICES ASSUME Init PROVE Inv
  OBVIOUS
<1>1. TypeOK
  <2>1. MaxOutages \in Nat
    BY EvaluationAssumption
  <2> QED
    <3>1. graded \in BOOLEAN /\ noted \subseteq Tasks /\ down \subseteq Providers
      BY DEF Init
    <3>2. runs \in Seq(Seq(Outcome)) /\ outcomes \in Seq(Outcome) /\ turns \in Seq(Turn)
      BY NothingIsAny DEF Init
    <3>3. asked = Nobody /\ row = Nobody /\ phase = "idle"
          /\ open \subseteq STRING /\ ledger \subseteq STRING /\ outages \in 0 .. MaxOutages
      BY <2>1 DEF Init
    <3> QED
      BY <3>1, <3>2, <3>3 DEF TypeOK
<1> QED
  BY <1>1, NothingIsAny DEF Init, Inv, RecordOK, RowOK

-----------------------------------------------------------------------------
\* The end of a case: its outcome is appended, or the turn to the case's.
LEMMA EndCaseKeeps ==
    ASSUME Inv, NEW outcome \in Outcome, EndCase(outcome), NEW spent, Spent \subseteq spent,
           outcome \in Outcomes(graded, spent)
    PROVE  /\ outcomes' \in Seq(Outcome) /\ turns' \in Seq(Turn)
           /\ outcomes' \in Seq(Outcomes(graded, spent)) /\ turns' \in Seq(Turns(graded, spent))
<1>1. outcomes \in Seq(Outcome) /\ outcomes \in Seq(Outcomes(graded, spent))
  BY MoreSpent DEF Inv, TypeOK, RecordOK
<1>2. /\ Append(outcomes, outcome) \in Seq(Outcome)
      /\ Append(outcomes, outcome) \in Seq(Outcomes(graded, spent))
  BY <1>1, AppendProperties
<1> QED
  BY <1>2, NothingIsAny DEF EndCase

LEMMA AddTurnKeeps ==
    ASSUME Inv, IsAt("replied"), NEW verdict \in Verdict \cup {NotGraded}, AddTurn(verdict),
           open' \in SUBSET STRING, open \subseteq open',
           verdict = NotGraded <=> ~IsGradable(asked),
           verdict # NotGraded => verdict.by # asked.by
    PROVE  Inv'
<1> DEFINE turn == [by |-> asked.by, models |-> asked.models, failed |-> asked.failed,
                    verdict |-> verdict]
<1>1. /\ phase = "running" /\ asked # Nobody /\ asked.models \subseteq open
      /\ asked.by \in Providers \cup {Nobody.provider} /\ asked.failed \in StageOne
      /\ asked.models \subseteq STRING /\ Spent = open
  BY EvaluationAssumption DEF IsAt, Inv, TypeOK, RecordOK, Working, Spent
<1>2. turn \in Turn /\ turn \in Turns(graded, open')
  <2>1. turn \in Turn
    BY <1>1 DEF Turn
  <2> QED
    BY <1>1, <2>1 DEF Turns, IsGradable
<1>3. /\ UNCHANGED <<phase, graded, noted, down, outages, runs, ledger, row>> /\ asked' = Nobody
      /\ \/ EndCase([turns |-> Append(turns, turn), errored |-> FALSE])
         \/ turns' = Append(turns, turn) /\ outcomes' = outcomes
  BY DEF AddTurn, suite, world
<1> HIDE DEF turn
<1>4. /\ turns \in Seq(Turn) /\ turns \in Seq(Turns(graded, open'))
      /\ outcomes \in Seq(Outcome) /\ outcomes \in Seq(Outcomes(graded, open'))
  BY <1>1, MoreSpent DEF Inv, TypeOK, RecordOK
<1>5. Append(turns, turn) \in Seq(Turn) /\ Append(turns, turn) \in Seq(Turns(graded, open'))
  BY <1>2, <1>4, AppendProperties
<1>6. /\ outcomes' \in Seq(Outcome) /\ turns' \in Seq(Turn)
      /\ outcomes' \in Seq(Outcomes(graded, open')) /\ turns' \in Seq(Turns(graded, open'))
      /\ turns' = <<>> \/ outcomes' = outcomes
  <2> DEFINE outcome == [turns |-> Append(turns, turn), errored |-> FALSE]
  <2>1. outcome \in Outcome /\ outcome \in Outcomes(graded, open')
    BY <1>5 DEF Outcome, Outcomes
  <2> HIDE DEF outcome
  <2>2. CASE EndCase(outcome)
    BY <1>1, <2>1, <2>2, EndCaseKeeps DEF EndCase
  <2>3. CASE turns' = Append(turns, turn) /\ outcomes' = outcomes
    BY <1>4, <1>5, <2>3
  <2> QED
    BY <1>3, <2>2, <2>3 DEF outcome
<1>7. TypeOK'
  BY <1>3, <1>6 DEF Inv, TypeOK
<1>8. RecordOK'
  <2>1. turns' # <<>> => Working'
    BY <1>1, <1>3, <1>6 DEF Inv, RecordOK, Working
  <2> QED
    BY <1>1, <1>3, <1>6, <2>1 DEF Inv, RecordOK, Spent
<1>9. RowOK'
  BY <1>3 DEF Inv, RowOK, NotPrimary
<1> QED
  BY <1>7, <1>8, <1>9 DEF Inv
-----------------------------------------------------------------------------
\* Steps that leave what is recorded alone.
LEMMA QuietKeeps ==
    ASSUME Inv, UNCHANGED <<graded, runs, outcomes, turns, ledger>>, phase' # "idle",
           Spent \subseteq Spent', Working /\ phase' # "lost" => Working', phase # "lost" \/ phase' = "lost",
           asked' # Nobody => Working' /\ asked'.models \subseteq Spent'
    PROVE  RecordOK'
<1>1. /\ outcomes \in Seq(Outcomes(graded, Spent')) /\ turns \in Seq(Turns(graded, Spent'))
  BY MoreSpent DEF Inv, RecordOK
<1> QED
  BY <1>1 DEF Inv, RecordOK

LEMMA BeginKeeps ==
    ASSUME Inv, phase = "idle", NEW g \in BOOLEAN, NEW missing \in SUBSET Tasks, Begin(g, missing)
    PROVE  Inv'
<1>1. /\ runs = <<>> /\ outcomes = <<>> /\ turns = <<>> /\ asked = Nobody /\ row = Nobody
  BY DEF Inv, RecordOK, RowOK, Working
<1>2. /\ phase' = "running" /\ graded' = g /\ noted' = missing
      /\ UNCHANGED <<down, outages, runs, outcomes, turns, asked, open, ledger, row>>
  BY DEF Begin, world, run, spend
<1>3. TypeOK'
  BY <1>2 DEF Inv, TypeOK
<1> QED
  BY <1>1, <1>2, <1>3, NothingIsAny DEF Inv, RecordOK, RowOK

LEMMA ReplyKeeps ==
    ASSUME Inv, NEW composition, NEW failed \in StageOne, Reply(composition, failed),
           composition = Nobody \/ composition \in Candidate
    PROVE  Inv'
<1>1. /\ asked # Nobody /\ asked.models \subseteq Spent /\ Working /\ asked.models \subseteq STRING
      /\ open \subseteq STRING
  BY DEF Reply, IsAt, Inv, RecordOK, TypeOK
<1> DEFINE models == {composition.model} \ {Nobody.model}
<1>2. composition.provider \in Providers \cup {Nobody.provider} /\ models \subseteq STRING
  BY DEF Candidate
<1>3. /\ UNCHANGED <<phase, graded, noted, down, outages, runs, outcomes, turns, ledger, row>>
      /\ open' = open \cup models
      /\ asked' = [stage |-> "replied", by |-> composition.provider, failed |-> failed,
                   models |-> asked.models \cup models]
  BY DEF Reply, suite, world
<1> HIDE DEF models
<1>4. TypeOK'
  <2>1. asked' \in [stage : {"replied"}, by : Providers \cup {Nobody.provider},
                    failed : StageOne, models : SUBSET STRING]
    BY <1>1, <1>2, <1>3
  <2>2. open' \subseteq STRING
    BY <1>1, <1>2, <1>3
  <2> QED
    BY <1>3, <2>1, <2>2 DEF Inv, TypeOK
<1>5. Spent = open /\ Spent' = open' /\ phase = "running" /\ Working'
  BY <1>1, <1>3 DEF Spent, Working
<1>6. RecordOK'
  BY <1>1, <1>3, <1>4, <1>5, QuietKeeps
<1> QED
  BY <1>3, <1>4, <1>6 DEF Inv, RowOK, NotPrimary

LEMMA NextKeeps == Inv /\ [Next]_vars => Inv'
<1> SUFFICES ASSUME Inv, [Next]_vars PROVE Inv'
  OBVIOUS
<1> USE DEF Inv
<1>1. CASE UNCHANGED <<suite, run, spend>> /\ down' \subseteq Providers /\ outages' \in 0 .. MaxOutages
  BY <1>1 DEF suite, run, spend, TypeOK, RecordOK, RowOK, Spent, Working, NotPrimary
<1>2. ASSUME NEW p \in Providers, Outage(p) PROVE Inv'
  <2>1. down' \subseteq Providers
    BY <1>2 DEF Outage, TypeOK
  <2>2. outages' \in 0 .. MaxOutages
    <3>1. MaxOutages \in Nat
      BY EvaluationAssumption
    <3> QED
      BY <1>2, <3>1 DEF Outage, TypeOK
  <2> QED
    BY <1>1, <1>2, <2>1, <2>2 DEF Outage
<1>3. CASE StartUngraded \/ \E estimate \in Estimates, allowed \in BOOLEAN : StartGraded(estimate, allowed)
  <2>1. Substituted \subseteq Tasks
    BY DEF Substituted
  <2> QED
    BY <1>3, <2>1, BeginKeeps DEF StartUngraded, StartGraded
<1>4. ASSUME NEW estimate \in Estimates, NEW allowed \in BOOLEAN, Refuse(estimate, allowed) PROVE Inv'
  <2>1. /\ phase = "idle" /\ phase' = "refused"
        /\ UNCHANGED <<graded, noted, down, outages, runs, outcomes, turns, asked, open, ledger, row>>
    BY <1>4 DEF Refuse, world, run, spend
  <2>2. asked = Nobody /\ row = Nobody
    BY <2>1 DEF RecordOK, RowOK, Working
  <2> QED
    BY <2>1, <2>2 DEF TypeOK, RecordOK, RowOK, Spent
<1>5. CASE Extract
  <2> DEFINE extraction == Answering("extraction", "nobody")
  <2>1. extraction.model \in STRING
    BY <1>5, AnsweringType DEF Extract, Tasks
  <2>2. /\ UNCHANGED <<phase, graded, noted, down, outages, runs, outcomes, turns, ledger, row>>
        /\ open' = open \cup {extraction.model} /\ Working
        /\ asked' = [stage |-> "extracted", models |-> {extraction.model}]
    BY <1>5 DEF Extract, suite, world
  <2> HIDE DEF extraction
  <2>3. TypeOK'
    <3>1. asked' \in [stage : {"extracted"}, models : SUBSET STRING] /\ open' \subseteq STRING
      BY <2>1, <2>2 DEF TypeOK
    <3> QED
      BY <2>2, <3>1 DEF TypeOK
  <2>4. Spent = open /\ Spent' = open' /\ phase = "running" /\ Working'
    BY <2>2 DEF Spent, Working
  <2>5. RecordOK'
    BY <2>2, <2>3, <2>4, QuietKeeps
  <2> QED
    BY <2>2, <2>3, <2>5 DEF RowOK, NotPrimary
<1>6. ASSUME NEW failed \in StageOne, Script(failed) \/ Compose(failed) PROVE Inv'
  BY <1>6, ReplyKeeps, AnsweringType DEF Script, Compose, Tasks
<1>7. CASE FailTurn
  <2>1. Errored
    BY <1>7 DEF FailTurn
  <2> DEFINE outcome == [turns |-> turns, errored |-> TRUE]
  <2>2. outcome \in Outcome /\ outcome \in Outcomes(graded, Spent)
    BY DEF TypeOK, RecordOK, Outcome, Outcomes
  <2>3. EndCase(outcome) /\ Working /\ asked' = Nobody
        /\ UNCHANGED <<phase, graded, noted, down, outages, runs, open, ledger, row>>
    BY <2>1 DEF Errored, suite, world, spend
  <2>4. /\ outcomes' \in Seq(Outcome) /\ turns' \in Seq(Turn)
        /\ outcomes' \in Seq(Outcomes(graded, Spent)) /\ turns' \in Seq(Turns(graded, Spent))
    BY <2>2, <2>3, EndCaseKeeps
  <2>5. turns' = <<>>
    BY <2>3 DEF EndCase
  <2>6. Spent' = Spent /\ phase = "running"
    BY <2>3 DEF Spent, Working
  <2> QED
    BY <2>3, <2>4, <2>5, <2>6 DEF TypeOK, RecordOK, RowOK, NotPrimary
<1>8. CASE SkipJudge
  <2>1. IsAt("replied") /\ ~IsGradable(asked) /\ AddTurn(NotGraded) /\ open' = open
    BY <1>8 DEF SkipJudge
  <2> QED
    BY <2>1, AddTurnKeeps DEF TypeOK
<1>9. ASSUME NEW result \in Results, Grade(result) PROVE Inv'
  <2> DEFINE judge == Answering("grading", ComposerOf(asked))
             verdict == [by |-> judge.provider, model |-> judge.model, result |-> result]
  <2>1. /\ IsAt("replied") /\ IsGradable(asked) /\ judge # Nobody /\ AddTurn(verdict)
        /\ open' = open \cup {judge.model}
    BY <1>9 DEF Grade
  <2>2. /\ judge.provider \in Providers \ {ComposerOf(asked), Nobody.provider}
        /\ judge.model \in STRING
    BY <2>1, AnsweringType DEF Tasks
  <2> HIDE DEF judge
  <2>3. verdict \in Verdict
    BY <2>2 DEF Verdict
  <2>4. verdict # NotGraded
    <3>1. DOMAIN verdict # DOMAIN NotGraded
      <4>1. "by" \in DOMAIN verdict /\ "by" \notin DOMAIN Nobody
        BY EvaluationAssumption
      <4> QED
        BY <4>1 DEF NotGraded
    <3> QED
      BY <3>1
  <2>5. verdict.by # asked.by
    BY <2>2 DEF ComposerOf
  <2> HIDE DEF verdict
  <2>6. open' \in SUBSET STRING /\ open \subseteq open'
    BY <2>1, <2>2 DEF TypeOK
  <2> QED
    BY <2>1, <2>3, <2>4, <2>5, <2>6, AddTurnKeeps
<1>10. CASE LoseInvocation
  <2>1. /\ asked # Nobody /\ phase' = "lost" /\ asked' = Nobody /\ open' = {}
        /\ UNCHANGED <<graded, noted, down, outages, runs, outcomes, turns, ledger, row>>
    BY <1>10 DEF LoseInvocation, IsAt, world
  <2>2. phase = "running" /\ Spent = open /\ Spent' = STRING /\ open \subseteq STRING
    BY <2>1 DEF RecordOK, Working, Spent, TypeOK
  <2>3. TypeOK'
    BY <2>1 DEF TypeOK
  <2>4. RecordOK'
    BY <2>1, <2>2, <2>3, QuietKeeps
  <2> QED
    BY <2>1, <2>2, <2>3, <2>4 DEF RowOK
<1>11. CASE EndRun
  <2>1. /\ phase = "running" /\ phase' \in {"running", "measured"}
        /\ runs' = Append(runs, outcomes) /\ outcomes' = <<>>
        /\ ledger' = ledger \cup open /\ open' = {} /\ ~Working
        /\ UNCHANGED <<graded, noted, down, outages, turns, asked, row>>
    BY <1>11 DEF EndRun, world, Working
  <2>2. asked = Nobody /\ row = Nobody /\ Spent = open /\ Spent' = {}
    BY <2>1 DEF RecordOK, RowOK, Spent
  <2>3. /\ runs \in Seq(Seq(Outcomes(graded, ledger'))) /\ outcomes \in Seq(Outcomes(graded, ledger'))
    BY <2>1, <2>2, MoreSpent DEF RecordOK
  <2>4. /\ runs' \in Seq(Seq(Outcomes(graded, ledger'))) /\ runs' \in Seq(Seq(Outcome))
    BY <2>1, <2>3, AppendProperties DEF TypeOK
  <2>5. TypeOK'
    BY <2>1, <2>4, NothingIsAny DEF TypeOK
  <2>6. turns = <<>>
    BY <2>1 DEF RecordOK
  <2> QED
    BY <2>1, <2>2, <2>4, <2>5, <2>6, NothingIsAny DEF RecordOK, RowOK
<1>12. CASE Record
  <2>1. /\ phase = "measured" /\ phase' = "recorded"
        /\ row' = [models |-> ledger, substituted |-> IF noted # {} THEN noted ELSE NotPrimary(ledger)]
        /\ UNCHANGED <<graded, noted, down, outages, runs, outcomes, turns, asked, open, ledger>>
    BY <1>12 DEF Record, world, run
  <2>2. row' \in [models : SUBSET STRING, substituted : SUBSET (Tasks \cup STRING)]
    <3>1. noted \subseteq Tasks /\ ledger \subseteq STRING
      BY DEF TypeOK
    <3>2. NotPrimary(ledger) \subseteq ledger
      BY DEF NotPrimary
    <3> QED
      BY <2>1, <3>1, <3>2
  <2>3. TypeOK'
    BY <2>1, <2>2 DEF TypeOK
  <2>4. asked = Nobody /\ Spent' = Spent /\ ~Working
    BY <2>1 DEF RecordOK, Working, Spent
  <2>5. RecordOK'
    BY <2>1, <2>3, <2>4, QuietKeeps
  <2>6. RowOK'
    BY <2>1 DEF RowOK, NotPrimary
  <2> QED
    BY <2>3, <2>5, <2>6
<1>13. CASE UNCHANGED vars
  <2>1. MaxOutages \in Nat
    BY EvaluationAssumption
  <2> QED
    BY <1>1, <1>13, <2>1 DEF vars, suite, world, run, spend, TypeOK
<1> QED
  BY <1>2, <1>3, <1>4, <1>5, <1>6, <1>7, <1>8, <1>9, <1>10, <1>11, <1>12, <1>13 DEF Next

LEMMA InvHolds == Spec => []Inv
  BY InitInv, NextKeeps, PTL DEF Spec

LEMMA TurnsAreGood ==
    ASSUME NEW g, NEW A, NEW outs \in Seq(Outcomes(g, A)), NEW turn \in TurnsOf(outs)
    PROVE  turn \in Turns(g, A)
<1>1. PICK i \in DOMAIN outs : turn \in Elements(outs[i].turns)
  BY DEF TurnsOf, Elements
<1>2. outs[i] \in Outcomes(g, A)
  BY <1>1, LenProperties, ElementOfSeq
<1>3. outs[i].turns \in Seq(Turns(g, A))
  BY <1>2 DEF Outcomes
<1> QED
  BY <1>1, <1>3, LenProperties, ElementOfSeq DEF Elements

LEMMA RunsAreGood ==
    ASSUME Inv, NEW outs \in Elements(runs)
    PROVE  outs \in Seq(Outcomes(graded, ledger))
<1>1. runs \in Seq(Seq(Outcomes(graded, ledger)))
  BY DEF Inv, RecordOK
<1> QED
  BY <1>1, LenProperties, ElementOfSeq DEF Elements

\* grade() excludes who composed the reply and nobody grades when no other provider is
\* up, so no verdict an invocation ever records is its own author's, however providers
\* fail over between the reply and its grading.
THEOREM NoSelfGrading == Spec => []NobodyGradesTheirOwn
<1>1. Inv => NobodyGradesTheirOwn
  <2> SUFFICES ASSUME Inv, NEW outs \in Elements(runs) \cup {outcomes}, NEW turn \in TurnsOf(outs),
                      turn.verdict # NotGraded
               PROVE  turn.verdict.by # turn.by
    BY DEF NobodyGradesTheirOwn
  <2>1. turn \in Turns(graded, ledger) \/ turn \in Turns(graded, Spent)
    BY RunsAreGood, TurnsAreGood DEF Inv, RecordOK
  <2> QED
    BY <2>1 DEF Turns
<1> QED
  BY <1>1, InvHolds, PTL

\* The judged accuracy counts no case of which a turn went ungraded: within one
\* invocation every gradable turn of a finished run has its verdict.
THEOREM PassedMeansJudged == Spec => []PassedWasJudged
<1>1. Inv => PassedWasJudged
  <2> SUFFICES ASSUME Inv, NEW outs \in Elements(runs), Accuracy(outs).name = "overall_accuracy",
                      NEW i \in Accuracy(outs).passed, NEW turn \in Elements(outs[i].turns)
               PROVE  turn.verdict # NotGraded /\ turn.verdict.result = "meets"
    BY DEF PassedWasJudged
  <2>1. IsJudged(outs)
    BY DEF Accuracy
  <2>2. PICK other \in TurnsOf(outs) : other.verdict # NotGraded
    BY <2>1 DEF IsJudged
  <2>3. graded
    BY <2>2, RunsAreGood, TurnsAreGood DEF Turns, Inv, TypeOK
  <2>4. i \in DOMAIN outs /\ CasePassed(outs[i])
    BY DEF Accuracy, Scored
  <2>5. turn \in TurnsOf(outs)
    BY <2>4 DEF TurnsOf, Elements
  <2>6. turn \in Turns(graded, ledger)
    BY <2>5, RunsAreGood, TurnsAreGood
  <2>7. TurnPassed(turn)
    BY <2>4 DEF CasePassed
  <2> QED
    BY <2>3, <2>6, <2>7 DEF Turns, TurnPassed
<1> QED
  BY <1>1, InvHolds, PTL

\* A recorded invocation's row names its substitution whenever a reply of any of its runs
\* was made by a model that is no task's primary.
THEOREM SubstitutionsAreNamed == Spec => []SubstitutionIsNamed
<1>1. Inv => SubstitutionIsNamed
  <2> SUFFICES ASSUME Inv, row # Nobody, NEW outs \in Elements(runs), NEW turn \in TurnsOf(outs),
                      row.substituted = {}
               PROVE  \/ turn.models \subseteq Primaries
                      \/ graded /\ turn.models \subseteq Primaries \cup {MandatedJudge.model}
    BY DEF SubstitutionIsNamed
  <2>1. turn.models \subseteq ledger
    BY RunsAreGood, TurnsAreGood DEF Turns
  <2>2. NotPrimary(ledger) = {}
    BY DEF Inv, RowOK
  <2> QED
    BY <2>1, <2>2 DEF NotPrimary
<1> QED
  BY <1>1, InvHolds, PTL
=============================================================================
